------------------------------ MODULE Collectors ------------------------------
(* The snapshot engine, the occupancy collector and the native collectors:  *)
(* how a session on disk gets its process, its node and its edges, live and *)
(* in a one-shot capture. The store is reduced to what it tells a collector *)
(* and shows a reader: events in order, one incarnation per node.           *)
EXTENDS Integers, Sequences, FiniteSets, SequencesExt, Selections

CONSTANTS
  Sessions,    (* what a home may hold                                      *)
  Lanes,       (* the native collectors, in registration order              *)
  Home,        (* session -> the lane that reads it                         *)
  Bindable,    (* sessions whose process an overlay can name                *)
  Spawns,      (* <<parent, child>> sightings                               *)
  PollEvery,   (* nativePollInterval, in engine seconds                     *)
  BindWindow, ExitWindow, Horizon,  (* their namesakes, scaled down         *)
  OnceOnly,    (* bound: sessions only the one-shot runs are given          *)
  MaxSeconds,  (* bound: how long a live run is followed                    *)
  MaxFaults,   (* bound: failed reads, failed scans, dropped events         *)
  MaxChanges   (* bound: births, writes, exits                              *)

ASSUME CollectorsAssumption ==
  /\ IsFiniteSet(Sessions) /\ Lanes \in Seq(STRING) /\ IsInjective(Lanes)
  /\ Home \in [Sessions -> ToSet(Lanes)]
  /\ Bindable \subseteq Sessions /\ Spawns \subseteq Sessions \X Sessions
  /\ \A e \in Spawns : Home[e[1]] = Home[e[2]]
  /\ \A s \in ToSet(Lanes) : s \notin {"overlay", "rows"}
  /\ {PollEvery, BindWindow, ExitWindow, Horizon, MaxSeconds} \subseteq Nat /\ PollEvery > 1
  /\ BindWindow > PollEvery /\ ExitWindow >= PollEvery /\ Horizon >= BindWindow + PollEvery

Start == Horizon + 1     (* time 0 is past the horizon when the run begins  *)
Never == -1
Children == {e[2] : e \in Spawns}

VARIABLES
  mode,       (* captureOnce of the lanes and the path of main              *)
  main,       (* where the caller is                                        *)
  now, due,   (* the second, and the clocks that have not fired in it       *)
  born,       (* session -> when it appeared on disk                        *)
  touched,    (* session -> ActivityAt                                      *)
  exited,     (* session -> ExitAt                                          *)
  proc,       (* sessions held by a live process                            *)
  overlays,   (* Engine.overlays: sessions the last read named               *)
  frame,      (* Engine.snap: sessions whose row has a process              *)
  awaiting,   (* awaitingBinding of the lanes                               *)
  first,      (* lane -> its first tick: done and the witness               *)
  inbox,      (* accepted events not in the snapshot yet                    *)
  mark,       (* events the Flush of the caller still waits for             *)
  graph,      (* the snapshot                                               *)
  ready,      (* lanes WaitNativeEvidence has heard from                    *)
  expired,    (* its budget ran out                                         *)
  faults, changes,
  disturbed,  (* sessions whose process was lost, or hidden by a failed read *)
  unlucky     (* sessions a failed scan or a dropped event touched          *)

world     == <<born, touched, exited, proc, changes>>
engine    == <<overlays, frame>>
evidence  == <<awaiting, first, inbox, graph>>
caller    == <<main, mark, ready, expired>>
ghosts    == <<faults, disturbed, unlucky>>
collectorVars == <<mode, now, due, world, engine, evidence, caller, ghosts>>

NoInc == "none"
NoWitness == [done |-> FALSE, inc |-> [s \in Sessions |-> NoInc],
              state |-> [s \in Sessions |-> "none"], edges |-> {}]

(* A home found at the start holds sessions written long ago and now.       *)
Init ==
  /\ mode \in {"live", "once"} /\ main = "capture" /\ now = Start /\ due = {}
  /\ born \in [Sessions -> {Never, 0, Start}] /\ touched = born
  /\ mode = "live" => \A s \in OnceOnly : born[s] = Never
  /\ exited = [s \in Sessions |-> Never]
  /\ proc \in SUBSET {s \in Bindable : born[s] # Never}
  /\ overlays = {} /\ frame = {}
  /\ awaiting = {} /\ first = [l \in ToSet(Lanes) |-> NoWitness]
  /\ inbox = <<>> /\ mark = 0 /\ ready = {} /\ expired = FALSE
  /\ graph = [inc |-> [s \in Sessions |-> NoInc],
              state |-> [s \in Sessions |-> "none"], edges |-> {}]
  /\ faults = 0 /\ changes = 0 /\ unlucky = {}
  /\ disturbed = {s \in Bindable : born[s] # Never} \ proc

OnDisk == {s \in Sessions : born[s] # Never}
Collecting == main \notin {"capture", "done"}

-----------------------------------------------------------------------------
(* The engine.                                                              *)

(* A home whose read fails gives nothing, and the sessions the last read    *)
(* named in it go; the error is dropped and Engine.overlayEr stays empty.   *)
CollectOverlays(lost) == {s \in OnDisk \cap proc : Home[s] \notin lost}

Refresh(lost) ==
  /\ overlays' = CollectOverlays(lost)
  /\ faults' = faults + Cardinality(lost) /\ faults' <= MaxFaults
  /\ disturbed' = disturbed \cup {s \in OnDisk : Home[s] \in lost}

(* A row of a process takes the overlay that names its pid.                 *)
Rows(ovs) == ovs \cap proc

(* RefreshOverlay, of CaptureOnce or Start, before any collector runs.      *)
Capture ==
  /\ main = "capture"
  /\ \E lost \in SUBSET ToSet(Lanes) : Refresh(lost)
  /\ frame' = Rows(overlays')
  /\ main' = IF mode = "once" THEN "occupancy" ELSE "live"
  /\ due' = ToSet(Lanes)
  /\ UNCHANGED <<mode, now, world, evidence, mark, ready, expired, unlucky>>

(* The one-second clock.                                                    *)
RefreshOverlayOnly ==
  /\ main = "live" /\ "overlay" \in due
  /\ \E lost \in SUBSET ToSet(Lanes) : Refresh(lost)
  /\ due' = (due \ {"overlay"}) \cup {"rows"}
  /\ UNCHANGED <<mode, now, world, frame, evidence, caller, unlucky>>

(* The 100 ms clock: any number of times, and after every refresh.          *)
TickProc ==
  /\ main = "live"
  /\ frame' = Rows(overlays) /\ due' = due \ {"rows"}
  /\ UNCHANGED <<mode, now, world, overlays, evidence, caller, ghosts>>

-----------------------------------------------------------------------------
(* The store as its neighbours see it.                                      *)

Told(kind, s, inc) == [kind |-> kind, who |-> s, inc |-> inc, child |-> s, childInc |-> inc]

(* An identical event that waits already is a duplicate.                    *)
Publish(queue, e) == IF e \in ToSet(queue) THEN queue ELSE Append(queue, e)
PublishAll(es) == inbox' = FoldLeft(Publish, inbox, es)

(* A node keeps the incarnation it was established under: one side of the   *)
(* comparison never has an anchor.                                          *)
Reconciled(g, e) ==
  CASE e.kind = "node" /\ g.inc[e.who] = NoInc -> [g EXCEPT !.inc[e.who] = e.inc]
    [] e.kind \in {"active", "exit"} /\ g.inc[e.who] = e.inc /\ g.state[e.who] # "exit"
         -> [g EXCEPT !.state[e.who] = e.kind]
    [] e.kind = "spawn" /\ g.inc[e.who] = e.inc /\ g.inc[e.child] = e.childInc
         -> [g EXCEPT !.edges = @ \cup {<<e.who, e.child>>}]
    [] OTHER -> g

(* Run applies some prefix and publishes it.                                *)
Reconcile ==
  \E n \in 1..Len(inbox) :
    /\ graph' = FoldLeft(Reconciled, graph, SubSeq(inbox, 1, n))
    /\ inbox' = SubSeq(inbox, n + 1, Len(inbox))
    /\ mark' = IF mark > n THEN mark - n ELSE 0
    /\ main # "done"
    /\ UNCHANGED <<mode, now, due, world, engine, awaiting, first, main, ready, expired, ghosts>>

-----------------------------------------------------------------------------
(* The occupancy collector: every 100 ms, from the rows of the moment.      *)

OccupancyPublish ==
  /\ Collecting
  /\ PublishAll([i \in 1..Cardinality(frame) |->
                   Told("node", SetToSeq(frame)[i], "process")])
  /\ UNCHANGED <<mode, now, due, world, engine, awaiting, first, graph, caller, ghosts>>

-----------------------------------------------------------------------------
(* A native collector.                                                      *)

(* scan: what is on disk inside the horizon, or held by a live process.     *)
Scan(l) == {s \in OnDisk : Home[s] = l /\ (s \in frame \/ now - touched[s] <= Horizon)}

Exited(s) == exited[s] # Never
TerminalOutsideWindow(s) == Exited(s) /\ now - exited[s] > ExitWindow
IncarnationFor(s) == IF s \in frame THEN "process" ELSE "invocation"

(* Mutant: the grace is repeated while the file is fresh.                  *)
AwaitBindingAgain(s) ==
  mode = "live" /\ s \notin frame /\ ~Exited(s) /\ now - touched[s] < BindWindow

(* One tick of grace for a fresh session without a process.                 *)
AwaitBinding(s) ==
  /\ mode = "live" /\ s \notin frame /\ ~Exited(s)
  /\ now - touched[s] < BindWindow /\ s \notin awaiting

Seen(l)      == {s \in Scan(l) : ~TerminalOutsideWindow(s)}
(* Mutant: no grace for a fresh session.                                   *)
PublishedAtOnce(l) == Seen(l)
Published(l) == {s \in Seen(l) : ~AwaitBinding(s)}

(* Admission order: nodes, state claims, terminals, edges.                  *)
Emission(l) ==
  LET All(kind, S) == [i \in 1..Cardinality(S) |->
                         Told(kind, SetToSeq(S)[i], IncarnationFor(SetToSeq(S)[i]))]
      nodes == Published(l)
      links == {e \in Spawns : e[1] \in nodes /\ e[2] \in nodes}
      Edge(e) == [kind |-> "spawn", who |-> e[1], inc |-> IncarnationFor(e[1]),
                  child |-> e[2], childInc |-> IncarnationFor(e[2])]
  IN All("node", nodes) \o All("active", {s \in nodes \cap Children : ~Exited(s)})
       \o All("exit", {s \in nodes : Exited(s)})
       \o [i \in 1..Cardinality(links) |-> Edge(SetToSeq(links)[i])]

(* Heartbeats of the admitted nodes that have not ended.                    *)
Heartbeats(es) ==
  LET up == Among(es, {e \in ToSet(es) : e.kind = "node" /\ ~Exited(e.who)})
  IN [i \in DOMAIN up |-> [up[i] EXCEPT !.kind = "beat"]]

WitnessOf(es) ==
  LET OfKind(k) == {e \in ToSet(es) : e.kind = k}
      StateOf(s) == IF \E e \in OfKind("exit") : e.who = s THEN "exit"
                    ELSE IF \E e \in OfKind("active") : e.who = s THEN "active" ELSE "none"
  IN [done  |-> TRUE,
      inc   |-> [s \in Sessions |-> IF \E e \in OfKind("node") : e.who = s
                                    THEN IncarnationFor(s) ELSE NoInc],
      state |-> [s \in Sessions |-> StateOf(s)],
      edges |-> {<<e.who, e.child>> : e \in OfKind("spawn")}]

FirstTick(l, witness) ==
  first' = IF first[l].done THEN first ELSE [first EXCEPT ![l] = witness]

(* tick and emit; the store may be full and drop one of the events.         *)
NativeTick(l) ==
  /\ Collecting /\ l \in due
  /\ due' = due \ {l}
  /\ \E drop \in 0..Len(Emission(l)) :
       LET es == IF drop = 0 THEN Emission(l) ELSE RemoveAt(Emission(l), drop)
       IN /\ faults' = faults + (IF drop = 0 THEN 0 ELSE 1) /\ faults' <= MaxFaults
          /\ unlucky' = IF drop = 0 THEN unlucky
                        ELSE unlucky \cup {Emission(l)[drop].who, Emission(l)[drop].child}
          /\ PublishAll(es \o Heartbeats(es))
          /\ FirstTick(l, WitnessOf(es))
  /\ awaiting' = {s \in awaiting : Home[s] # l \/ s \in Seen(l)}
                   \cup {s \in Seen(l) : AwaitBinding(s)}
  /\ UNCHANGED <<mode, now, world, engine, graph, caller, disturbed>>

(* A scan that fails ends the tick, and the first tick all the same.        *)
ScanFails(l) ==
  /\ Collecting /\ l \in due /\ faults < MaxFaults
  /\ due' = due \ {l} /\ faults' = faults + 1
  /\ unlucky' = unlucky \cup {s \in OnDisk : Home[s] = l}
  /\ FirstTick(l, [NoWitness EXCEPT !.done = TRUE])
  /\ UNCHANGED <<mode, now, world, engine, awaiting, inbox, graph, caller, disturbed>>

-----------------------------------------------------------------------------
(* productionCaptureOnce after the capture.                                 *)

(* WaitOccupancyGraph: any node, or half a second.                          *)
OccupancySeen ==
  /\ main = "occupancy" /\ main' = "lanes"
  /\ UNCHANGED <<mode, now, due, world, engine, evidence, mark, ready, expired, ghosts>>

NextLane == Lanes[Cardinality(ready) + 1]

(* Mutant: a lane is taken for ready.                                      *)
LaneAssumed ==
  /\ main = "lanes" /\ Cardinality(ready) < Len(Lanes)
  /\ ready' = ready \cup {NextLane}
  /\ UNCHANGED <<mode, now, due, world, engine, evidence, main, mark, expired, ghosts>>

(* waitNativeEvidence, lane by lane under one budget.                       *)
LaneReady ==
  /\ main = "lanes" /\ Cardinality(ready) < Len(Lanes) /\ first[NextLane].done
  /\ ready' = ready \cup {NextLane}
  /\ UNCHANGED <<mode, now, due, world, engine, evidence, main, mark, expired, ghosts>>

(* All lanes are in, or the budget ran out: Flush, with what is left.       *)
FlushBegins ==
  /\ main = "lanes"
  /\ \/ Cardinality(ready) = Len(Lanes) /\ UNCHANGED expired
     \/ Cardinality(ready) < Len(Lanes) /\ expired' = TRUE
  /\ main' = "flush" /\ mark' = Len(inbox)
  /\ UNCHANGED <<mode, now, due, world, engine, evidence, ready, ghosts>>

FlushEnds ==
  /\ main = "flush"
  /\ \/ mark = 0 /\ main' = "visible" /\ UNCHANGED expired
     \/ mark > 0 /\ main' = "sample" /\ expired' = TRUE
  /\ UNCHANGED <<mode, now, due, world, engine, evidence, mark, ready, ghosts>>

(* nativeFirstTickWitnessVisible.                                           *)
WitnessVisible(w) ==
  /\ \A s \in Sessions : /\ w.inc[s] # NoInc => graph.inc[s] = w.inc[s]
                         /\ w.state[s] # "none" => graph.state[s] = w.state[s]
  /\ w.edges \subseteq graph.edges

WaitVisible ==
  /\ main = "visible"
  /\ \/ (\A l \in ready : WitnessVisible(first[l])) /\ UNCHANGED expired
     \/ ~(\A l \in ready : WitnessVisible(first[l])) /\ expired' = TRUE
  /\ main' = "sample"
  /\ UNCHANGED <<mode, now, due, world, engine, evidence, mark, ready, ghosts>>

(* cancel, and the snapshot the command prints.                             *)
Sample ==
  /\ main = "sample" /\ main' = "done"
  /\ UNCHANGED <<mode, now, due, world, engine, evidence, mark, ready, expired, ghosts>>

-----------------------------------------------------------------------------
(* The agents, and time. In a one-shot nothing on disk moves.               *)

Changes == main = "live" /\ changes < MaxChanges /\ changes' = changes + 1

Born(s) ==
  /\ Changes /\ born[s] = Never /\ s \notin OnceOnly
  /\ born' = [born EXCEPT ![s] = now] /\ touched' = [touched EXCEPT ![s] = now]
  /\ proc' = proc \cup ({s} \cap Bindable)
  /\ UNCHANGED <<mode, now, due, exited, engine, evidence, caller, ghosts>>

Writes(s) ==
  /\ Changes /\ s \in OnDisk /\ ~Exited(s) /\ touched[s] # now
  /\ touched' = [touched EXCEPT ![s] = now]
  /\ UNCHANGED <<mode, now, due, born, exited, proc, engine, evidence, caller, ghosts>>

Quits(s) ==
  /\ Changes /\ s \in proc
  /\ proc' = proc \ {s} /\ disturbed' = disturbed \cup {s}
  /\ UNCHANGED <<mode, now, due, born, touched, exited, engine, evidence, caller,
                 faults, unlucky>>

Exits(s) ==
  /\ Changes /\ s \in Children \cap OnDisk /\ s \notin proc /\ ~Exited(s)
  /\ exited' = [exited EXCEPT ![s] = now] /\ touched' = [touched EXCEPT ![s] = now]
  /\ UNCHANGED <<mode, now, due, born, proc, engine, evidence, caller, ghosts>>

(* Every clock that is due in a second fires in it, and the store keeps up. *)
Second ==
  /\ main = "live" /\ due = {} /\ inbox = <<>> /\ now < Start + MaxSeconds
  /\ now' = now + 1
  /\ due' = {"overlay"} \cup (IF (now + 1 - Start) % PollEvery = 0 THEN ToSet(Lanes) ELSE {})
  /\ UNCHANGED <<mode, world, engine, evidence, caller, ghosts>>

CollectorsNext ==
  \/ Capture \/ RefreshOverlayOnly \/ TickProc \/ Reconcile \/ OccupancyPublish
  \/ \E l \in ToSet(Lanes) : NativeTick(l) \/ ScanFails(l)
  \/ OccupancySeen \/ LaneReady \/ FlushBegins \/ FlushEnds \/ WaitVisible \/ Sample
  \/ \E s \in Sessions : Born(s) \/ Writes(s) \/ Quits(s) \/ Exits(s)
  \/ Second

CollectorsSpec == Init /\ [][CollectorsNext]_collectorVars

-----------------------------------------------------------------------------
(* Properties.                                                              *)

Incs == {NoInc, "process", "invocation"}
States == {"none", "active", "exit"}

(* Every variable keeps its type, and the queue never repeats an event.     *)
CollectorsTypeOK ==
  /\ mode \in {"live", "once"} /\ now \in Start..(Start + MaxSeconds)
  /\ main \in {"capture", "live", "occupancy", "lanes", "flush", "visible", "sample", "done"}
  /\ due \subseteq {"overlay", "rows"} \cup ToSet(Lanes)
  /\ OnDisk \subseteq Sessions /\ proc \cup overlays \cup frame \subseteq Bindable
  /\ awaiting \subseteq Sessions /\ ready \subseteq ToSet(Lanes)
  /\ graph.inc \in [Sessions -> Incs] /\ graph.state \in [Sessions -> States]
  /\ graph.edges \subseteq Spawns
  /\ IsInjective(inbox) /\ mark \in 0..Len(inbox) /\ expired \in BOOLEAN

(* A session whose process an overlay can name, and whose home was read     *)
(* every second, never gets the incarnation of a session without a process: *)
(* the node would refuse everything occupancy says for as long as it lives  *)
(* (awaitBinding, and rows before collectors in both run paths).            *)
NewbornBound ==
  \A s \in Bindable \ disturbed : graph.inc[s] # "invocation"

(* Every sighting is of one incarnation, and everything has its type.       *)
SightingsInOrder == CollectorsTypeOK /\ NewbornBound

(* The grace is one tick: two polls after it appears a session is in the    *)
(* graph or in the queue, and so is the edge from a session with a process  *)
(* to a child that appeared after it, even a child no process can ever be   *)
(* bound to and whose file never rests.                                     *)
NeverInvisible ==
  LET Late == {s \in OnDisk \ unlucky : born[s] > 0 /\ born[s] + 2 * PollEvery < now}
      Waiting(kind, s, c) == \E e \in ToSet(inbox) : e.kind = kind /\ e.who = s /\ e.child = c
  IN mode = "live" =>
       /\ \A s \in Late : graph.inc[s] # NoInc \/ Waiting("node", s, s)
       /\ \A e \in Spawns :
            /\ {e[1], e[2]} \subseteq Late \ disturbed /\ ~Exited(e[2])
            /\ e[1] \in Bindable /\ born[e[1]] <= born[e[2]]
            => e \in graph.edges \/ Waiting("spawn", e[1], e[2])

(* A one-shot that did not run out of its budget, lose a scan or an event   *)
(* shows everything the homes hold inside the horizon, with the edges       *)
(* between them, whatever order the lanes and the reconciler ran in.        *)
OneShotComplete ==
  main = "done" /\ ~expired =>
    LET Held == {s \in OnDisk \ unlucky : s \in frame \/ now - touched[s] <= Horizon}
    IN /\ \A s \in Held : graph.inc[s] = IncarnationFor(s)
       /\ \A e \in Spawns : {e[1], e[2]} \subseteq Held => e \in graph.edges
=============================================================================
