# A TLA+ model of aitop

aitop watches coding agents on one machine. Collectors poll the agents' own
files and processes, turn what they see into *events*, and hand them to a graph
*Store*; the Store applies them, one at a time, to a *Reconciler* that keeps the
canonical graph, and publishes immutable generations of that graph; a snapshot
*Engine* joins the newest generation with the process table and overlays for the
terminal interface and the JSON output; control intents go back through *Actor*.
This directory models the parts whose correctness depends on order, ownership
and time, checks them with TLC, and proves the central facts with TLAPS.

Paths below are relative to `src/`; `store.go` is `internal/graph/store.go`.

## 1. Inventory

### The graph pipeline

| Component | State | Operations | Interaction |
|---|---|---|---|
| Store, ingress side (`store.go`) | two queues (`normal`, `critical`), `pendingReplay`, `pendingCoalesce`, byte counters, `pendingDiagnostics`, `ingressOrdinal`, `criticalDebt`, `stats` | `Publish`, `popQueueItem*`, `applyOneOutcome`, `finishItemLocked`, `stopRun` | called by every collector through the Registry's sink; drained by `Run` |
| Store, scheduler (`store.go`) | `timer*`, `firstDirty`, `deadlineCursor`, `cursorEpoch`, `publicationBlock`, `pendingGeneration`, the published `snapshot` pointer, `flushRequests`, `currentApply` fence | `Run`, `armScheduler`, `watchTimer`, `handleTimer`, `advanceAt`, `publishPendingMode`, `flush`, `SetPinned` | goroutines: Run, one watcher per timer, flush callers, pin callers, publishers; locks `queueMu` inside `mutationMu` |
| Reconciler (`reconcile.go`) | nodes, edges, gaps, fingerprints, sequence records, observation cursors, state and metric contributions, health epochs, message expiry, current and previous generation | `Apply`, `Advance`, `SetPinned`, `prepareStoreDiagnostics`, `nextDeadline` | owned by the Store; each call is a transaction that commits or is discarded |
| Registry (`collector.go`) | per collector health, one sink mutex | `Run`, the sink, terminal gaps, native poll heartbeats | one goroutine per collector; publishes into the Store |
| Shadow (`shadow.go`) | two child results, a single-use record | `Run`, `Flush`, `Snapshot` | runs Store and Registry, cancels one when the other fails |
| Events and charges (`event.go`, `bytes.go`) | none | validation, fingerprint, replay digest, coalesce key, charges | called from `Publish` and from the Reconciler |
| Occupancy (`occupancy.go`) | last seen occupancy | poll | a collector |

### Around it

| Component | State | Operations | Hard behaviour |
|---|---|---|---|
| Supervisor (`internal/supervisor`) | open / stopping / stopped, task names, failures | `Go`, `Shutdown` | concurrent shutdowns, tasks failing while it stops |
| Engine (`internal/snapshot/engine.go`) | snapshot, overlays and their time, error | ticks, overlay refresh, `Snapshot` | rows and overlays refreshed by two clocks, a failed read of one home |
| Snapshot attachment, JSON v2 (`graph_attach.go`, `json_v2.go`) | none | flush with a deadline, join of graph and rows, encoding | the flush may be given up |
| Actor (`internal/act/act.go`) | bounded queue with reserved tickets, in-flight count, per-key locks | `Enqueue`, `Run`, confirmed kill | reservation against shutdown, overtaking by a kill |
| Kill ladder (`kill.go`) | the target's (pid, start time) | interrupt, grace, terminate | pid reuse between two steps |
| Adapters, packs, ports, merges, worktrees (`internal/act/*`) | files, git, processes | per agent | side effects outside the program |
| Native collectors (`internal/native`) | last poll per agent, bindings, exits | `tick`, `emit` | newborn grace, ordering of emitted events |
| Overlays (`internal/overlay`) | caches | reads | stateless apart from caches |
| Process table, classification, join, prices, presence | tracker of previous samples | pure functions | zero intervals, counter wrap |
| Terminal UI (`internal/ui`) | selection, confirmation, filter | key handling, layout | a confirmed intent must be about the row that was shown |
| Command line (`cmd/aitop`) | none | flags, wiring | |

### What makes each component correct

* **Store, ingress.** An event that is queued or being applied is never queued
  twice, and one that left can be sent again. Events of one coalesce lane are
  applied in order, although a newer one may replace an older in place. Nothing
  that was dequeued can be overwritten. The byte counters (unsigned in the code)
  equal what they count. Every loss is recorded, even with both budgets
  exhausted. Every accepted event is accounted for exactly once. Critical events
  do not starve the others.
* **Store, scheduler.** No wakeup is lost. A commit is never forgotten between
  being made and being published. The cursor that excludes deadlines never
  hides one that was not gone over. A flush that reports success covers what was
  accepted before it. Flush and pin callers return, the stop included.
* **Reconciler.** Per lane in-order application with gaps closed by late events;
  a transaction that is rejected changes nothing but diagnostics; the containment
  and dependency graph stays acyclic; a ghost keeps its place until it expires or
  is unpinned; evidence of state never goes back in time; replay is idempotent.
* **Registry, Shadow, Supervisor.** Each child's end is recorded once; a failure
  reaches the siblings that must stop and no others; everyone waits for everyone.
* **Engine, collectors.** A session never gets two incarnations in one life, is never
  invisible for long, and a one-shot shows all there is.
* **Actor, Kill.** At most one intent per key at a time; a ticket reserved is a
  ticket released; what is answered as done was done; everything ends that is not
  behind an adapter that hangs.
* **Terminal interface.** The cursor stays on its row and on the screen; a confirmed
  intent is about the row it was asked on; what is painted comes from one snapshot.

The list of hazards, each at its line and with the properties that answer to it,
is in `PROJECT.json` under `hazards`.

## 2. Modules

| Module | Component | Built on |
|---|---|---|
| `StoreQueue` | ingress side of the Store | |
| `Store` | scheduler of the Store | extends `StoreQueue`; each of its steps is a step of `StoreQueue` or leaves its variables alone |
| `OrderedDelivery` | abstract: what a protocol lane promises | |
| `ReorderLanes` | protocol lanes of the Reconciler | implements `OrderedDelivery` |
| `Evidence` | pure functions of `state.go` and the folds of `reconcile.go` | |
| `Reducer` | the Reconciler from an event that takes effect to the published snapshot | extends `Evidence` |
| `Collectors` | engine, occupancy and native collectors, one-shot capture | an abstract store |
| `Host` | main, Supervisor, Shadow, Registry, collectors as goroutines | an abstract store and actor |
| `Actor` | queue of intents, workers, kill ladder, adapters | |
| `Forest` | layout of the graph pane (`ui/graph.go`) | |
| `Board` | the terminal interface | extends `Forest` |
| `StoreTurns` | how often a ready normal event is passed over | extends `StoreQueue` with a history variable |
| `Selections` | filtering a sequence by a set | used by `Evidence` and `Forest` |
| `Inductions` | lemmas on sums over finite sets, selections from sequences and folds | extends `Selections` |

`MC*` modules hold the instances for TLC; `*Proofs` modules, with `Inductions`, the
theorems. The operators whose comment begins with *Mutant:* are plausible bugs of the
definition that follows; no specification uses them. `PROJECT.json` pairs each
with the property that finds it, which shows that the property depends on the
code it is about.

The parts meet at a few interfaces, and each side of one is modelled with the
other reduced to what it promises. `Store` calls a Reconciler that commits or
refuses; `ReorderLanes` and `Reducer` are the two halves of that Reconciler (which
events of a lane take effect, and what an event does). `Reducer` takes from the
Store that an event may wait for Run (`Delay`) and that Advance is called with
the deadline of the timer. `Collectors` takes from both that events are applied in
order and that a node keeps its incarnation. `Host` takes from the Store that it
returns when its context is done, from `Actor` that Run returns
(`EverythingEnds`). `Board` gives `Actor` the intents.

All invariants and action properties of the passing runs are proved (section 11).
What is left is breadth: the agent adapters below the level of a step that takes
effect or not, and the parts of section 12.

## 3. StoreQueue

One action per critical section of `queueMu`; in `Publish` one action per
disposition, because each is a different path through one section.

| Action | Code |
|---|---|
| `PublishReject/Duplicate/Collision/Coalesce/DropReplacement/Accept/Drop` | the returns of `Publish` |
| `Pop(eligible)` | `popQueueItemMode`; `eligible` is what the caller lets it take |
| `ApplyBegin`, `ApplyFinish`, `ApplyCanceled`, `ApplyNoClock` | the two sections of `applyOneOutcome` and its early returns |
| `PublishDiagnostics` | the hand-over of the pending diagnostics to `prepareStoreDiagnostics` |
| `StopBegin`, `StopPublish`, `StopPublishFails`, `StopEnd` | `stopRun` |

What is abstracted: an event is a record of what the queue rules look at (its
replay key and fingerprint, its lane, class, base charge, ordering regime, time
stamp, set of optional metrics and the gap its collision would open). A queue is
a set of items, ordered by `id`, which is `firstSequence`: items are appended
with a fresh ordinal and a replacement keeps its place. The Reconciler is only
its set of open ordinary gaps. Accepted-critical and accepted-normal are one
counter, like the other pairs of `StoreStats`.

Counting is unbounded in the specification (the code's `uint64` totals); the
pending counts saturate at `CountCeiling`, the code's `maxJSONSafeInteger`. The
byte counters are integers that may in principle become negative: that they do
not is part of `ByteConservation`, which is why the code's unsigned subtraction
is safe.

### Run

`queue` asks four things at once of five kinds of event (`MCStoreQueueTurns`): do
keys, lanes, counters and statistics agree with what is owned (`QueueBooks`); does
a dequeued item leave its lane (`LaneOwnership`); do the budgets leave room for
the reserved diagnostics (`ReserveIntact`), so that every loss is recorded
(`LossLogged`); does a critical burst starve normal work (`NormalWaitBounded`).
`StoreTurns` adds a history variable for the last: how often a ready normal event
was passed over.

Bounds: four publishes, two ordinary and two critical slots, bytes for a few
events, one ordinary gap identity, counts that saturate at 2, a debt limit of 1
for the code's 32. Four publishes fill a lane, replace in it, close it and queue
behind it while one item is in flight, and exhaust both budgets. The debt limit
is scaled down because only the comparison with it matters. The system stops when
its publishes are spent and Run has ended, hence `CHECK_DEADLOCK FALSE`, here and
in the other runs whose inputs are bounded.

## 4. Store

`Store` extends `StoreQueue`: each action conjoins the queue action of its
critical section with the scheduler's part of that section. `pc` is the position
of the Run goroutine between two sections; the labels follow the order of `Run`,
`handleTimer` and `handleFlushRequest`. The other goroutines are the watcher of
the armed timer (`Fire`), flush callers, pin callers and publishers.

| Variable | Code |
|---|---|
| `pc`, `back`, `booted`, `turn`, `flushing`, `flushResult`, `appliedAt` | Run's position and local variables |
| `timer` | `timer`, `timerTarget`, `timerFired`, `timerCutoff`, `timerCursorEpoch` |
| `registered` | the one request `flushRequests` holds that is not canceled |
| `current`, `pendingGeneration`, `published` | `reconciler.current`, `pendingGeneration`, the atomic `snapshot`, as numbers |
| `deadlines` | the times `nextDeadline` considers |
| `attempted`, `refused` | history: what an Advance went over, whose Apply failed |

Abstractions. The Reconciler commits a new generation or none at each Apply,
Advance and pin, and may schedule or take off one deadline; an Advance that
succeeds may leave a served deadline listed (a stale heartbeat's is), schedule a
later one, or be refused with an admission error and leave all. A watcher whose
timer was canceled finds another `timerID` and does nothing, so it is not
modelled. `reconciler.previous` and the snapshot count are not modelled. Where
the code samples the clock before it takes the lock (`Publish`), the sample is
taken in the section; `SetPinned`, which waits in between, keeps its sample.
Clock values run to `Horizon`; a batch due later is due at the horizon. A timer
may wake up to `Skew` early, as one measured on the monotonic clock does when the
wall clock is compared.

### Runs

| Run | Question | Bounds |
|---|---|---|
| `store` | is a wakeup lost, a deadline hidden, an Advance early, a flush's success untrue, do generations agree, under refusals and failures at any point? | two colliding events, one caller, one pin, one deadline, an early timer |
| `store_progress` | does everyone get an answer, and does every commit become visible? | one event, one caller that may give up, one pin, failures and a stop at any point |

`AdvanceAfterDrain` and `DeadlineNotSkipped` are true for patient flush callers
only (section 10). Two events are what a refused apply before a flush, an event
that arrives between a fired timer and its turn, and a duplicate need.

Fairness (`StoreFairness`): weak fairness of the Run goroutine, of an armed
timer, of the clock, of a flush caller that has its answer, and of a pin caller
that can take its lock. These are what the Go scheduler, the runtime's timers and
its mutexes give. No fairness is assumed of publishers, of callers starting a
call, of a caller giving up or of the context ending.

## 5. ReorderLanes

The Reconciler's Apply and Advance are transactions: every change is staged in a
`reconcileTxn` and committed or thrown away. Each call is one action. For Apply
there is one action per path of `stageApplyEvent` and `stageProtocolEvent`; the
part of the transaction that is about lanes is a *plan* (records, gap rows, the
change of `historyUnits`, the events that take effect), which `Commit` installs
or `Refuse` discards.

| Action | Code |
|---|---|
| `ApplyReplay` | an event whose digest is known, by its fingerprint or by its place in a buffer |
| `ApplyOpen`, `ApplyUnsequenced`, `ApplyLate`, `ApplyEarly`, `ApplyNext` | the paths of `stageProtocolEvent`; `ApplyNext` with its drain loop |
| `ApplyRegimeMismatch`, `ApplyRetired` | its refusals |
| `Advance` | `prepareAdvance`: the due lanes, the retries of what was deferred, the release of lanes of expired ghosts |
| `Unpin` | `SetPinned(false)` on an expired ghost |
| `Tick` | time |

Abstractions. What an event means is left out: its semantics succeed, or may be
refused if it is one of `Fallible` (a relationship whose target is unknown is
refused until the target is seen, a cycle for ever). The byte limits and the gap
ledger may be full at any call if `Tight`. The diagnostics a refusal leaves are
the other component's. An Advance goes through its lanes in key order and then
retries what it deferred as often as something else made progress; the result is
a set of events that ran and at most one refused head per lane, and the model
chooses those instead of the order. Ghosts expire at any Advance. An event that
opens a lane may prove a new incarnation, which releases the lanes of the old
one; in the code too only an opening event can, because every other event of an
incarnation that is not the current one is refused. `applied` and `effects` are
history; `effects` counts, to 2, by the identity of an event: its replay key with its
fingerprint (`Event.Fingerprint`, event.go:642).

`OrderedDelivery` says what a lane promises: it moves upwards, what it passes is
delivered or missing, late evidence strikes a missing number off and delivers
nothing, and a release forgets everything. `ReorderLanes` implements it with the
refinement mapping `LaneView` (`DeliversInOrder`).

The run `lanes` asks whether lanes deliver in order and once, and whether gap
rows, deadlines and the history count stay right, whatever comes, is refused, or
is released. Bounds: eleven events of three lanes of one source: a hole of one
number and one of three, filled late, one in its middle; two events of one
number, the last of the range; one key with two fingerprints, a nil sequence, a
successor; `MaxSeq` 5, history limit 6, window 1, count ceiling 3.

A hole of three numbers is what a split needs, two lanes what a shared row needs,
and one event behind a refused head what the retries need; time runs until every
deadline has come. That a waiting event does not wait for ever is the three
facts `WaitingHasDeadline` (in `LanesInOrder`), `NoLostWakeup` of `Store` (the timer calls Advance
at the deadline) and `AdvanceHonest`.

## 6. Evidence and Reducer

`Reducer` is the rest of the Reconciler: what an event that takes effect does to
actors, evidence, edges, messages, gaps, ghosts and pins, and what of it is
published. The code stages every call in a `reconcileTxn`; a `Stage` operator maps
staged owners to staged owners, and an action commits what it returns. A stage
that fails with an error that is no admission error sets `error`: `Store.Run`
returns it and the graph stops (`outcome`). `Evidence` holds the pure functions: which
state wins, validity, freshness, the folds of identity and usage, which
incarnation is newer.

| Action | Code |
|---|---|
| `ObserveNode`, `ObserveMetrics`, `ObserveState`, `ObserveHeartbeat`, `ObserveExit`, `ObserveRelationship`, `ObserveMessage`, `ObserveGap` | `prepareApply` with the `stage*` function of the kind, the expiry of what is due, the folds and the projection |
| `Refuse` | admission errors and the diagnostic row they leave |
| `Ignore` | an observation that is not newer than its cursor |
| `Advance` | `prepareAdvance`: messages and ghosts that are over, folds at the deadline, staleness |
| `Pin`, `Unpin` | `SetPinned` |
| `Tick` | time |

Abstractions. Evidence of an actor is a sequence in the order of acceptance, so
that `acceptedOrdinal` is the place in it. Of the fields of a node one text, one
start time and one process start stand for all. Count limits are in the model,
byte limits are not. Lanes and replay are `ReorderLanes`.

| Run | Question | Bounds |
|---|---|---|
| `topology` | do edges name what is shown, in the incarnation they were observed for; is the index of messages exact; do spawn edges stay acyclic; are relationships of an ended actor ghosts; is *partial* exact; do retired incarnations stay retired? | three actors, a ring of three spawn edges, a message edge with two messages, one succession in either order, ends, a gap; six events, two instants, three edges at most |
| `evidence` | is the published generation what is owned; is an actor shown in the state its evidence says at every instant at which no deadline is due; do approvals end alone; does a pinned ghost stay? | one actor, a hook, a native poll and its heartbeat, two approvals; four events up to an instant late, four instants, freshness 2, history limit 7 |
| `tombstone`, `late_advance` | two statements of the repository | see section 10 |

Six events are what a ring with an end or a succession in it needs. Late events
(`Delay`) matter because a fold uses the time Run reads and orders by the time the
event was received. `NothingOverdue`, in `FoldedInTime`, compares with what Advance
would do if called now: it is the statement that the set of deadlines is complete.

## 7. Collectors

How a session on disk gets a process, a node and edges. The engine refreshes
overlays each second and rows each 100 ms; the occupancy collector reports rows;
native collectors poll their home, wait one tick for the process of a fresh
session (`awaitBinding`), and emit nodes, states, ends and edges in that order.
Initially `main` takes a snapshot (`Capture`), in the live program and in the
one-shot one, whose waits (`WaitOccupancyGraph`, `waitNativeEvidence`, `Flush`,
`nativeFirstTickWitnessVisible`, `Sample`) are the actions `OccupancySeen` to
`Sample`.

A home whose read fails, a scan that fails and an event the store drops are
faults, at most `MaxFaults`; `disturbed` and `unlucky` remember what they touched,
and the properties speak of the rest. Every clock that is due in a second fires in
it, in any order. The store applies any prefix of what it accepted; a node keeps
the incarnation it was established under.

The run `collectors` has a session with a subagent in one home and a session in
another, five seconds after a start at which each may be old, new or absent,
births, writes, exits and quits (two of them) and one fault, polls every second
second, a window of three. That is two polls after a birth at any moment and past
the window. `NewbornBound`: a session whose process can be named never gets the
incarnation of one without, which would make its node refuse occupancy for life.
`NeverInvisible`: the wait is one tick. Of edges it speaks when the parent has a
process and the child appeared after it: the edge to a child whose parent has ended,
or has been idle beyond the horizon, before the child appears never comes. `OneShotComplete`: a one-shot with its
budget shows everything, with the edges.

## 8. Host

The goroutines of the interactive program, from the first `Supervisor.Go` to the
exit code: `main` (`RegisterActor` to `ShutdownEnds`), the two tasks, `Shadow.Run` with
its two children, `Registry.Run` with its collectors, terminal gaps, the engine and
the terminal program. Errors are *nil*, *canceled* or *failed*, which is what the
code's suppressions tell apart. A signal, a failure of anything and a quit of the
user may come at any moment.

The run `host` has a collector with two capabilities and one without any, which
is owed one gap all the same. `ExitHonest`, in `HostInOrder`: exit code 0 means that
nothing failed, not even while it was being canceled, and nothing runs any more.
`GapsTold`: a collector that stopped told a gap per capability or is an error.
`EverythingStops` under `HostFairness`: everything that waits only for the program
goes on. The task of the actor is assumed to return when its context is done;
`Actor` says when that is true.

## 9. Actor and Board

`Actor` is `act.go`: tickets of the bounded queue (`Enqueue`, `Send`), the loop with its
stop (`Receive`, `Hand`, `SeeCancel`, `Drain`, `Return`), a confirmed kill that goes around
the queue (`EnqueueKill`), and a worker: the lock of its row, a place in flight,
the adapter, the unlocks. An adapter is a sequence of steps (`Steps`), each of which
takes effect or fails: capsule, worktree, command line and sidecar of a fork;
pack, port and unit of a local server, which listens later (`Listen`); merge, tell
and note; the ladder of a kill, with the end of the process and the reuse of its
pid in between (`ProcessEnds`).

The run `actor`: five intents, of which the user asks for three, two pairs on one
row, two tickets, two places, one port, a merge whose adapter hangs. Fairness
(`ActorSpec`): Run, senders and workers go on, adapters that are not wedged
return; nothing is assumed of the user, of cancelation or of processes.
`EverythingEnds`: whatever is not behind an adapter that hangs ends, and Run returns
unless one hangs.

`Board` is the terminal interface as one goroutine: `Update` for each key and tick,
with snapshots that come between any two. The state is the cursor, its key, the
scroll, what is collapsed, filter and order, the prompts, the row a kill is armed
on, the two panes of a split. `Forest` lays out the graph pane. Lines, window and
panes are computed as View does, for their heights but not their text.

The run `board`: two agents, one forked from the other, a subagent, a local
server, three snapshots (with a row that finishes, one order reversed, rows that
vanish; graphs that are a tree, a ring with a child and a bare ring), two sizes of
which one is smaller than its content. `ConfirmAimed`: a confirmed kill is about the
row it was asked on. `CursorInOrder` and `CursorKept`: the cursor is on the screen and
on its row, or where its row was. `PanesInOrder`: every pane is painted from one
snapshot, the graph is only read, a merge knows its winner from its loser.

## 10. Findings and observations

Two runs show a statement of the repository violated by what the code does:

* `tombstone`: `currentIncarnations` outlives the node of an expired ghost. A metrics,
  state or exit event of that incarnation that is no replay passes the identity
  check, finds no node and fails with an error that is no admission error, on
  which Run stops. `tests/RISK_MODEL.md` line 628 asks for an admission error.
* `late_advance`: Run applies waiting events at the time it reads and then calls
  Advance with the deadline it woke for. If the event moved the actor, the
  Advance folds it at an earlier time than its last transition, and fails.
  `tests/RISK_MODEL.md` line 531 says these times do not decrease.

Met while modelling, and not runs of their own:

* Store. An identity the ledger already holds is admitted as pending before the
  bound is consulted (store.go:993), so that more than `MaxGaps - 3` may be pending;
  the union with the ledger stays bounded. The comment at store.go:1239 says that
  an event which arrives after a timer fired cannot slip into its Advance; the
  check and the dequeue (1254) are two critical sections, and one can. A flush that
  registers during a drain and is given up before the next check ends the drain
  and lets the Advance run (1613), hence `Impatient`. A flush publication clears
  `firstDirty` although it leaves diagnostics pending (1789); they go with the next
  publication.
* Lanes. An Advance that defers an event gives its fingerprint back; the drain
  loop of a later Apply that runs it does not restore it (reconcile.go:2211). A
  different event of its key is then no collision and may take effect as well, which
  is why `EffectOnce` is about identities and not about keys; a replay counts as late
  evidence. Apply of the number before a waiting event that may not take effect is
  refused with it (2224), until the deadline lets it out.
* Reducer. A source's own non-terminal state after its end leaves the end's
  timestamps (4136), which the JSON encoder refuses to encode.
* Collectors. A home whose overlay cannot be read gives nothing, and the rows it
  named go (engine.go:72), where the designs say that the last good snapshot is
  kept. After the process of a session ends, the native collector sights it under
  the invocation's incarnation and is refused.
* Host. The registry reports a collector whose gaps the store refused only when
  all others have returned. The supervisor suppresses any joined error that
  contains a cancelation, the Shadow only one that is nothing else; `ExitHonest` holds
  because the Shadow comes first. The terminal program is not told that the graph
  failed.
* Actor. Adapters do not see the context: one that hangs keeps its row and its
  place and blocks the return of Run. With all four places held by such adapters a
  confirmed kill does not get through. An intent whose ticket was taken before the
  queue was emptied for the last time may be sent after it; it is never answered.
  Two launches at the same time may choose one port (local.go leaves `UsedPorts` nil).
* Board. `docs/reference.md` says that the left key selects the parent; the rebuild
  that follows puts the cursor back on its row (model.go:292).

## 11. Proofs

Seven modules hold theorems about the system, each for all values of the constants
the named assumption of its module admits; `Inductions` holds lemmas they share.

The prover has no induction over data: the library's induction theorems take an
operator as a parameter. Where the code loops, the proofs argue by a smallest
exception instead. The least number at which a fact fails (`LeastNumber`), or the
smallest set (`SmallestException`), exists because numbers and finite sets are
well-founded, and what holds before it leads to a contradiction. With this
`Inductions` shows what a sum, a selection, a fold over a set or a sequence returns,
from how each is defined (`SumsAgree`, `AmongIsLast`, `FoldPlaces`, `TreesAgree`), and no
module a theorem is about declares a `RECURSIVE` operator.

`StoreProofs` proves of the ingress side, for every configuration `newStore` accepts and any
set of events, from `QueueAssumption` only:

* `TypeCorrect`: `Spec => []TypeOK`, the slot limits included;
* `ReserveAlwaysIntact`: `Spec => []ReserveIntact`;
* `LaneAlwaysOwned`: `Spec => []LaneOwnership`;
* `LossAlwaysLogged`: `Spec => LossLogged`;
* `BooksAlwaysBalance`: `Spec => []QueueBooks`;
* `NormalWaitAlwaysBounded`: `TurnsSpec => []NormalWaitBounded`.

The inductive invariant `IInv` is `TypeOK`, `ReserveIntact` and `LaneOwnership`
with two strengthenings. `ItemsApart`: the items have distinct ids and sequence
numbers, none above `ingressOrdinal`, so the next ordinal is fresh and an id
names one item. `TokensExact`: an item's token is its event's charge, with the
coalesce charge exactly while it is replaceable; without it a lane closing could
refund more than was charged and admission could not be bounded. `ReserveIntact`
is not inductive alone for the same reason: replacing an item subtracts the old
token before the fit is checked.

`QueueBooks` adds three invariants to `IInv`. `ItemBooks`: the replay keys are those
of the items owned, and the two byte counters the sums of their tokens.
`DiagnosticBooks`: the bytes of pending ordinary diagnostics are the sum of their
charges. `StopIdle`: a Store that stops is not applying, so that what the stop disposes
of is counted once. The sums are sums over sets of items; `Inductions` proves what
an item added, removed or recharged does to one. `NormalWaitBounded` follows from
`DebtCounts`: a normal event is never passed over more often than `criticalDebt` says.

It proves of the scheduler, for every clock, menu of events and set of
callers:

* `StoreTypeCorrect`: `StoreSpec => []StoreTypeOK`;
* `StoreRefinesQueue`: `StoreSpec => Spec`, the queues of the running Store behave
  as `StoreQueue` says; `StoreLogsLosses` and `StoreBooksBalance` carry `LossLogged`
  and `QueueBooks` over with it;
* `SchedulerAlwaysInOrder`: `StoreSpec => []SchedulerInOrder`;
* `VisibilityAlwaysHonest`: `StoreSpec => VisibilityHonest`;
* `GenerationsAlwaysAgree`: `StoreSpec => []GenerationsAgree`;
* `NoDeadlineSkipped` and `AdvancesAfterDrain`: `StoreSpec => []DeadlineNotSkipped`
  and `StoreSpec => AdvanceAfterDrain`, when no flush caller gives up.

Its inductive invariant is `StoreIInv`: the `IInv` of the queues, `StoreTypeOK` and
`Bookkeeping`, which says what Run's local variables mean at each label (a turn
keeps its target while it drains, a flush its request) and that a registered
request is nobody's answer yet. `GenerationsAgree` follows from it by the effect
each step has on the three generation numbers. The cursor needs more,
`CursorIInv`: a fired timer or a turn that carries the cursor's
epoch also has a cutoff that reaches everything accepted so far
(`EpochsCover`); targets lie after the cursor (`TargetsAhead`); an Advance finds
the queue drained up to its cutoff (`DrainedFirst`); and a cursor that is set
means that nothing scheduled before it is still owned (`CursorCovers`). The
hypothesis `Impatient = {}` is not for convenience: with a caller that gives up
at the wrong time `DrainedFirst` and `AdvanceAfterDrain` are false (section 10).

That no wakeup is lost is an invariant of the select only because of what is true on
the way to it (`WakeIInv`): from the label at which Run last looked for a flush, a
fired timer or a queued event, one that comes since has left a wake token
(`RequestWakes`, `TimerWakes`, `IngressWakes`), and the timer is armed for what is due
first (`TargetArmed`). That a flush is honest needs, from the label at which its
prefix is empty to its answer (`FlushIInv`), that nothing of the prefix comes back
(`PrefixGone`), that every error was later than the cutoff (`ErrorsLater`, for which
the first error must be remembered, `ErrorsKnown`), and that nothing is committed
between the publication and the answer (`NewestShown`). Both hold with callers that
give up at any time.

`ReorderLanesProofs` proves of the lanes, for every finite set of events and lanes
and every limit, from `LanesAssumption` only:

* `LanesTypeCorrect`: `LanesSpec => []LanesTypeOK`;
* `WaitingAlwaysHasDeadline`: `LanesSpec => []WaitingHasDeadline`, a part of
  `LanesInOrder`;
* `GapAlwaysTellsMissing`: `LanesSpec => []GapTellsMissing`;
* `NothingIsDropped`: `LanesSpec => NoneDropped`;
* `AdvanceIsHonest`: `LanesSpec => AdvanceHonest`;
* `LanesDeliverInOrder`: `LanesSpec => DeliversInOrder`, the refinement of
  `OrderedDelivery`.

The inductive invariant `LanesIInv` says of each lane that it is `LaneGood`, and of
the gap rows that they are `GapsGood`. `LaneGood` is more than the properties ask
for. A buffered event whose number lies below the lane's next one bears an applied
number: Advance throws such leftovers away, and without this `NoneDropped` would be
false of an arbitrary typed state. What was applied, and what is missing, lies
below the next number: so a number that runs was neither delivered nor missed
before, which is what `OrderedDelivery` demands of a move. `GapsGood` dates each
row, so that a row is never mistaken for the absent one. The proof goes by effects:
`LaneEffect` says what any step may do to one lane, one lemma per way a lane is
changed (opened, buffered into, moved, drained, timed out, struck, released) shows
it, and the refinement, `NoneDropped` and the invariant's preservation are read off
it. The plans of `stageProtocolEvent` and the passes of `prepareAdvance` are then
compositions of those changes. In Advance the first pass runs before the releases,
so the rows are followed through both: a source that misses a number after the
first pass and the releases still misses one at the end.

The same module proves the parts of `LanesInOrder` that count, and with them:

* `LanesAlwaysInOrder`: `LanesSpec => []LanesInOrder`.

Its invariant `HistoryIInv` adds four parts to `LanesIInv`. `OnceIInv` says why nothing
takes effect twice: what is buffered has not taken effect yet, buffered events have
different keys, and an event that has is `Spent`: its fingerprint is kept, its lane
applied its number, or its actor is retired, whose lanes stay closed. `UnitsExact`
is the sum `historyUnits` stands for; each step is an exchange of what the lanes hold
against fingerprints (`LaneUnits`). `LaneReasoned` says of a lane that waits why it
does, and `CountsMissing` that a gap row counts the missing numbers of all lanes of its
source, up to the ceiling.

`ReducerProofs` proves of the rest of the Reconciler, for every set of actors, edges
and events and every limit, from `EvidenceAssumption` and `ReducerAssumption`:

* `OwnersAlwaysSound`: `Spec => []RIInv`, the inductive invariant;
* `AlwaysPublished`: `Spec => []PublishedCurrent`;
* `EdgesAlwaysAnchored` and `IndexAlwaysExact`: `EdgesAnchored` and `IndexExact`, two
  parts of `EdgesInOrder`;
* `RanksAlwaysAcyclic`: `Spec => []RankAcyclic`;
* `EndedAlwaysGhosts`: `Spec => []TerminalGhosts`;
* `PartialAlwaysExact`: `Spec => []PartialExact`;
* `RetiredNeverReturn`: `Spec => RetiredStayRetired`;
* `HistoryAlwaysExact` and `EdgesAlwaysInOrder`: `Spec => []HistoryExact` and, with the
  types, `Spec => []EdgesInOrder`;
* `PinnedAlwaysKept`: `Spec => PinnedKept`.

`ReducerTimeProofs` extends it and proves what depends on the clock:

* `FoldedAlwaysInTime`: `Spec => []FoldedInTime`, when `Delay < HookFreshness`;
* `ApprovalsAlwaysIndependent`: `Spec => ApprovalsIndependent`.

`RIInv` says that the owners are `Sound` and that what is published is their
projection. `Sound` is about owners at any point of a transaction, not only
committed ones: a node is of the incarnation its actor was last seen in
(`InPlace`), edges are anchored and their kinds apart (`Apart`: only message edges hold
messages, each digest once on an edge and known as a fingerprint, without which an
expiry could take a message and leave its entry), ended actors have ghosts only,
marks and index are exact, spawn edges are acyclic. Every stage and every operator a
stage calls then has one lemma: it leads from sound owners to sound owners, and keeps
all incarnations (`Keeps`), but for `stageNodeObserved`, whose two cases have lemmas of
their own. A stage that fails is covered too, since what it leaves is sound and thrown
away. Most stages either leave the graph alone (`Aside`) or touch one node (`Touched`),
and the two carry the argument. That spawn edges stay acyclic uses the check of
`rankingCycle` as a set of actors closed under the edges that does not hold the source:
a set without a childless actor would meet it in one. The loop of `stageDueStateExpiry`
over the actors that are due is a fold, about which the smallest exception argues
again. `PublishedCurrent` says that nothing of a projection changes without one of the
four deltas of `normalizeTransactionDeltas`.

`HistoryExact` is proved with books. `Well` is `Sound` with `Booked`: every list of
evidence has one row per source (`Filed`), the history units are the sum of what the
actors, edges and messages cost (`Balanced`), and an incarnation is charged as retired
once (`Retiring`). Without `Filed` the code's replace-or-append could charge a row that
it then replaces. One lemma per stage again, each an exchange between a cost and the
units. `RecInv` adds the types of gaps, errors and times (`Shaped`) and that the
clock is not behind the cursor. For `PinnedKept` nearly every stage is `Steady`, no
actor leaves by it, and the others say of an actor that leaves why (`Leaves`).

`FoldedInTime` rests on `TimeInv`: every actor is `Timely`. One shown as
stale has reason to be, and an end has its ghost (`Fitting`); no heartbeat lane becomes
overdue at a time the cursor has passed (`LanesAhead`); the state was folded at some
time, since when no evidence has run out that the cursor has passed (`FoldedBy`); a
poll that never sent its heartbeat is still waited for (`PollAhead`); an absent actor
has no evidence (`Bare`). From it follows that an Advance called when nothing is due
shows every actor as before (`Still`). The hypothesis is a limit of the
code: an event that waits for Run as long as a heartbeat stays fresh opens a lane that
has run out already, at a deadline the cursor may have passed. The run `evidence`
has a delay of 1 against a freshness of 2.

`ApprovalsIndependent` compares a state with the next, so it is proved by effects.
`Alone` lists why approvals of an actor may end, and `EachAlone` is shown stage by stage:
an event edits the evidence of its own actor only (`Edited`); a refresh takes from it
only a lane that had run out (`Rolled`, `Dropped`); the loop of deadlines takes only
what is due (`Eased`); ghosts and successions end the actor's life.

`ReducerAssumption` requires of an event what validation does: a relationship is not of
the message type (event.go:331), a message is (reconcile.go:2300 and 2321), and an exit
carries a terminal value (`validExitOutcome`, event.go:361).

`ProgramProofs` proves of the interactive program, for every set of collectors and
capabilities, from `HostAssumption`:

* `HostInvariant`: `HostSpec => []HostInv`;
* `ExitIsHonest`: `HostSpec => []HostInOrder`;
* `GapsAlwaysTold`: `HostSpec => []GapsTold`.

Exit code 0 is far from a failing collector: the failure goes through the
registry's joined error, the Shadow's, the task's and the supervisor's list. The
inductive invariant `HostInv` has one part per station: what the state of a
collector says of its owed and told gaps (`SourcesAgree`), that an error in `infra`
becomes the registry's error (`RegistryAgrees`), that an error of a child becomes one
of the Shadow unless it was canceled by it (`ShadowAgrees`), that it becomes the
task's (`GraphAgrees`), and that the supervisor and main recorded it (`ExitAgrees`).

It proves of the control plane, for every set of intents, rows, places,
ports and every bound of the queue, from `ActorAssumption`:

* `WorkersAlwaysBounded`: `ActorSpec => []WorkersBounded`;
* `BooksAlwaysKept`: `ActorSpec => []IntentBooks`;
* `OkAlwaysMeansDone`: `ActorSpec => []OkMeansDone`.

The inductive invariant `ActorInv` says that a worker holds the lock of its row from
the lock to the release (`RowsHeld`) and its place while at the adapter
(`PlacesHeld`), that no worker starts once Run waits (`StopsInOrder`: acceptance ends
before the drain), that the counter of tickets is the number of data intents
underway (`TicketsCounted`), and that the channel holds exactly the queued intents,
each once (`QueueCounted`). From the last two follows that whoever holds a ticket
has room in the channel, which is why `Enqueue` never blocks the interface. What
adapters do is abstracted in one lemma, `WorkEffect`: a step of an adapter
changes nothing the queue, the locks or the places rest on.

`CollectorsProofs` proves of the engine and the collectors, for every set of sessions,
homes, subagents and lanes, from `CollectorsAssumption`:

* `CollectorsSightings`: `CollectorsSpec => []SightingsInOrder`;
* `CollectorsVisible`: `CollectorsSpec => []NeverInvisible`;
* `CollectorsComplete`: `CollectorsSpec => []OneShotComplete`.

The assumption relates the windows as the code does: native lanes poll every two
seconds and the overlay each second (native.go:32), so a poll comes after a refresh
(`PollEvery > 1`); the windows for binding and for ends are not shorter than that,
and the horizon outlasts both. The invariants follow a session through time. `Sighted`
says that everything is typed and in order, that a session is bound when the last
refresh saw its process, and that the graph and the queue agree on one incarnation.
`Watched` says what the last poll of a home left: a session on disk is known, or came
after that poll, or got its grace from it (`Graced`), and so with the edge to a child
(`Followed`). `Shown` follows the path of a one-shot: a lane that ticked (`Ticked`) has
said everything it holds (`Said`), and the mark up to which `Flush` waits covers all of
it (`Marked`), so that at the end it is in the graph. `NeverInvisible` speaks of edges to children
that appeared after a parent with a process; the attempt to prove it of all edges
showed that it fails beyond the bounds of the run (section 7).

`BoardProofs` proves of the terminal interface, for every set of rows, snapshots, texts
and sizes, from `BoardAssumption`:

* `GraphPainted`: the walk of the graph pane ends and draws every node once and every
  edge, for every finite graph, cycles included;
* `BoardInductive`: `BoardSpec => []BoardInv`;
* `BoardCursor`, `BoardConfirm`, `BoardPanes`: `CursorInOrder`, `ConfirmAimed` and
  `PanesInOrder` are invariants;
* `BoardKept`: `BoardSpec => CursorKept`.

`BoardInv` has a part per thing the handlers keep: lists and cursor are typed and the
cursor is on a line, inside the window (`PlaceTyped`, `Placed`); modes are typed and off in the
graph pane (`ModeTyped`, `GraphReadOnly`); a merge is about the split's rows (`MergeSound`); an
armed row is the one under the cursor (`Armed`), without which `ConfirmAimed` is not
inductive; and the lines of the graph pane paint the snapshot's graph (`AllPainted`).
That the walk ends is a measure: what remains of the stack and the nodes not yet
drawn (`Remains`) falls with every step. The assumption says
what the code sees to: the order of a list is one order, because `sortLines` breaks
ties; children nest once (join.go:131); a graph's nodes come from a map by id.

Only model-checked: liveness under fairness (`CallersReturn`, `WorkGetsDone`,
`EverythingEnds`, `EverythingStops`), which is out of the prover's reach, as is what needs
ENABLED. `TombstoneRefused` and `TransitionsInOrder` are the claims the runs `tombstone`
and `late_advance` refute (section 10).

## 12. Not modelled

* JSON v2: a validating encoder without state.
* Overlays, the process table, classification, join, prices and presence:
  conversions of what files, services and the system report. What they return is
  an input of `Collectors` and `Board`.
* Byte layouts and charges (`bytes.go`), validation and digests (`event.go`): their
  results are constants of the events; the coalescing rules and replay keys are
  operators of `StoreQueue`.
* The contents of capsules, packs, sidecars, git and command lines: an adapter step
  takes effect or not.
* Wording, colour and the layout inside a line of the terminal interface.
* Flags and formatting of the command line.
