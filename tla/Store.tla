-------------------------------- MODULE Store --------------------------------
(***************************************************************************)
(* The scheduler of the graph Store (src/internal/graph/store.go): the run *)
(* loop, its one-shot timer and the goroutine that watches it, flush       *)
(* callers, SetPinned callers, and the publication of generations.         *)
(*                                                                         *)
(* Each action is one critical section of queueMu (with mutationMu where   *)
(* the code takes both) and conjoins what StoreQueue says of the queues    *)
(* with what the scheduler does in the same section.  pc is where the Run  *)
(* goroutine is between two sections.                                      *)
(*                                                                         *)
(* Of the Reconciler only what the Store sees is kept: that a commit makes *)
(* a new generation, and the set of times nextDeadline chooses from.       *)
(* Time 0 is the zero time.                                                *)
(***************************************************************************)
EXTENDS StoreQueue

CONSTANTS
  Horizon,          (* bound: the last clock value                            *)
  BatchLatency,     (* storeMaxBatchLatency                                   *)
  Skew,             (* how early a timer may wake, seen from the wall clock   *)
  Deadlines,        (* the times the Reconciler may schedule something at     *)
  Callers,          (* flush callers, each calling once                       *)
  Impatient,        (* those whose context may end while they wait            *)
  NoCaller,
  Pinners,          (* SetPinned callers, each calling once                   *)
  Outcomes,         (* results Apply and Advance may give                     *)
  MayStop           (* whether Run's context may end                          *)

ASSUME SchedulerAssumption ==
  /\ Horizon \in Nat \ {0} /\ BatchLatency \in Nat /\ Skew \in Nat
  /\ Deadlines \subseteq 1..Horizon
  /\ Impatient \subseteq Callers /\ NoCaller \notin Callers
  /\ Outcomes \subseteq Results /\ MayStop \in BOOLEAN

VARIABLES
  pc,                 (* where Run is                                         *)
  back,               (* where it continues after the item it is applying     *)
  turn,               (* handleTimer's target, cutoff, cursor and readiness   *)
  booted,             (* Run has left the loop that precedes the first arming *)
  flushing,           (* the caller whose request Run handles                 *)
  flushResult,        (* handleFlushRequest's result so far                   *)
  appliedAt,          (* applyOneOutcome's clock sample                       *)
  prefixErrorAt,      (* firstSequence of the first event refused, 0 if none  *)
  wake, timer, lastNow, schedulerPrimed, firstDirty,
  deadlineCursor, cursorEpoch, publicationBlock,
  current,            (* reconciler.current, numbered                         *)
  pendingGeneration,  (* the unpublished commit, 0 if none                    *)
  published,          (* the generation Snapshot returns                      *)
  deadlines,          (* what nextDeadline chooses from                       *)
  registered,         (* the uncanceled flush request, if any                 *)
  callers, pinners,
  clock, ctxDone,
  attempted,          (* history: deadlines an Advance has gone over          *)
  refused             (* history: firstSequences whose Apply failed           *)

loopVars   == <<pc, back, turn, booted, flushing, flushResult, appliedAt>>
errorVars  == <<prefixErrorAt, refused>>
timeVars   == <<timer, lastNow, schedulerPrimed>>
dirtyVars  == <<firstDirty, publicationBlock>>
cursorVars == <<deadlineCursor, cursorEpoch>>
genVars    == <<current, pendingGeneration, published>>
dueVars    == <<deadlines, attempted>>
callVars   == <<registered, callers, pinners>>
envVars    == <<clock, ctxDone>>
schedVars  ==
  <<loopVars, errorVars, wake, timeVars, dirtyVars, cursorVars, genVars,
    dueVars, callVars, envVars>>
storeVars  == <<queueVars, schedVars>>

NoTimer ==
  [state |-> "none", batch |-> 0, semantic |-> 0, after |-> 0, epoch |-> 0,
   cutoff |-> 0]
NoTurn ==
  [batch |-> 0, semantic |-> 0, after |-> 0, cutoff |-> 0, cursor |-> 0,
   readiness |-> 0]

StoreInit ==
  /\ Init
  /\ pc = "new" /\ back = "pop" /\ turn = NoTurn /\ booted = FALSE
  /\ flushing = NoCaller /\ flushResult = "ok" /\ appliedAt = 0
  /\ prefixErrorAt = 0 /\ refused = {}
  /\ wake = FALSE /\ timer = NoTimer /\ lastNow = 1 /\ schedulerPrimed = FALSE
  /\ firstDirty = 0 /\ publicationBlock = FALSE
  /\ deadlineCursor = 0 /\ cursorEpoch = 0
  /\ current = 1 /\ pendingGeneration = 0 /\ published = 1
  /\ deadlines = {} /\ attempted = {}
  /\ registered = NoCaller
  /\ callers = [c \in Callers |-> [pc |-> "idle", cutoff |-> 0, answer |-> "none"]]
  /\ pinners = [p \in Pinners |-> [pc |-> "idle", fence |-> 0, now |-> 0]]
  /\ clock = 1 /\ ctxDone = FALSE

-----------------------------------------------------------------------------
(* Publish, seen by the scheduler.                                         *)

FlushPending == registered # NoCaller

(* Mutant: new ingress wakes nobody.                                       *)
FreshIngressSilent ==
  /\ lastNow' = clock /\ publicationBlock' = FALSE /\ UNCHANGED wake
  /\ cursorEpoch' = cursorEpoch + 1 /\ deadlineCursor' = 0

(* Mutant: new ingress leaves the deadline cursor where it is.             *)
FreshIngressKeepsCursor ==
  /\ lastNow' = clock /\ publicationBlock' = FALSE /\ wake' = TRUE
  /\ cursorEpoch' = cursorEpoch + 1 /\ UNCHANGED deadlineCursor

FreshIngress ==
  /\ lastNow' = clock /\ publicationBlock' = FALSE /\ wake' = TRUE
  /\ cursorEpoch' = cursorEpoch + 1 /\ deadlineCursor' = 0

StorePublish(e) ==
  \/ /\ PublishAccept(e) \/ PublishCoalesce(e)
     /\ FreshIngress
     /\ UNCHANGED <<loopVars, errorVars, timer, schedulerPrimed, firstDirty,
                    genVars, dueVars, callVars, envVars>>
  \/ /\ PublishCollision(e) \/ PublishDropReplacement(e) \/ PublishDrop(e)
     /\ lastNow' = clock
     /\ UNCHANGED <<loopVars, errorVars, wake, timer, schedulerPrimed, dirtyVars,
                    cursorVars, genVars, dueVars, callVars, envVars>>
  \/ /\ PublishReject(e) \/ PublishDuplicate(e)
     /\ UNCHANGED schedVars

-----------------------------------------------------------------------------
(* Run: where it goes next.                                                *)

Goto(label) ==
  /\ pc' = label
  /\ UNCHANGED <<back, turn, booted, flushing, flushResult, appliedAt>>

(* Nothing but pc changes.                                                 *)
Step(label) ==
  /\ Goto(label)
  /\ UNCHANGED <<queueVars, errorVars, wake, timeVars, dirtyVars, cursorVars,
                 genVars, dueVars, callVars, envVars>>

Start ==
  /\ pc = "new" /\ RunStart /\ Goto("boot")
  /\ UNCHANGED <<errorVars, wake, timeVars, dirtyVars, cursorVars, genVars,
                 dueVars, callVars, envVars>>

Stop(reason) ==
  /\ Halt(reason) /\ Goto("stop")
  /\ UNCHANGED <<errorVars, wake, timeVars, dirtyVars, cursorVars, genVars,
                 dueVars, callVars, envVars>>

(* The head of the loop: a canceled context, then a flush request, then    *)
(* the timer. Run begins with flush requests alone.                        *)
TopCanceled == pc = "top" /\ ctxDone /\ Stop("cancel")

PopFlushRequest ==
  /\ pc = (IF booted THEN "top" ELSE "boot") /\ ~(booted /\ ctxDone)
  /\ FlushPending
  /\ flushing' = registered /\ registered' = NoCaller
  /\ pc' = "flush" /\ flushResult' = "ok"
  /\ UNCHANGED <<queueVars, back, turn, booted, appliedAt, errorVars, wake,
                 timeVars, dirtyVars, cursorVars, genVars, dueVars, callers,
                 pinners, envVars>>

NoFlushRequest ==
  /\ ~FlushPending
  /\ \/ pc = "top" /\ ~ctxDone /\ Step("fired")
     \/ /\ pc = "boot" /\ pc' = "arm" /\ booted' = TRUE
        /\ UNCHANGED <<queueVars, back, turn, flushing, flushResult, appliedAt,
                       errorVars, wake, timeVars, dirtyVars, cursorVars, genVars,
                       dueVars, callVars, envVars>>

TakeFiredTimer ==
  /\ pc = "fired"
  /\ IF timer.state = "fired" /\ ~FlushPending
     THEN /\ turn' = [batch |-> timer.batch, semantic |-> timer.semantic,
                      after |-> timer.after, cutoff |-> timer.cutoff,
                      cursor |-> timer.epoch, readiness |-> 0]
          /\ timer' = NoTimer /\ pc' = "timer"
     ELSE pc' = "pop" /\ UNCHANGED <<turn, timer>>
  /\ UNCHANGED <<queueVars, back, booted, flushing, flushResult, appliedAt,
                 errorVars, wake, lastNow, schedulerPrimed, dirtyVars, cursorVars, genVars,
                 dueVars, callVars, envVars>>

(* popQueueItem for one of its three callers: what they may take, and where *)
(* Run continues when there is nothing to take. Only a flush itself is not *)
(* held up by a flush request.                                             *)
PopFor(here, eligible, heldUp, otherwise) ==
  /\ pc = here
  /\ IF eligible # {} /\ ~heldUp
     THEN /\ Pop(eligible)
          /\ pc' = "apply" /\ back' = here
          /\ UNCHANGED <<turn, booted, flushing, flushResult, appliedAt, errorVars, wake,
                         timeVars, dirtyVars, cursorVars, genVars, dueVars,
                         callVars, envVars>>
     ELSE Step(otherwise)

PopNext  == PopFor("pop", Queued, FlushPending, "idleArm")
PopDrain == PopFor("drain", UpTo(turn.cutoff), FlushPending, "checked")

(* An event or a pin may schedule something or take it off, also without a *)
(* new generation (a buffered event has a deadline and nothing to show).   *)
Rescheduled ==
  {deadlines} \cup {deadlines \cup {d} : d \in Deadlines}
              \cup {deadlines \ {d} : d \in Deadlines}

(* Mutant: a commit is not kept for publication.                           *)
CommitUnretained(changed) ==
  /\ current' = (IF changed THEN current + 1 ELSE current)
  /\ UNCHANGED pendingGeneration

(* retainUnpublishedCurrentLocked.                                         *)
Commit(changed) ==
  IF changed
  THEN current' = current + 1 /\ pendingGeneration' = current + 1
  ELSE UNCHANGED <<current, pendingGeneration>>

(* The batch clock starts with the first commit, or with diagnostics found *)
(* pending.                                                                *)
Dirtied(changed) ==
  IF firstDirty = 0 /\ (changed \/ DiagnosticsPending) THEN clock ELSE firstDirty

(* applyOneOutcome, its two sections. Between them mutationMu stays held.  *)
Apply(result, gaps, changed, scheduled) ==
  /\ pc = "apply" /\ ~ctxDone
  /\ ApplyBegin(result, gaps)
  /\ result = "fatal" => ~changed /\ scheduled = deadlines
  /\ scheduled \in Rescheduled
  /\ deadlines' = scheduled
  /\ attempted' = attempted \ (scheduled \ deadlines)
  /\ Commit(changed) /\ UNCHANGED published
  /\ lastNow' = clock /\ appliedAt' = clock
  /\ firstDirty' = Dirtied(changed)
  /\ pc' = "finish"
  /\ UNCHANGED <<back, turn, booted, flushing, flushResult, errorVars, wake, timer,
                 schedulerPrimed, publicationBlock, cursorVars, callVars, envVars>>

(* Mutant: a drain takes one event and goes on.                            *)
AfterApplyOnce ==
  IF applyResult = "fatal" THEN IF back = "flush" THEN "reply" ELSE "stop"
  ELSE CASE back = "pop" -> "arm" [] back = "drain" -> "checked" [] OTHER -> back

AfterApply ==
  IF applyResult # "fatal" THEN IF back = "pop" THEN "arm" ELSE back
  ELSE IF back = "flush" THEN "reply" ELSE "stop"

Finish ==
  /\ pc = "finish" /\ ApplyFinish
  /\ firstDirty' = IF firstDirty = 0 /\ DiagnosticsPending THEN appliedAt
                   ELSE firstDirty
  /\ LET id == (CHOOSE i \in inflight : TRUE).id
     IN  IF applyResult = "ok" THEN UNCHANGED errorVars
         ELSE /\ prefixErrorAt' = IF prefixErrorAt = 0 \/ id < prefixErrorAt
                                  THEN id ELSE prefixErrorAt
              /\ refused' = refused \cup {id}
  /\ flushResult' = IF /\ back = "flush" /\ applyResult # "ok"
                       /\ flushResult = "ok" \/ applyResult = "fatal"
                    THEN applyResult ELSE flushResult
  /\ pc' = AfterApply /\ appliedAt' = 0
  /\ UNCHANGED <<back, turn, booted, flushing, wake, timeVars, publicationBlock,
                 cursorVars, genVars, dueVars, callVars, envVars>>

ApplyCancel ==
  /\ pc = "apply" /\ ctxDone /\ ApplyCanceled
  /\ pc' = (IF back = "flush" THEN "reply" ELSE "stop")
  /\ flushResult' = (IF back = "flush" THEN "canceled" ELSE flushResult)
  /\ UNCHANGED <<back, turn, booted, flushing, appliedAt, errorVars, wake, timeVars,
                 dirtyVars, cursorVars, genVars, dueVars, callVars, envVars>>

ApplyWithoutClock ==
  /\ pc = "apply" /\ ~ctxDone /\ "fatal" \in Outcomes /\ ApplyNoClock
  /\ pc' = (IF back = "flush" THEN "reply" ELSE "stop")
  /\ flushResult' = (IF back = "flush" THEN "fatal" ELSE flushResult)
  /\ UNCHANGED <<back, turn, booted, flushing, appliedAt, errorVars, wake, timeVars,
                 dirtyVars, cursorVars, genVars, dueVars, callVars, envVars>>

-----------------------------------------------------------------------------
(* The timer: armScheduler, its watcher, handleTimer.                      *)

(* Time is cut off at the horizon, and a batch with it.                    *)
BatchDue == IF firstDirty + BatchLatency <= Horizon
            THEN firstDirty + BatchLatency ELSE Horizon

(* nextDeadline: the first time after the cursor.                          *)
NextDeadline(after) ==
  LET later == {d \in deadlines : d > after}
  IN  IF later = {} THEN 0 ELSE Min(later)

Target ==
  [batch    |-> IF publicationBlock \/ firstDirty = 0 THEN 0 ELSE BatchDue,
   semantic |-> NextDeadline(deadlineCursor)]

Due(t) == IF t.batch = 0 \/ (t.semantic # 0 /\ t.semantic < t.batch)
          THEN t.semantic ELSE t.batch

(* A fired timer keeps its cutoff until Run takes it; a live one gives way *)
(* to an earlier target, or to a different one due at the same time.       *)
Replaceable ==
  \/ timer.state = "none"
  \/ /\ timer.state = "armed"
     /\ \/ Due(Target) < Due(timer)
        \/ /\ Due(Target) = Due(timer)
           /\ <<Target.batch, Target.semantic>> # <<timer.batch, timer.semantic>>

Armed(t, after) ==
  [state |-> "armed", batch |-> t.batch, semantic |-> t.semantic,
   after |-> after, epoch |-> cursorEpoch, cutoff |-> 0]

ArmScheduler ==
  /\ pc \in {"arm", "idleArm"}
  /\ LET next   == IF pc = "arm" THEN "top" ELSE "select"
         primes == ~schedulerPrimed /\ firstDirty = 0 /\ Target.semantic # 0
         now    == IF primes THEN clock ELSE lastNow
     IN  IF FlushPending \/ Due(Target) = 0 \/ ~Replaceable
         THEN Step(next)
         ELSE /\ lastNow' = now
              /\ schedulerPrimed' = (schedulerPrimed \/ primes)
              /\ IF now >= Due(Target)
                 THEN /\ timer' = NoTimer /\ pc' = "timer"
                      /\ turn' = [batch |-> Target.batch,
                                  semantic |-> Target.semantic,
                                  after |-> deadlineCursor,
                                  cutoff |-> ingressOrdinal,
                                  cursor |-> cursorEpoch, readiness |-> now]
                 ELSE /\ timer' = Armed(Target, deadlineCursor)
                      /\ pc' = next /\ UNCHANGED turn
              /\ UNCHANGED <<queueVars, back, booted, flushing, flushResult,
                             appliedAt, errorVars, wake, dirtyVars, cursorVars,
                             genVars, dueVars, callVars, envVars>>

(* watchTimer. A watcher whose timer was canceled in the meantime finds    *)
(* another timerID and does nothing.                                       *)
Fire ==
  /\ timer.state = "armed" /\ clock + Skew >= Due(timer)
  /\ timer' = [timer EXCEPT !.state = "fired", !.cutoff = ingressOrdinal,
                            !.epoch = cursorEpoch]
  /\ wake' = TRUE
  /\ UNCHANGED <<queueVars, loopVars, errorVars, lastNow, schedulerPrimed,
                 dirtyVars, cursorVars, genVars, dueVars, callVars, envVars>>

(* handleTimer samples the clock for a fired timer only.                   *)
HandleTimer ==
  /\ pc = "timer"
  /\ LET now == IF turn.readiness = 0 THEN clock ELSE turn.readiness
     IN  /\ lastNow' = now
         /\ turn' = [turn EXCEPT !.readiness = now]
         /\ pc' = IF now < Due(turn) THEN "rearm" ELSE "drain"
  /\ UNCHANGED <<queueVars, back, booted, flushing, flushResult, appliedAt,
                 errorVars, wake, timer, schedulerPrimed, dirtyVars, cursorVars,
                 genVars, dueVars, callVars, envVars>>

TimerWithoutClock ==
  pc = "timer" /\ turn.readiness = 0 /\ "fatal" \in Outcomes /\ Stop("abort")

Leave(label) ==
  pc' = label /\ turn' = NoTurn /\ UNCHANGED <<back, booted, flushing, flushResult, appliedAt>>

Rearm ==
  /\ pc = "rearm" /\ Leave("top")
  /\ timer' = Armed(turn, turn.after)
  /\ UNCHANGED <<queueVars, errorVars, wake, lastNow, schedulerPrimed, dirtyVars,
                 cursorVars, genVars, dueVars, callVars, envVars>>

(* A flush that registered since calls the turn off.                       *)
CheckFlush ==
  /\ pc = "checked"
  /\ Leave("top")
  /\ FlushPending
  /\ UNCHANGED <<queueVars, errorVars, wake, timeVars, dirtyVars, cursorVars,
                 genVars, dueVars, callVars, envVars>>

Ready ==
  /\ pc = "checked" /\ ~FlushPending
  /\ Step(IF turn.semantic # 0 /\ turn.readiness >= turn.semantic
          THEN "advance" ELSE "publish")

(* advanceAt: Advance(D) goes over every deadline up to D, or refuses with *)
(* an admission error and leaves them; it may commit either way.           *)
AdvanceHeldUp == pc = "advance" /\ FlushPending /\ Step("publish")

Served    == {d \in deadlines : d <= turn.semantic}
Scheduled(result) ==
  IF result = "ok"
  THEN {deadlines, deadlines \ Served}
         \cup {(deadlines \ Served) \cup {d} : d \in {x \in Deadlines : x > turn.semantic}}
  ELSE {deadlines}

Advance(result, changed, scheduled) ==
  /\ pc = "advance" /\ ~FlushPending /\ result # "fatal"
  /\ scheduled \in Scheduled(result)
  /\ deadlines' = scheduled
  /\ attempted' = (attempted \cup Served) \ (scheduled \ deadlines)
  /\ Commit(changed) /\ UNCHANGED published
  /\ firstDirty' = IF changed /\ firstDirty = 0 THEN turn.readiness ELSE firstDirty
  /\ Goto("cursor")
  /\ UNCHANGED <<queueVars, errorVars, wake, timeVars, publicationBlock,
                 cursorVars, callVars, envVars>>

AdvanceFails ==
  pc = "advance" /\ ~FlushPending /\ "fatal" \in Outcomes /\ Stop("abort")

(* The cursor only moves if no ingress and no pin came since the turn      *)
(* recorded its epoch.                                                     *)
CursorAfter == IF cursorEpoch = turn.cursor THEN turn.semantic ELSE deadlineCursor

MoveCursor ==
  /\ pc = "cursor" /\ Goto("publish")
  /\ deadlineCursor' = CursorAfter
  /\ UNCHANGED <<queueVars, errorVars, wake, timeVars, dirtyVars, cursorEpoch,
                 genVars, dueVars, callVars, envVars>>

-----------------------------------------------------------------------------
(* publishPendingMode, for a timer: the unpublished commit and the pending *)
(* diagnostics, which the Reconciler may refuse for now.                   *)
Publishing == pc = "publish" /\ ~FlushPending

Expose(generation) ==
  /\ published' = generation /\ pendingGeneration' = 0
  /\ firstDirty' = 0 /\ publicationBlock' = FALSE

PublishHeldUp ==
  /\ pc = "publish"
  /\ FlushPending \/ (pendingGeneration = 0 /\ ~DiagnosticsPending)
  /\ Leave("top")
  /\ UNCHANGED <<queueVars, errorVars, wake, timeVars, dirtyVars, cursorVars,
                 genVars, dueVars, callVars, envVars>>

PublishCommit ==
  /\ Publishing /\ pendingGeneration # 0 /\ ~DiagnosticsPending
  /\ Expose(pendingGeneration) /\ UNCHANGED current
  /\ Leave("top")
  /\ UNCHANGED <<queueVars, errorVars, wake, timeVars, cursorVars, dueVars,
                 callVars, envVars>>

(* The diagnostics make a new generation unless every count is saturated.  *)
PublishWithDiagnostics(gaps, changed) ==
  /\ Publishing /\ PublishDiagnostics(gaps)
  /\ current' = current + (IF changed THEN 1 ELSE 0) /\ Expose(current')
  /\ lastNow' = clock
  /\ Leave("top")
  /\ UNCHANGED <<errorVars, wake, timer, schedulerPrimed, cursorVars, dueVars,
                 callVars, envVars>>

PublishRefused ==
  /\ Publishing /\ DiagnosticsPending /\ "admission" \in Outcomes
  /\ publicationBlock' = TRUE /\ lastNow' = clock
  /\ Leave("top")
  /\ UNCHANGED <<queueVars, errorVars, wake, timer, schedulerPrimed, firstDirty,
                 cursorVars, genVars, dueVars, callVars, envVars>>

PublishFails ==
  Publishing /\ DiagnosticsPending /\ "fatal" \in Outcomes /\ Stop("abort")

-----------------------------------------------------------------------------
(* handleFlushRequest, for the request it popped.                          *)

Cutoff == callers[flushing].cutoff

PopFlush == flushing # NoCaller /\ PopFor("flush", Prefix(Cutoff), FALSE, "prefix")

(* Mutant: an event refused before the flush began is forgotten.           *)
NoPrefixError == FALSE

(* appliedPrefixError.                                                     *)
PrefixError == prefixErrorAt # 0 /\ prefixErrorAt <= Cutoff

CheckPrefix ==
  /\ pc = "prefix" /\ pc' = "flushPublish"
  /\ flushResult' = IF PrefixError THEN "admission" ELSE flushResult
  /\ UNCHANGED <<queueVars, back, turn, booted, flushing, appliedAt, errorVars,
                 wake, timeVars, dirtyVars, cursorVars, genVars, dueVars, callVars,
                 envVars>>

(* publishPendingForFlush leaves the diagnostics alone.                    *)
FlushPublish ==
  /\ pc = "flushPublish" /\ Goto("reply")
  /\ IF pendingGeneration = 0 THEN UNCHANGED <<dirtyVars, genVars>>
     ELSE Expose(pendingGeneration) /\ UNCHANGED current
  /\ UNCHANGED <<queueVars, errorVars, wake, timeVars, cursorVars, dueVars,
                 callVars, envVars>>

Reply ==
  /\ pc = "reply"
  /\ callers' = [callers EXCEPT ![flushing].answer =
                   IF callers[flushing].pc = "waiting" THEN flushResult ELSE @]
  /\ pc' = IF flushResult \in {"fatal", "canceled"} THEN "stop"
           ELSE IF booted THEN "top" ELSE "boot"
  /\ flushing' = NoCaller /\ flushResult' = "ok"
  /\ UNCHANGED <<queueVars, back, turn, booted, appliedAt, errorVars, wake,
                 timeVars, dirtyVars, cursorVars, genVars, dueVars, registered,
                 pinners, envVars>>

-----------------------------------------------------------------------------
(* Idle, and the stop.                                                     *)

Wake ==
  /\ pc = "select" /\ wake /\ wake' = FALSE /\ Goto("woken")
  /\ UNCHANGED <<queueVars, errorVars, timeVars, dirtyVars, cursorVars, genVars,
                 dueVars, callVars, envVars>>

SelectCanceled == pc = "select" /\ ctxDone /\ Stop("cancel")

(* handleExternalWake: a live timer chosen under an older cursor goes.     *)
Woken ==
  /\ pc = "woken" /\ Goto("top")
  /\ timer' = IF timer.state = "armed" /\ timer.after # 0 /\ timer.epoch # cursorEpoch
              THEN NoTimer ELSE timer
  /\ UNCHANGED <<queueVars, errorVars, wake, lastNow, schedulerPrimed, dirtyVars,
                 cursorVars, genVars, dueVars, callVars, envVars>>

BeginStop ==
  /\ pc = "stop" /\ StopBegin /\ Goto("stopping")
  /\ timer' = NoTimer
  /\ UNCHANGED <<errorVars, wake, lastNow, schedulerPrimed, dirtyVars, cursorVars,
                 genVars, dueVars, callVars, envVars>>

(* publishPendingFinal.                                                    *)
PublishFinal(gaps, changed) ==
  /\ pc = "stopping" /\ StopPublish(gaps)
  /\ IF DiagnosticsPending
     THEN /\ current' = current + (IF changed THEN 1 ELSE 0) /\ Expose(current')
          /\ lastNow' = clock
     ELSE /\ IF pendingGeneration = 0 THEN UNCHANGED <<dirtyVars, genVars>>
             ELSE Expose(pendingGeneration) /\ UNCHANGED current
          /\ UNCHANGED lastNow
  /\ UNCHANGED <<loopVars, errorVars, wake, timer, schedulerPrimed, cursorVars,
                 dueVars, callVars, envVars>>

PublishFinalFails ==
  /\ pc = "stopping" /\ Outcomes # {"ok"} /\ StopPublishFails
  /\ lastNow' = clock
  /\ UNCHANGED <<loopVars, errorVars, wake, timer, schedulerPrimed, dirtyVars,
                 cursorVars, genVars, dueVars, callVars, envVars>>

(* The last section of stopRun, the fence of the item set aside, runDone.  *)
EndStop ==
  /\ pc = "stopping" /\ StopEnd /\ Goto("done")
  /\ registered' = NoCaller
  /\ pendingGeneration' = 0 /\ firstDirty' = 0 /\ publicationBlock' = FALSE
  /\ UNCHANGED <<errorVars, wake, timeVars, cursorVars, current, published,
                 dueVars, callers, pinners, envVars>>

-----------------------------------------------------------------------------
(* Flush callers.                                                          *)

callOnlyVars ==
  <<queueVars, loopVars, errorVars, timeVars, dirtyVars, cursorVars, genVars,
    dueVars, pinners, envVars>>

FlushCall(c) ==
  /\ callers[c].pc = "idle"
  /\ IF Accepting /\ ~FlushPending
     THEN /\ callers' = [callers EXCEPT ![c].pc = "waiting", ![c].cutoff = ingressOrdinal]
          /\ registered' = c /\ wake' = TRUE
     ELSE /\ callers' = [callers EXCEPT ![c].pc = "returned", ![c].answer = "refused"]
          /\ UNCHANGED <<registered, wake>>
  /\ UNCHANGED callOnlyVars

(* The caller marks its request canceled; every reader of the requests     *)
(* drops canceled ones first.                                              *)
FlushGivesUp(c) ==
  /\ c \in Impatient /\ callers[c].pc = "waiting"
  /\ callers' = [callers EXCEPT ![c].pc = "returned", ![c].answer = "none"]
  /\ registered' = IF registered = c THEN NoCaller ELSE registered
  /\ UNCHANGED <<callOnlyVars, wake>>

FlushReturns(c) ==
  /\ callers[c].pc = "waiting"
  /\ callers[c].answer # "none" \/ pc = "done"
  /\ callers' = [callers EXCEPT ![c].pc = "returned",
                                ![c].answer = IF @ = "none" THEN "refused" ELSE @]
  /\ UNCHANGED <<callOnlyVars, registered, wake>>

-----------------------------------------------------------------------------
(* SetPinned: it waits for the fence of the event it found being applied,  *)
(* then for mutationMu.                                                    *)

pinOnlyVars ==
  <<queueVars, loopVars, errorVars, schedulerPrimed, registered, callers, envVars>>

Fenced == inflight \cup preApply

PinCall(p) ==
  /\ pinners[p].pc = "idle"
  /\ pinners' = [pinners EXCEPT ![p] =
       IF ~Accepting THEN [pc |-> "returned", fence |-> 0, now |-> 0]
       ELSE IF Fenced = {} THEN [pc |-> "locking", fence |-> 0, now |-> clock]
       ELSE [pc |-> "fenced", fence |-> (CHOOSE i \in Fenced : TRUE).id, now |-> clock]]
  /\ UNCHANGED <<pinOnlyVars, wake, timer, lastNow, dirtyVars, cursorVars, genVars,
                 dueVars>>

(* Mutant: stopRun leaves the fence of the item set aside closed to pins.   *)
PinFenceOfFinished(p) ==
  /\ pinners[p].pc = "fenced" /\ \A i \in Fenced : i.id # pinners[p].fence
  /\ lifecycle # "stopped"
  /\ pinners' = [pinners EXCEPT ![p].pc = "locking", ![p].fence = 0]
  /\ UNCHANGED <<pinOnlyVars, wake, timer, lastNow, dirtyVars, cursorVars, genVars,
                 dueVars>>

PinFence(p) ==
  /\ pinners[p].pc = "fenced" /\ \A i \in Fenced : i.id # pinners[p].fence
  /\ pinners' = [pinners EXCEPT ![p].pc = "locking", ![p].fence = 0]
  /\ UNCHANGED <<pinOnlyVars, wake, timer, lastNow, dirtyVars, cursorVars, genVars,
                 dueVars>>

PinLocks(p) ==
  /\ pinners[p].pc = "locking" /\ applyStep # "applied"
  /\ pinners' = [pinners EXCEPT ![p].pc = "returned", ![p].now = 0]

(* Refused because the Store stops, or it changes nothing.                 *)
PinNothing(p) ==
  /\ PinLocks(p)
  /\ lastNow' = IF Accepting THEN pinners[p].now ELSE lastNow
  /\ UNCHANGED <<pinOnlyVars, wake, timer, dirtyVars, cursorVars, genVars, dueVars>>

(* Mutant: a pin leaves the timer of the old deadlines running.            *)
PinKeepsTimer == UNCHANGED <<timer, wake>>

PinResetsTimer == timer' = NoTimer /\ wake' = TRUE

PinChanges(p, scheduled) ==
  /\ PinLocks(p) /\ Accepting
  /\ lastNow' = pinners[p].now
  /\ scheduled \in Rescheduled
  /\ deadlines' = scheduled
  /\ attempted' = attempted \ (scheduled \ deadlines)
  /\ current' = current + 1 /\ published' = current + 1 /\ pendingGeneration' = 0
  /\ firstDirty' = IF ~DiagnosticsPending THEN 0
                   ELSE IF firstDirty = 0 THEN pinners[p].now ELSE firstDirty
  /\ publicationBlock' = FALSE
  /\ deadlineCursor' = 0 /\ cursorEpoch' = cursorEpoch + 1
  /\ PinResetsTimer
  /\ UNCHANGED pinOnlyVars

-----------------------------------------------------------------------------
(* The environment, and the whole.                                         *)

Tick ==
  /\ clock < Horizon /\ clock' = clock + 1
  /\ UNCHANGED <<queueVars, loopVars, errorVars, wake, timeVars, dirtyVars,
                 cursorVars, genVars, dueVars, callVars, ctxDone>>

Cancel ==
  /\ MayStop /\ ~ctxDone /\ ctxDone' = TRUE
  /\ UNCHANGED <<queueVars, loopVars, errorVars, wake, timeVars, dirtyVars,
                 cursorVars, genVars, dueVars, callVars, clock>>

ApplyAny ==
  \E result \in Outcomes, gaps \in GapLedgers, changed \in BOOLEAN :
    \E scheduled \in Rescheduled : Apply(result, gaps, changed, scheduled)

AdvanceAny ==
  \E result \in Outcomes, changed \in BOOLEAN :
    \E scheduled \in Scheduled(result) : Advance(result, changed, scheduled)

Run ==
  \/ Start \/ TopCanceled \/ PopFlushRequest \/ NoFlushRequest \/ TakeFiredTimer
  \/ PopNext \/ ApplyAny \/ Finish \/ ApplyCancel \/ ApplyWithoutClock
  \/ ArmScheduler \/ HandleTimer \/ TimerWithoutClock \/ Rearm \/ PopDrain
  \/ CheckFlush \/ Ready \/ AdvanceHeldUp \/ AdvanceAny \/ AdvanceFails \/ MoveCursor
  \/ PublishHeldUp \/ PublishCommit \/ PublishRefused \/ PublishFails
  \/ \E gaps \in GapLedgers, changed \in BOOLEAN :
       PublishWithDiagnostics(gaps, changed) \/ PublishFinal(gaps, changed)
  \/ PopFlush \/ CheckPrefix \/ FlushPublish \/ Reply
  \/ Wake \/ SelectCanceled \/ Woken \/ BeginStop \/ PublishFinalFails \/ EndStop

PinProceeds(p) ==
  \/ PinFence(p) \/ PinNothing(p)
  \/ \E scheduled \in Rescheduled : PinChanges(p, scheduled)

StoreNext ==
  \/ \E e \in Events : StorePublish(e)
  \/ Run \/ Fire
  \/ \E c \in Callers : FlushCall(c) \/ FlushGivesUp(c) \/ FlushReturns(c)
  \/ \E p \in Pinners : PinCall(p) \/ PinProceeds(p)
  \/ Tick \/ Cancel

StoreSpec == StoreInit /\ [][StoreNext]_storeVars

(* The goroutines are scheduled, the clock moves on and timers wake; no    *)
(* event, flush, pin or cancellation has to come.                          *)
StoreFairness ==
  /\ WF_storeVars(Run) /\ WF_storeVars(Fire) /\ WF_storeVars(Tick)
  /\ \A c \in Callers : WF_storeVars(FlushReturns(c))
  /\ \A p \in Pinners : WF_storeVars(PinProceeds(p))

FairStoreSpec == StoreSpec /\ StoreFairness

-----------------------------------------------------------------------------
(* Properties.                                                             *)

Labels ==
  {"new", "boot", "top", "fired", "pop", "apply", "finish", "arm", "idleArm",
   "select", "woken", "timer", "rearm", "drain", "checked", "advance", "cursor",
   "publish", "flush", "prefix", "flushPublish", "reply", "stop", "stopping",
   "done"}

Time == 0..Horizon
TurnRecord ==
  [batch: Time, semantic: Time, after: Time, cutoff: Nat, cursor: Nat, readiness: Time]
TimerRecord ==
  [state: {"none", "armed", "fired"}, batch: Time, semantic: Time, after: Time,
   epoch: Nat, cutoff: Nat]
CallerRecord ==
  [pc: {"idle", "waiting", "returned"}, cutoff: Nat,
   answer: Results \cup {"none", "refused", "canceled"}]
PinnerRecord ==
  [pc: {"idle", "fenced", "locking", "returned"}, fence: Nat, now: Time]

Turning == pc \in {"timer", "rearm", "drain", "checked", "advance", "cursor", "publish"}

LoopTypes ==
  /\ pc \in Labels /\ back \in {"pop", "drain", "flush"} /\ booted \in BOOLEAN
  /\ (pc = "apply") = (applyStep = "popped")
  /\ (pc = "finish") = (applyStep = "applied")
  /\ flushing \in Callers \cup {NoCaller} /\ flushResult \in Results \cup {"canceled"}
  /\ pc \in {"flush", "prefix", "flushPublish", "reply"} => flushing # NoCaller
  /\ appliedAt \in Time /\ prefixErrorAt \in Nat /\ refused \subseteq Nat
  /\ turn \in TurnRecord /\ turn.cutoff <= ingressOrdinal
  /\ Turning => Due(turn) \in 1..Horizon

TimerTypes ==
  /\ timer \in TimerRecord /\ timer.cutoff <= ingressOrdinal
  /\ timer.state # "none" => Due(timer) \in 1..Horizon
  /\ clock \in Time /\ lastNow \in Time
  /\ wake \in BOOLEAN /\ schedulerPrimed \in BOOLEAN /\ ctxDone \in BOOLEAN

GenerationTypes ==
  /\ firstDirty \in Time /\ publicationBlock \in BOOLEAN
  /\ deadlineCursor \in Time /\ cursorEpoch \in Nat
  /\ current \in Nat /\ pendingGeneration \in Nat /\ published \in Nat
  /\ deadlines \subseteq Deadlines /\ attempted \subseteq Deadlines

CallerTypes ==
  /\ callers \in [Callers -> CallerRecord] /\ pinners \in [Pinners -> PinnerRecord]
  /\ registered \in Callers \cup {NoCaller}
  /\ FlushPending => callers[registered].pc = "waiting"

(* The types of the scheduler's variables; Run is at an apply label        *)
(* exactly while it owns an event, at a flush label while it owns a        *)
(* request, and in a turn while it has a target.                           *)
StoreTypeOK == LoopTypes /\ TimerTypes /\ GenerationTypes /\ CallerTypes

(* Snapshot shows the newest commit except while it is the pending one,    *)
(* which then has a batch clock running; nothing is committed and then     *)
(* forgotten (pendingGeneration against reconciler.current).               *)
GenerationsAgree ==
  lifecycle \in {"open", "running"} =>
    IF pendingGeneration = 0 THEN published = current
    ELSE pendingGeneration = current /\ published < current /\ firstDirty # 0

(* While commits stay unpublished the batch clock belongs to the first of  *)
(* them: later commits, flushes that fail, refused hand-overs and pins do  *)
(* not move it (firstDirty).                                               *)
BatchClockFixed ==
  [][pendingGeneration # 0 /\ pendingGeneration' # 0
       => firstDirty' = firstDirty]_storeVars

(* A flush answers "ok" only if every event accepted before it was called  *)
(* has left the Store with its Apply done and none of them refused, and    *)
(* readers see the newest commit (handleFlushRequest, appliedPrefixError). *)
FlushHonest ==
  [][\A c \in Callers :
       (callers[c].answer # "ok" /\ callers'[c].answer = "ok") =>
         /\ \A i \in Owned : i.id > callers[c].cutoff
         /\ \A n \in refused : n > callers[c].cutoff
         /\ published = current]_storeVars

(* What readers are told and when: an honest flush, a batch clock that     *)
(* nothing moves.                                                          *)
VisibilityHonest == BatchClockFixed /\ FlushHonest

(* The cursor never hides a deadline no Advance has gone over: what it     *)
(* excludes from nextDeadline was served or refused since it was           *)
(* scheduled (deadlineCursor and cursorEpoch in Publish, SetPinned and     *)
(* handleTimer).                                                           *)
DeadlineNotSkipped ==
  \A d \in deadlines : d <= deadlineCursor => d \in attempted

(* Before Run sleeps on select with no wake pending, everything it could   *)
(* do is done or has a timer that is due in time.                          *)
NoLostWakeup ==
  pc = "select" /\ ~wake =>
    /\ Queued = {} /\ ~FlushPending
    /\ timer.state # "fired"
    /\ Due(Target) # 0 => timer.state = "armed" /\ Due(timer) <= Due(Target)

(* The scheduler is in order: types, labels against what Run owns, and no  *)
(* sleep on anything that is ready.                                        *)
SchedulerInOrder == StoreTypeOK /\ NoLostWakeup

(* "At D Store captures the last accepted ordinal, drains through the      *)
(* cutoff, advances at D" (tests/RISK_MODEL.md, GF-T8-SCHEDULER).          *)
AdvanceAfterDrain ==
  [][pc = "advance" /\ pc' = "cursor" => UpTo(turn.cutoff) = {}]_storeVars

(* Every flush caller returns, also when Run stops under it.               *)
FlushAnswered ==
  \A c \in Callers : callers[c].pc = "waiting" ~> callers[c].pc = "returned"

(* Every commit becomes visible, unless Run stops: the batch timer, a      *)
(* flush or a pin publishes it.                                            *)
CommitsBecomeVisible ==
  \A g \in 2..(MaxCalls + 4) :
    pendingGeneration = g ~> published >= g \/ publicationBlock \/ lifecycle = "stopped"

(* SetPinned returns: the fence it waits for is closed by every way an     *)
(* apply can end, the stop included.                                       *)
PinReturns == \A p \in Pinners : pinners[p].pc = "fenced" ~> pinners[p].pc = "returned"

(* What is queued is applied or disposed of.                               *)
QueueDrains == Queued # {} ~> Queued = {}

(* Whoever waits for the Store gets an answer.                             *)
CallersReturn == FlushAnswered /\ PinReturns

(* Whatever was accepted is worked off and becomes visible.                *)
WorkGetsDone == CommitsBecomeVisible /\ QueueDrains
=============================================================================
