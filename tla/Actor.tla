-------------------------------- MODULE Actor --------------------------------
(* The control plane, internal/act: a bounded queue of intents behind the   *)
(* terminal interface, the workers that run them, the adapters they call,   *)
(* the kill ladder and the launch of local servers.                         *)
EXTENDS Integers, Sequences, FiniteSets, SequencesExt, FiniteSetsExt

CONSTANTS
  Intents,      (* what the user asks for, each at most once               *)
  OpOf,         (* its kind: see Steps                                     *)
  KeyOf,        (* the row it is about (Target.Key)                        *)
  Bound,        (* outstanding data intents (Actor.bound, 16)              *)
  MaxInFlight,  (* intents at an adapter at once (maxInFlight, 4)          *)
  Ports,        (* ports of local servers (PortMin..PortMax)               *)
  Wedged,       (* intents whose adapter need not return                   *)
  MaxAsked,     (* bound: intents the user asks for                        *)
  Nobody

ASSUME ActorAssumption ==
  /\ Bound \in Nat \ {0} /\ MaxInFlight \in Nat \ {0} /\ Ports \subseteq Nat
  /\ OpOf \in [Intents -> {"fork", "launch", "merge", "call", "kill"}]
  /\ Wedged \subseteq Intents /\ Nobody \notin Intents /\ MaxAsked \in Nat

Keys == {KeyOf[i] : i \in Intents}

(* What an adapter does for an intent, in order. "fork" is Fork and Clone   *)
(* of an agent, "launch" of a local server, "call" any single command, and  *)
(* "kill" the ladder of act.Kill.                                           *)
Steps == [fork   |-> <<"capsule", "worktree", "spawn", "sidecar">>,
          launch |-> <<"capsule", "pack", "port", "unit", "sidecar">>,
          merge  |-> <<"git", "tell", "note">>,
          call   |-> <<"call">>,
          kill   |-> <<"look", "int", "grace", "last", "term">>]
StepsOf(i) == Steps[OpOf[i]]
Kill(i) == OpOf[i] = "kill"

VARIABLES
  ctxDone,   (* the context of Run is canceled                              *)
  run,       (* where Run is                                                *)
  stopping,  (* Actor.stopping                                              *)
  ch,        (* the channel of waiting intents                              *)
  reserved,  (* tickets held                                                *)
  owner,     (* who holds the lock of a row (keyMus)                        *)
  slots,     (* who holds a place in flight (sem)                           *)
  pc,        (* where each intent is                                        *)
  at,        (* the adapter step it is at                                   *)
  did,       (* the steps that took effect                                  *)
  answer,    (* what storeResult said of it                                 *)
  proc,      (* the process a row was joined with, and its pid after it     *)
  servers,   (* local servers started: who, port, listening                 *)
  port       (* the port an intent chose                                    *)

actorVars == <<ctxDone, run, stopping, ch, reserved, owner, slots, pc, at, did,
               answer, proc, servers, port>>
queueOnly == <<owner, slots, at, did, answer, proc, servers, port>>
workOnly  == <<ctxDone, run, stopping, ch>>

Init ==
  /\ ctxDone = FALSE /\ run = "new" /\ stopping = FALSE
  /\ ch = <<>> /\ reserved = 0
  /\ owner = [k \in Keys |-> Nobody] /\ slots = {}
  /\ pc = [i \in Intents |-> "idle"] /\ at = [i \in Intents |-> 0]
  /\ did = [i \in Intents |-> {}] /\ answer = [i \in Intents |-> "none"]
  /\ proc = [k \in Keys |-> "same"] /\ servers = {}
  /\ port = [i \in Intents |-> 0]

(* Intents in the hands of a goroutine that Run waits for.                  *)
Working == {i \in Intents : pc[i] \in {"key", "slot", "enter", "work", "release"}}
(* Data intents that hold a ticket.                                         *)
Ticketed == {i \in Intents : /\ ~Kill(i)
                             /\ pc[i] \in {"ticket", "queued", "taken"} \/ i \in Working}
Asks(i) == pc[i] = "idle" /\ Cardinality({j \in Intents : pc[j] # "idle"}) < MaxAsked
Accepting == run # "new" /\ ~stopping /\ ~ctxDone

-----------------------------------------------------------------------------

(* Enqueue, from the terminal interface.                                    *)
Enqueue(i) ==
  /\ Asks(i) /\ ~Kill(i)
  /\ \/ /\ Accepting /\ reserved < Bound
        /\ pc' = [pc EXCEPT ![i] = "ticket"] /\ reserved' = reserved + 1
     \/ /\ ~(Accepting /\ reserved < Bound)
        /\ pc' = [pc EXCEPT ![i] = "refused"] /\ UNCHANGED reserved
  /\ UNCHANGED <<queueOnly, workOnly>>

(* The ticket is taken, the channel not yet written: select takes either    *)
(* branch that is ready.                                                    *)
Send(i) ==
  /\ pc[i] = "ticket"
  /\ \/ /\ Len(ch) < Bound
        /\ ch' = Append(ch, i) /\ pc' = [pc EXCEPT ![i] = "queued"]
        /\ UNCHANGED reserved
     \/ /\ ctxDone
        /\ pc' = [pc EXCEPT ![i] = "refused"] /\ reserved' = reserved - 1
        /\ UNCHANGED ch
  /\ UNCHANGED <<queueOnly, ctxDone, run, stopping>>

(* Mutant: a kill is accepted while Run stops.                             *)
EnqueueKillLate(i) ==
  /\ Asks(i) /\ Kill(i)
  /\ pc' = [pc EXCEPT ![i] = IF run # "new" THEN "key" ELSE "refused"]
  /\ UNCHANGED <<queueOnly, workOnly, reserved>>

(* A kill the user confirmed goes around the queue to a worker of its own.  *)
EnqueueKill(i) ==
  /\ Asks(i) /\ Kill(i)
  /\ pc' = [pc EXCEPT ![i] = IF Accepting THEN "key" ELSE "refused"]
  /\ UNCHANGED <<queueOnly, workOnly, reserved>>

-----------------------------------------------------------------------------
(* Run.                                                                     *)

Start ==
  /\ run = "new" /\ run' = "loop"
  /\ UNCHANGED <<queueOnly, ctxDone, stopping, ch, reserved, pc>>

Cancel ==
  /\ ~ctxDone /\ run # "new" /\ ctxDone' = TRUE
  /\ UNCHANGED <<queueOnly, run, stopping, ch, reserved, pc>>

Receive ==
  /\ run = "loop" /\ ch # <<>>
  /\ run' = "hold" /\ ch' = Tail(ch)
  /\ pc' = [pc EXCEPT ![Head(ch)] = "taken"]
  /\ UNCHANGED <<queueOnly, ctxDone, stopping, reserved>>

(* What was received starts a worker, unless the context ended meanwhile.   *)
Hand(i) ==
  /\ run = "hold" /\ pc[i] = "taken"
  /\ \/ /\ ~ctxDone
        /\ run' = "loop" /\ pc' = [pc EXCEPT ![i] = "key"]
        /\ UNCHANGED <<reserved, stopping>>
     \/ /\ ctxDone
        /\ run' = "drain" /\ stopping' = TRUE
        /\ pc' = [pc EXCEPT ![i] = "dropped"] /\ reserved' = reserved - 1
  /\ UNCHANGED <<queueOnly, ctxDone, ch>>

SeeCancel ==
  /\ run = "loop" /\ ctxDone
  /\ run' = "drain" /\ stopping' = TRUE
  /\ UNCHANGED <<queueOnly, ctxDone, ch, reserved, pc>>

(* dropQueued takes what is there, and what is sent while it does.          *)
Drain ==
  /\ run = "drain"
  /\ \/ /\ ch # <<>>
        /\ ch' = Tail(ch) /\ pc' = [pc EXCEPT ![Head(ch)] = "dropped"]
        /\ reserved' = reserved - 1 /\ UNCHANGED run
     \/ /\ ch = <<>> /\ run' = "wait" /\ UNCHANGED <<ch, pc, reserved>>
  /\ UNCHANGED <<queueOnly, ctxDone, stopping>>

(* Run returns when every worker has.                                       *)
Return ==
  /\ run = "wait" /\ Working = {} /\ run' = "stopped"
  /\ UNCHANGED <<queueOnly, ctxDone, stopping, ch, reserved, pc>>

-----------------------------------------------------------------------------
(* A worker: the lock of the row, then a place in flight, then the adapter. *)

TakeKey(i) ==
  /\ pc[i] = "key" /\ owner[KeyOf[i]] = Nobody
  /\ owner' = [owner EXCEPT ![KeyOf[i]] = i]
  /\ pc' = [pc EXCEPT ![i] = "slot"]
  /\ UNCHANGED <<workOnly, reserved, slots, at, did, answer, proc, servers, port>>

(* storeResult, after which the worker lets go of what it holds.            *)
Answer(i, said) ==
  /\ answer' = [answer EXCEPT ![i] = said]
  /\ pc' = [pc EXCEPT ![i] = "release"]

TakeSlot(i) ==
  /\ pc[i] = "slot"
  /\ \/ /\ Cardinality(slots) < MaxInFlight
        /\ slots' = slots \cup {i} /\ pc' = [pc EXCEPT ![i] = "enter"]
        /\ UNCHANGED answer
     \/ ctxDone /\ Answer(i, "error") /\ UNCHANGED slots
  /\ UNCHANGED <<workOnly, reserved, owner, at, did, proc, servers, port>>

Enter(i) ==
  /\ pc[i] = "enter"
  /\ \/ /\ ~ctxDone
        /\ pc' = [pc EXCEPT ![i] = "work"] /\ at' = [at EXCEPT ![i] = 1]
        /\ UNCHANGED answer
     \/ ctxDone /\ Answer(i, "error") /\ UNCHANGED at
  /\ UNCHANGED <<workOnly, reserved, owner, slots, did, proc, servers, port>>

(* Mutant: a kill gives back a ticket it never took.                       *)
ReleaseWithTicket(i) ==
  /\ pc[i] = "release" /\ pc' = [pc EXCEPT ![i] = "done"]
  /\ owner' = [owner EXCEPT ![KeyOf[i]] = Nobody] /\ slots' = slots \ {i}
  /\ reserved' = IF reserved = 0 THEN reserved ELSE reserved - 1
  /\ UNCHANGED <<workOnly, at, did, answer, proc, servers, port>>

(* Mutant: the lock of the row is never given back.                        *)
ReleaseKeepsRow(i) ==
  /\ pc[i] = "release" /\ pc' = [pc EXCEPT ![i] = "done"]
  /\ slots' = slots \ {i}
  /\ reserved' = IF Kill(i) \/ reserved = 0 THEN reserved ELSE reserved - 1
  /\ UNCHANGED <<workOnly, owner, at, did, answer, proc, servers, port>>

(* The deferred unlocks, the ticket of a data intent and the end of the     *)
(* goroutine.                                                               *)
Release(i) ==
  /\ pc[i] = "release" /\ pc' = [pc EXCEPT ![i] = "done"]
  /\ owner' = [owner EXCEPT ![KeyOf[i]] = Nobody] /\ slots' = slots \ {i}
  /\ reserved' = IF Kill(i) \/ reserved = 0 THEN reserved ELSE reserved - 1
  /\ UNCHANGED <<workOnly, at, did, answer, proc, servers, port>>

-----------------------------------------------------------------------------
(* The adapters. A step takes effect and the next one follows, or it fails  *)
(* and the rest is not done.                                                *)

Stands(i, step) == pc[i] = "work" /\ StepsOf(i)[at[i]] = step
OnLast(i) == at[i] = Len(StepsOf(i))

Succeeds(i) ==
  /\ did' = [did EXCEPT ![i] = @ \cup {StepsOf(i)[at[i]]}]
  /\ IF OnLast(i) THEN Answer(i, "ok") /\ UNCHANGED at
     ELSE /\ at' = [at EXCEPT ![i] = @ + 1]
          /\ UNCHANGED <<answer, pc>>
Skips(i) == /\ at' = [at EXCEPT ![i] = @ + 1]
            /\ UNCHANGED <<did, answer, pc>>

(* Mutant: a failed step is passed over.                                   *)
SkipsFailed(i) ==
  IF OnLast(i) THEN Answer(i, "ok") /\ UNCHANGED <<did, at>> ELSE Skips(i)

Fails(i) == Answer(i, "error") /\ UNCHANGED <<did, at>>

Attempt(i, step) ==
  /\ Stands(i, step) /\ (Succeeds(i) \/ Fails(i))
  /\ UNCHANGED <<workOnly, reserved, owner, slots, proc, servers, port>>

(* The capsule, the git worktree, the command line of the runtime that is   *)
(* started and not waited for, the sidecar of the child, the merge, and     *)
(* every operation that is one command or one preference.                   *)
WriteCapsule(i)    == Attempt(i, "capsule")
AddWorktree(i)     == Attempt(i, "worktree")
StartCLI(i)        == Attempt(i, "spawn")
WriteSidecar(i)    == Attempt(i, "sidecar")
MergeWorktrees(i)  == Attempt(i, "git")
Call(i)            == Attempt(i, "call")

(* A merge tells the parent: a runtime that cannot be told gets a note, and *)
(* whether the note could be written is not looked at.                      *)
Tell(i) ==
  /\ Stands(i, "tell")
  /\ \/ /\ did' = [did EXCEPT ![i] = @ \cup {"tell"}]
        /\ Answer(i, "ok") /\ UNCHANGED at
     \/ Fails(i)
     \/ Skips(i)
  /\ UNCHANGED <<workOnly, reserved, owner, slots, proc, servers, port>>
Note(i) ==
  /\ Stands(i, "note")
  /\ Succeeds(i) \/ (Answer(i, "ok") /\ UNCHANGED <<did, at>>)
  /\ UNCHANGED <<workOnly, reserved, owner, slots, proc, servers, port>>

(* The packing gate, which refuses or lets pass.                            *)
PackGate(i) == Attempt(i, "pack")

(* The first port nothing listens on. New leaves UsedPorts nil, so that     *)
(* servers on their way up are not seen.                                    *)
Listening(p) == \E s \in servers : s.port = p /\ s.up
FreePorts == {p \in Ports : ~Listening(p)}
NextPort(i) ==
  /\ Stands(i, "port")
  /\ \/ /\ FreePorts # {}
        /\ port' = [port EXCEPT ![i] = Min(FreePorts)] /\ Succeeds(i)
     \/ FreePorts = {} /\ Fails(i) /\ UNCHANGED port
  /\ UNCHANGED <<workOnly, reserved, owner, slots, proc, servers>>

(* systemd-run, which returns before the server listens.                    *)
StartUnit(i) ==
  /\ Stands(i, "unit")
  /\ \/ /\ servers' = servers \cup {[by |-> i, port |-> port[i], up |-> FALSE]}
        /\ Succeeds(i)
     \/ Fails(i) /\ UNCHANGED servers
  /\ UNCHANGED <<workOnly, reserved, owner, slots, proc, port>>

(* A server listens, or finds its port taken and ends.                      *)
Listen(s) ==
  /\ ~s.up
  /\ servers' = (servers \ {s}) \cup
                (IF Listening(s.port) THEN {} ELSE {[s EXCEPT !.up = TRUE]})
  /\ UNCHANGED <<workOnly, reserved, owner, slots, pc, at, did, answer, proc, port>>

(* act.Kill: a pid that is gone or was given to another process is refused. *)
Look(i) ==
  /\ Stands(i, "look")
  /\ IF proc[KeyOf[i]] = "same" THEN Skips(i) ELSE Fails(i)
  /\ UNCHANGED <<workOnly, reserved, owner, slots, proc, servers, port>>
(* SIGINT and SIGTERM reach whoever has the pid by then.                    *)
Signal(i) ==
  /\ Stands(i, "int") \/ Stands(i, "term")
  /\ IF proc[KeyOf[i]] = "gone" THEN Fails(i) ELSE Succeeds(i)
  /\ UNCHANGED <<workOnly, reserved, owner, slots, proc, servers, port>>
(* The grace ends when the process does or with its time.                   *)
Grace(i) ==
  /\ Stands(i, "grace") /\ Skips(i)
  /\ UNCHANGED <<workOnly, reserved, owner, slots, proc, servers, port>>

StillSame(i) ==
  /\ Stands(i, "last")
  /\ IF proc[KeyOf[i]] = "same" THEN Skips(i)
     ELSE Answer(i, "ok") /\ UNCHANGED <<did, at>>
  /\ UNCHANGED <<workOnly, reserved, owner, slots, proc, servers, port>>

(* The process ends, and the system gives its pid to another; followed      *)
(* while a kill of the row is underway.                                     *)
ProcessEnds(i) ==
  /\ Kill(i) /\ proc[KeyOf[i]] # "reused"
  /\ proc' = [proc EXCEPT ![KeyOf[i]] = IF @ = "same" THEN "gone" ELSE "reused"]
  /\ UNCHANGED <<workOnly, reserved, owner, slots, pc, at, did, answer, servers, port>>

Work(i) ==
  \/ WriteCapsule(i) \/ AddWorktree(i) \/ StartCLI(i) \/ WriteSidecar(i)
  \/ MergeWorktrees(i) \/ Tell(i) \/ Note(i) \/ Call(i)
  \/ PackGate(i) \/ NextPort(i) \/ StartUnit(i)
  \/ Look(i) \/ Signal(i) \/ Grace(i) \/ StillSame(i)
Worker(i) == TakeKey(i) \/ TakeSlot(i) \/ Enter(i) \/ Release(i)
Loop == Receive \/ SeeCancel \/ Drain \/ Return \/ \E i \in Intents : Hand(i)

Next ==
  \/ Start \/ Cancel \/ Loop
  \/ \E i \in Intents : Enqueue(i) \/ EnqueueKill(i) \/ Send(i) \/ Worker(i) \/ Work(i)
  \/ \E s \in servers : Listen(s)
  \/ \E i \in Working : ProcessEnds(i)

(* Run and the workers go on; an adapter returns unless it is wedged.       *)
ActorSpec ==
  /\ Init /\ [][Next]_actorVars
  /\ WF_actorVars(Loop)
  /\ \A i \in Intents : WF_actorVars(Send(i)) /\ WF_actorVars(Worker(i))
  /\ \A i \in Intents \ Wedged : WF_actorVars(Work(i))

-----------------------------------------------------------------------------

ActorTypeOK ==
  /\ ctxDone \in BOOLEAN /\ stopping \in BOOLEAN
  /\ run \in {"new", "loop", "hold", "drain", "wait", "stopped"}
  /\ ch \in Seq(Intents) /\ Len(ch) <= Bound
  /\ reserved \in 0..Bound
  /\ owner \in [Keys -> Intents \cup {Nobody}] /\ slots \subseteq Intents
  /\ pc \in [Intents -> {"idle", "ticket", "queued", "taken", "key", "slot", "enter",
                         "work", "release", "done", "dropped", "refused"}]
  /\ \A i \in Intents : /\ at[i] \in 0..Len(StepsOf(i))
                        /\ did[i] \subseteq ToSet(StepsOf(i))
  /\ answer \in [Intents -> {"none", "ok", "error"}]
  /\ proc \in [Keys -> {"same", "gone", "reused"}]
  /\ \A s \in servers : s.by \in Intents /\ s.port \in Ports /\ s.up \in BOOLEAN
  /\ port \in [Intents -> Ports \cup {0}]

(* "Two intents for the same row cannot overlap" (enqueueConfirmedKill),   *)
(* a confirmed kill that went around the queue included, and no more than  *)
(* maxInFlight are at an adapter.                                          *)
OneAtATime ==
  /\ \A i, j \in {k \in Intents : pc[k] \in {"slot", "enter", "work"}} :
       KeyOf[i] = KeyOf[j] => i = j
  /\ {i \in Intents : pc[i] \in {"enter", "work"}} \subseteq slots
  /\ Cardinality(slots) <= MaxInFlight

(* Every ticket belongs to one data intent that is underway, through       *)
(* drops, cancelations and kills, which hold none. So the queue has room   *)
(* for whoever holds a ticket, and Enqueue never blocks the interface.     *)
TicketsExact ==
  /\ reserved = Cardinality(Ticketed)
  /\ \A i \in Intents : pc[i] = "ticket" => Len(ch) < Bound

(* When Run has returned no worker is left, and none starts: not even for  *)
(* a kill that goes around the queue while Run stops.                      *)
QuietAfterRun == run = "stopped" => Working = {}

(* Workers keep to their rows, their places and the time of Run.           *)
WorkersBounded == OneAtATime /\ QuietAfterRun

(* The books of the queue: types, bounds and tickets.                      *)
IntentBooks == ActorTypeOK /\ TicketsExact

(* "Missing method returns an error the footer shows; it does not no-op"   *)
(* (the control design): an intent that is answered without an error did   *)
(* all of its steps, and a kill left no live process without the SIGTERM.  *)
OkMeansDone ==
  \A i \in Intents : answer[i] = "ok" =>
    CASE OpOf[i] = "merge" -> "git" \in did[i]
      [] OpOf[i] = "kill"  -> /\ "int" \in did[i]
                              /\ "term" \in did[i] \/ proc[KeyOf[i]] # "same"
      [] OTHER -> did[i] = ToSet(StepsOf(i))

(* Waiting for an adapter that hangs: in it, for its row, or for a place   *)
(* when all of them are taken by such adapters.                            *)
Ended(i) == pc[i] \in {"idle", "done", "dropped", "refused"}
TooLate(i) == pc[i] = "queued" /\ run \in {"wait", "stopped"}
Hangs(i) == i \in Wedged /\ pc[i] = "work"
Stuck(i) == \/ Hangs(i)
            \/ pc[i] = "key" /\ \E j \in Wedged : Hangs(j) /\ owner[KeyOf[i]] = j
            \/ /\ pc[i] = "slot" /\ Cardinality(slots) = MaxInFlight
               /\ \A j \in slots : Hangs(j)

(* Adapters ignore the context, so one that hangs keeps its row, its place *)
(* and the return of Run. Everything else goes on around it: every intent  *)
(* the queue took is answered or dropped, unless it came after Run had     *)
(* emptied the queue for the last time; a confirmed kill on a free row     *)
(* gets to its adapter while a place is left ("a wedged occupancy board    *)
(* (queue full, adapters blocked) can still SIGINT", enqueueConfirmedKill);*)
(* and Run returns.                                                        *)
EverythingEnds ==
  /\ <>[](\A i \in Intents : Ended(i) \/ TooLate(i) \/ Stuck(i))
  /\ ctxDone ~> (run = "stopped" \/ \E i \in Intents : Hangs(i))
=============================================================================
