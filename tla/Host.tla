--------------------------------- MODULE Host ---------------------------------
(* The interactive program: main, the supervisor and its two tasks, the     *)
(* shadow graph with its store and registry, the collectors, the engine and *)
(* the terminal program, from the first task to the exit code.              *)
EXTENDS Integers, FiniteSets

CONSTANTS
  Sources,   (* the collectors of the registry                              *)
  CapsOf,    (* source -> capabilities of its descriptor                    *)
  NoCap      (* the empty capability                                        *)

ASSUME HostAssumption ==
  \A k \in Sources : IsFiniteSet(CapsOf[k]) /\ NoCap \notin CapsOf[k]

Tasks    == {"actor", "graph"}
Children == {"store", "registry"}
Errors   == {"nil", "canceled", "failed"}
AllCaps  == (UNION {CapsOf[k] : k \in Sources}) \cup {NoCap}

(* A collector without capabilities is still owed one gap.                  *)
Gaps(k) == IF CapsOf[k] = {} THEN {NoCap} ELSE CapsOf[k]

VARIABLES
  main,       (* where runInteractive is                                    *)
  runErr,     (* what RunInteractive or the registration returned           *)
  code,       (* the exit code, -1 while there is none                      *)
  signaled,   (* the context of main is canceled                            *)
  state,      (* Supervisor.state                                           *)
  canceled,   (* Supervisor.cancel was called                               *)
  task, taskErr,     (* task -> where it is and what it returned             *)
  failures,   (* Supervisor.failures: names                                 *)
  childCanceled,     (* cancel of the context of Shadow.Run                  *)
  child, childErr,   (* child -> where it is and its error                   *)
  source, sourceErr, (* collector -> where it is and what its Run returned   *)
  class,      (* the diagnostic of its health                               *)
  owed,       (* terminal gaps not published yet                            *)
  told,       (* terminal gaps the store accepted                           *)
  infra,      (* collectors whose gaps the store refused                    *)
  engine      (* the loops of the engine                                    *)

mainVars   == <<main, runErr, code, signaled>>
supVars    == <<state, canceled, failures>>
taskVars   == <<task, taskErr>>
shadowVars == <<childCanceled, child, childErr>>
sourceVars == <<source, sourceErr, class, owed, told, infra>>
hostVars   == <<mainVars, supVars, taskVars, shadowVars, sourceVars, engine>>

(* Contexts: a child is done with its parent.                               *)
SupDone   == signaled \/ canceled
ChildDone == SupDone \/ childCanceled

HostInit ==
  /\ main = "register" /\ runErr = "nil" /\ code = -1 /\ signaled = FALSE
  /\ state = "open" /\ canceled = FALSE /\ failures = {}
  /\ task = [t \in Tasks |-> "none"] /\ taskErr = [t \in Tasks |-> "nil"]
  /\ childCanceled = FALSE
  /\ child = [c \in Children |-> "none"] /\ childErr = [c \in Children |-> "nil"]
  /\ source = [k \in Sources |-> "pending"] /\ sourceErr = [k \in Sources |-> "nil"]
  /\ class = [k \in Sources |-> "none"] /\ owed = [k \in Sources |-> {}]
  /\ told = [k \in Sources |-> {}] /\ infra = {} /\ engine = "off"

-----------------------------------------------------------------------------
(* Main.                                                                    *)

(* The signals of NotifyContext.                                            *)
SignalComes ==
  /\ main # "exit" /\ ~signaled /\ signaled' = TRUE
  /\ UNCHANGED <<main, runErr, code, supVars, taskVars, shadowVars, sourceVars, engine>>

(* Supervisor.Go: refused once the context is done.                         *)
Go(t, next) ==
  \/ /\ state = "open" /\ ~SupDone /\ task[t] = "none"
     /\ task' = [task EXCEPT ![t] = "running"] /\ main' = next /\ UNCHANGED runErr
  \/ /\ ~(state = "open" /\ ~SupDone /\ task[t] = "none")
     /\ runErr' = "failed" /\ main' = "shutdown" /\ UNCHANGED task

RegisterActor ==
  /\ main = "register" /\ Go("actor", "attach")
  /\ UNCHANGED <<code, signaled, supVars, taskErr, shadowVars, sourceVars, engine>>

Attach ==
  /\ main = "attach"
  /\ \/ main' = "start" /\ UNCHANGED runErr
     \/ main' = "shutdown" /\ runErr' = "failed"
  /\ UNCHANGED <<code, signaled, supVars, taskVars, shadowVars, sourceVars, engine>>

EngineStart ==
  /\ main = "start" /\ main' = "graph" /\ engine' = "running"
  /\ UNCHANGED <<runErr, code, signaled, supVars, taskVars, shadowVars, sourceVars>>

RegisterGraph ==
  /\ main = "graph" /\ Go("graph", "ui")
  /\ UNCHANGED <<code, signaled, supVars, taskErr, shadowVars, sourceVars, engine>>

(* The terminal program ends when the user quits, when it fails, and with   *)
(* an error when its context is done.                                       *)
UIQuits ==
  /\ main = "ui" /\ main' = "shutdown"
  /\ runErr' \in {"nil", "failed"}
  /\ UNCHANGED <<code, signaled, supVars, taskVars, shadowVars, sourceVars, engine>>

UIKilled ==
  /\ main = "ui" /\ SupDone /\ main' = "shutdown" /\ runErr' = "failed"
  /\ UNCHANGED <<code, signaled, supVars, taskVars, shadowVars, sourceVars, engine>>

ShutdownBegins ==
  /\ main = "shutdown" /\ main' = "wait"
  /\ state' = "stopping" /\ canceled' = TRUE
  /\ UNCHANGED <<runErr, code, signaled, failures, taskVars, shadowVars, sourceVars, engine>>

ExitCode == IF runErr # "nil" \/ failures # {} THEN 1 ELSE 0

(* wg.Wait, the frozen result, and the exit code of runInteractive.         *)
ShutdownEnds ==
  /\ main = "wait" /\ \A t \in Tasks : task[t] \in {"none", "done"}
  /\ state' = "stopped" /\ main' = "exit" /\ code' = ExitCode
  /\ UNCHANGED <<runErr, signaled, canceled, failures, taskVars, shadowVars, sourceVars, engine>>

(* The loops of the engine, which Shutdown does not wait for.               *)
EngineEnds ==
  /\ engine = "running" /\ SupDone /\ main # "exit" /\ engine' = "ended"
  /\ UNCHANGED <<mainVars, supVars, taskVars, shadowVars, sourceVars>>

-----------------------------------------------------------------------------
(* The tasks of the supervisor.                                             *)

ActorReturns ==
  /\ task["actor"] = "running" /\ SupDone
  /\ task' = [task EXCEPT !["actor"] = "returned"]
  /\ taskErr' = [taskErr EXCEPT !["actor"] = "canceled"]
  /\ UNCHANGED <<mainVars, supVars, shadowVars, sourceVars, engine>>

(* Mutant: every error after the cancellation is suppressed.               *)
Suppressed(t) == taskErr[t] = "nil" \/ SupDone

(* record: only the supervisor's own cancellation is no failure.            *)
OwnCancel(t) == taskErr[t] = "nil" \/ (SupDone /\ taskErr[t] = "canceled")

Record(t) ==
  /\ task[t] = "returned" /\ task' = [task EXCEPT ![t] = "done"]
  /\ failures' = IF OwnCancel(t) THEN failures ELSE failures \cup {t}
  /\ UNCHANGED <<mainVars, state, canceled, taskErr, shadowVars, sourceVars, engine>>

-----------------------------------------------------------------------------
(* Shadow.Run.                                                              *)

ShadowStarts ==
  /\ task["graph"] = "running" /\ child["store"] = "none"
  /\ child' = [c \in Children |-> "running"]
  /\ UNCHANGED <<mainVars, supVars, taskVars, childCanceled, childErr, sourceVars, engine>>

(* Store.Run stops, canceled or by an error, and refuses what comes then.   *)
StoreStops ==
  /\ child["store"] = "running" /\ child' = [child EXCEPT !["store"] = "stopping"]
  /\ \/ ChildDone /\ UNCHANGED childErr
     \/ childErr' = [childErr EXCEPT !["store"] = "failed"]
  /\ UNCHANGED <<mainVars, supVars, taskVars, childCanceled, sourceVars, engine>>

StoreReturns ==
  /\ child["store"] = "stopping" /\ child' = [child EXCEPT !["store"] = "returned"]
  /\ UNCHANGED <<mainVars, supVars, taskVars, childCanceled, childErr, sourceVars, engine>>

RegistryReturns ==
  /\ child["registry"] = "running" /\ \A k \in Sources : source[k] = "stopped"
  /\ child' = [child EXCEPT !["registry"] = "returned"]
  /\ childErr' = [childErr EXCEPT !["registry"] = IF infra = {} THEN "nil" ELSE "failed"]
  /\ UNCHANGED <<mainVars, supVars, taskVars, childCanceled, sourceVars, engine>>

(* shadowNormalizeChildError: what is only a cancellation becomes nil.      *)
Normalized(c) == IF ChildDone /\ childErr[c] = "canceled" THEN "nil" ELSE childErr[c]

(* Mutant: a child that failed leaves the other running.                   *)
ChildFinishesAlone(c) ==
  /\ child[c] = "returned" /\ child' = [child EXCEPT ![c] = "handled"]
  /\ childErr' = [childErr EXCEPT ![c] = Normalized(c)]
  /\ UNCHANGED <<mainVars, supVars, taskVars, childCanceled, sourceVars, engine>>

(* A child that failed cancels the other.                                   *)
ChildFinishes(c) ==
  /\ child[c] = "returned" /\ child' = [child EXCEPT ![c] = "handled"]
  /\ childErr' = [childErr EXCEPT ![c] = Normalized(c)]
  /\ childCanceled' = (childCanceled \/ Normalized(c) # "nil")
  /\ UNCHANGED <<mainVars, supVars, taskVars, sourceVars, engine>>

GraphReturns ==
  /\ task["graph"] = "running" /\ \A c \in Children : child[c] = "handled"
  /\ task' = [task EXCEPT !["graph"] = "returned"]
  /\ taskErr' = [taskErr EXCEPT !["graph"] =
                   IF \A c \in Children : childErr[c] = "nil" THEN "nil" ELSE "failed"]
  /\ childCanceled' = TRUE
  /\ UNCHANGED <<mainVars, supVars, child, childErr, sourceVars, engine>>

-----------------------------------------------------------------------------
(* Registry.runCollector.                                                   *)

SourceStarts(k) ==
  /\ child["registry"] = "running" /\ source[k] = "pending"
  /\ source' = [source EXCEPT ![k] = "running"]
  /\ UNCHANGED <<mainVars, supVars, taskVars, shadowVars, sourceErr, class, owed, told, infra,
                 engine>>

(* With its context done, or on its own.                                    *)
SourceReturns(k) ==
  /\ source[k] = "running" /\ source' = [source EXCEPT ![k] = "returned"]
  /\ \/ ChildDone /\ sourceErr' = [sourceErr EXCEPT ![k] = "canceled"]
     \/ \E e \in {"nil", "failed"} : sourceErr' = [sourceErr EXCEPT ![k] = e]
  /\ UNCHANGED <<mainVars, supVars, taskVars, shadowVars, class, owed, told, infra, engine>>

(* The context is asked once, whatever Run returned.                        *)
Sampled(k) ==
  /\ source[k] = "returned"
  /\ \/ /\ ChildDone
        /\ source' = [source EXCEPT ![k] = "stopped"] /\ UNCHANGED <<class, owed>>
     \/ /\ ~ChildDone
        /\ source' = [source EXCEPT ![k] = "gaps"]
        /\ class' = [class EXCEPT ![k] = IF sourceErr[k] = "nil" THEN "return" ELSE "error"]
        /\ owed' = [owed EXCEPT ![k] = Gaps(k)]
  /\ UNCHANGED <<mainVars, supVars, taskVars, shadowVars, sourceErr, told, infra, engine>>

(* Mutant: one gap is told for all capabilities.                           *)
PublishOneGap(k) ==
  /\ source[k] = "gaps" /\ child["store"] \in {"none", "running"}
  /\ \E g \in owed[k] :
       /\ told' = [told EXCEPT ![k] = @ \cup {g}] /\ owed' = [owed EXCEPT ![k] = {}]
       /\ source' = [source EXCEPT ![k] = "stopped"]
  /\ UNCHANGED <<mainVars, supVars, taskVars, shadowVars, sourceErr, class, infra, engine>>

(* processTerminal: one gap after the other, while the store takes them.    *)
PublishGap(k) ==
  /\ source[k] = "gaps" /\ child["store"] \in {"none", "running"}
  /\ \E g \in owed[k] :
       /\ told' = [told EXCEPT ![k] = @ \cup {g}] /\ owed' = [owed EXCEPT ![k] = @ \ {g}]
       /\ source' = IF owed[k] = {g} THEN [source EXCEPT ![k] = "stopped"] ELSE source
  /\ UNCHANGED <<mainVars, supVars, taskVars, shadowVars, sourceErr, class, infra, engine>>

PublishRefused(k) ==
  /\ source[k] = "gaps" /\ child["store"] \notin {"none", "running"}
  /\ source' = [source EXCEPT ![k] = "stopped"]
  /\ class' = [class EXCEPT ![k] = "sink"] /\ infra' = infra \cup {k}
  /\ UNCHANGED <<mainVars, supVars, taskVars, shadowVars, sourceErr, owed, told, engine>>

-----------------------------------------------------------------------------

HostNext ==
  \/ SignalComes \/ RegisterActor \/ Attach \/ EngineStart \/ RegisterGraph
  \/ UIQuits \/ UIKilled \/ ShutdownBegins \/ ShutdownEnds \/ EngineEnds
  \/ ActorReturns \/ \E t \in Tasks : Record(t)
  \/ ShadowStarts \/ StoreStops \/ StoreReturns \/ RegistryReturns
  \/ \E c \in Children : ChildFinishes(c)
  \/ GraphReturns
  \/ \E k \in Sources : \/ SourceStarts(k) \/ SourceReturns(k) \/ Sampled(k)
                        \/ PublishGap(k) \/ PublishRefused(k)

HostSpec == HostInit /\ [][HostNext]_hostVars

(* Everything that is not the user, the system or a fault goes on: main,    *)
(* what returns when its context is done, and the goroutines after it. The  *)
(* actor only returns when no adapter hangs (Actor!EverythingEnds).         *)
HostFairness ==
  /\ WF_hostVars(RegisterActor) /\ WF_hostVars(Attach) /\ WF_hostVars(EngineStart)
  /\ WF_hostVars(RegisterGraph) /\ WF_hostVars(UIKilled)
  /\ WF_hostVars(ShutdownBegins) /\ WF_hostVars(ShutdownEnds)
  /\ WF_hostVars(ActorReturns) /\ \A t \in Tasks : WF_hostVars(Record(t))
  /\ WF_hostVars(ShadowStarts) /\ WF_hostVars(ChildDone /\ StoreStops)
  /\ WF_hostVars(StoreReturns) /\ WF_hostVars(RegistryReturns)
  /\ \A c \in Children : WF_hostVars(ChildFinishes(c))
  /\ WF_hostVars(GraphReturns)
  /\ \A k \in Sources : /\ WF_hostVars(SourceStarts(k)) /\ WF_hostVars(Sampled(k))
                        /\ WF_hostVars(ChildDone /\ SourceReturns(k))
                        /\ WF_hostVars(PublishGap(k) \/ PublishRefused(k))

FairHostSpec == HostSpec /\ HostFairness

-----------------------------------------------------------------------------
(* Properties.                                                              *)

(* Every variable keeps its type.                                           *)
HostTypeOK ==
  /\ main \in {"register", "attach", "start", "graph", "ui", "shutdown", "wait", "exit"}
  /\ runErr \in {"nil", "failed"} /\ code \in {-1, 0, 1} /\ signaled \in BOOLEAN
  /\ state \in {"open", "stopping", "stopped"} /\ canceled \in BOOLEAN
  /\ failures \subseteq Tasks
  /\ task \in [Tasks -> {"none", "running", "returned", "done"}]
  /\ taskErr \in [Tasks -> Errors]
  /\ childCanceled \in BOOLEAN
  /\ child \in [Children -> {"none", "running", "stopping", "returned", "handled"}]
  /\ childErr \in [Children -> Errors]
  /\ source \in [Sources -> {"pending", "running", "returned", "gaps", "stopped"}]
  /\ sourceErr \in [Sources -> Errors]
  /\ class \in [Sources -> {"none", "return", "error", "sink"}]
  /\ owed \in [Sources -> SUBSET AllCaps] /\ told \in [Sources -> SUBSET AllCaps]
  /\ infra \subseteq Sources /\ engine \in {"off", "running", "ended"}

(* When the program exits no goroutine of a task, the store, the registry   *)
(* or a collector runs any more, and exit code 0 means that none of them    *)
(* failed: not the store, even while it was being canceled, and not a       *)
(* collector that could not tell its gaps, which the registry reports only  *)
(* when the last of the others has returned.                                *)
ExitHonest ==
  main = "exit" =>
    /\ \A t \in Tasks : task[t] \in {"none", "done"}
    /\ \A c \in Children : child[c] \in {"none", "handled"}
    /\ \A k \in Sources : source[k] \in {"pending", "stopped"}
    /\ code = 0 => /\ \A c \in Children : childErr[c] = "nil"
                   /\ infra = {} /\ failures = {}

(* The exit is honest, and everything up to it has its type.                *)
HostInOrder == HostTypeOK /\ ExitHonest

(* A collector whose health says that it stopped while the graph ran has    *)
(* told a gap for each of its capabilities; one that was canceled has told  *)
(* none, and one the store refused is an error of the registry.             *)
GapsTold ==
  \A k \in Sources : source[k] = "stopped" =>
    /\ class[k] = "none" => told[k] = {}
    /\ class[k] \in {"return", "error"} => told[k] = Gaps(k)
    /\ class[k] = "sink" <=> k \in infra

(* Whatever happens, a signal or the end of the terminal program ends the   *)
(* process, and a store that failed ends the whole graph.                   *)
EverythingStops ==
  /\ (signaled \/ main = "shutdown") ~> (main = "exit")
  /\ (childErr["store"] = "failed") ~> (task["graph"] = "done")
=============================================================================
