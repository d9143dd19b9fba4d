---------------------------- MODULE ProgramProofs ----------------------------
(* Proofs about the interactive program as it starts and ends (Host), for   *)
(* every set of collectors and every set of capabilities of each, and about *)
(* the control plane it runs (Actor), for every set of intents, bound of    *)
(* the queue, number of places and set of ports.                            *)
EXTENDS Host, Actor, FiniteSetTheorems, WellFoundedInduction, TLAPS

-----------------------------------------------------------------------------
(* Host: the inductive invariant.                                           *)

(* What a collector told, owes and reports at each place of runCollector.   *)
SourceAgrees(k) ==
  /\ source[k] \in {"pending", "running", "returned"} =>
       class[k] = "none" /\ told[k] = {} /\ owed[k] = {} /\ k \notin infra
  /\ source[k] = "gaps" =>
       class[k] \in {"return", "error"} /\ told[k] \cup owed[k] = Gaps(k) /\ k \notin infra
  /\ source[k] = "stopped" =>
       /\ class[k] = "none" => told[k] = {}
       /\ class[k] \in {"return", "error"} => told[k] = Gaps(k)
       /\ class[k] = "sink" <=> k \in infra

SourcesAgree == \A k \in Sources : SourceAgrees(k)

(* The registry and its collectors.                                         *)
RegistryAgrees ==
  /\ child["registry"] # "stopping"
  /\ child["registry"] = "none" => \A k \in Sources : source[k] = "pending"
  /\ child["registry"] \in {"returned", "handled"} => \A k \in Sources : source[k] = "stopped"
  /\ child["registry"] \in {"returned", "handled"} /\ infra # {} =>
       childErr["registry"] = "failed"

(* Shadow.Run, its children and the errors they leave.                      *)
ShadowAgrees ==
  /\ child["store"] = "none" <=> child["registry"] = "none"
  /\ task["graph"] = "none" => \A c \in Children : child[c] = "none"
  /\ task["graph"] \in {"returned", "done"} => \A c \in Children : child[c] = "handled"
  /\ \A c \in Children : childErr[c] \in {"nil", "failed"}
  /\ \A c \in Children : child[c] \in {"none", "running"} => childErr[c] = "nil"

(* The supervisor and what it records of the graph.                         *)
GraphAgrees ==
  /\ taskErr["graph"] \in {"nil", "failed"}
  /\ task["graph"] \in {"returned", "done"} /\ taskErr["graph"] = "nil" =>
       \A c \in Children : childErr[c] = "nil"
  /\ task["graph"] = "done" /\ taskErr["graph"] = "failed" => "graph" \in failures

(* Once main left the wait, nothing it waited for changes.                  *)
ExitAgrees ==
  main = "exit" => (\A t \in Tasks : task[t] \in {"none", "done"}) /\ code = ExitCode

HostInv ==
  HostTypeOK /\ SourcesAgree /\ RegistryAgrees /\ ShadowAgrees /\ GraphAgrees /\ ExitAgrees

-----------------------------------------------------------------------------
(* The types.                                                               *)

(* The initial state has its types.                                         *)
LEMMA HostInitTyped == HostInit => HostTypeOK
<1> SUFFICES ASSUME HostInit PROVE HostTypeOK
  OBVIOUS
<1> USE DEF HostInit, Tasks, Children, Errors
<1>1. signaled \in BOOLEAN /\ canceled \in BOOLEAN /\ childCanceled \in BOOLEAN
  OBVIOUS
<1>2. /\ task \in [Tasks -> {"none", "running", "returned", "done"}]
      /\ taskErr \in [Tasks -> Errors]
      /\ child \in [Children -> {"none", "running", "stopping", "returned", "handled"}]
      /\ childErr \in [Children -> Errors]
  OBVIOUS
<1>3. /\ source \in [Sources -> {"pending", "running", "returned", "gaps", "stopped"}]
      /\ sourceErr \in [Sources -> Errors]
      /\ class \in [Sources -> {"none", "return", "error", "sink"}]
      /\ owed \in [Sources -> SUBSET AllCaps]
      /\ told \in [Sources -> SUBSET AllCaps]
  OBVIOUS
<1>4. QED
  BY <1>1, <1>2, <1>3 DEF HostTypeOK

(* What a collector owes are capabilities of the registry.                  *)
LEMMA GapsAreCaps == ASSUME NEW k \in Sources PROVE Gaps(k) \subseteq AllCaps
<1>1. CapsOf[k] \in {CapsOf[j] : j \in Sources}
  OBVIOUS
<1>2. CapsOf[k] \subseteq UNION {CapsOf[j] : j \in Sources}
  BY <1>1
<1>3. QED
  BY <1>2 DEF Gaps, AllCaps

(* Every step keeps the types.                                              *)
LEMMA HostStepTyped == HostTypeOK /\ [HostNext]_hostVars => HostTypeOK'
<1> SUFFICES ASSUME HostTypeOK, [HostNext]_hostVars PROVE HostTypeOK'
  OBVIOUS
<1> USE DEF HostTypeOK, Tasks, Children, Errors,
            mainVars, supVars, taskVars, shadowVars, sourceVars, hostVars
<1>1. CASE SignalComes
  BY <1>1 DEF SignalComes
<1>2. CASE RegisterActor
  BY <1>2 DEF RegisterActor, Go
<1>3. CASE Attach
  BY <1>3 DEF Attach
<1>4. CASE EngineStart
  BY <1>4 DEF EngineStart
<1>5. CASE RegisterGraph
  BY <1>5 DEF RegisterGraph, Go
<1>6. CASE UIQuits
  BY <1>6 DEF UIQuits
<1>7. CASE UIKilled
  BY <1>7 DEF UIKilled
<1>8. CASE ShutdownBegins
  BY <1>8 DEF ShutdownBegins
<1>9. CASE ShutdownEnds
  BY <1>9 DEF ShutdownEnds, ExitCode
<1>10. CASE EngineEnds
  BY <1>10 DEF EngineEnds
<1>11. CASE ActorReturns
  BY <1>11 DEF ActorReturns
<1>12. CASE \E t \in Tasks : Record(t)
  BY <1>12 DEF Record
<1>13. CASE ShadowStarts
  BY <1>13 DEF ShadowStarts
<1>14. CASE StoreStops
  BY <1>14 DEF StoreStops
<1>15. CASE StoreReturns
  BY <1>15 DEF StoreReturns
<1>16. CASE RegistryReturns
  BY <1>16 DEF RegistryReturns
<1>17. CASE \E c \in Children : ChildFinishes(c)
  BY <1>17 DEF ChildFinishes, Normalized
<1>18. CASE GraphReturns
  BY <1>18 DEF GraphReturns
<1>19. CASE \E k \in Sources : SourceStarts(k)
  BY <1>19 DEF SourceStarts
<1>20. CASE \E k \in Sources : SourceReturns(k)
  BY <1>20 DEF SourceReturns
<1>21. CASE \E k \in Sources : Sampled(k)
  BY <1>21, GapsAreCaps DEF Sampled
<1>22. CASE \E k \in Sources : PublishGap(k)
  BY <1>22 DEF PublishGap
<1>23. CASE \E k \in Sources : PublishRefused(k)
  BY <1>23 DEF PublishRefused
<1>24. CASE UNCHANGED hostVars
  BY <1>24 DEF hostVars
<1>25. QED
  BY <1>1, <1>2, <1>3, <1>4, <1>5, <1>6, <1>7, <1>8, <1>9, <1>10, <1>11, <1>12, <1>13,
     <1>14, <1>15, <1>16, <1>17, <1>18, <1>19, <1>20, <1>21, <1>22, <1>23, <1>24 DEF HostNext

-----------------------------------------------------------------------------
(* The collectors.                                                          *)

(* A step of a collector.                                                   *)
SourceStep(k) ==
  SourceStarts(k) \/ SourceReturns(k) \/ Sampled(k) \/ PublishGap(k) \/ PublishRefused(k)

(* Nothing but a step of a collector changes what collectors told and owe.  *)
LEMMA OnlySources ==
  [HostNext]_hostVars => UNCHANGED sourceVars \/ \E k \in Sources : SourceStep(k)
BY DEF HostNext, hostVars, SourceStep, SignalComes, RegisterActor, Attach, EngineStart,
       RegisterGraph, UIQuits, UIKilled, ShutdownBegins, ShutdownEnds, EngineEnds,
       ActorReturns, Record, ShadowStarts, StoreStops, StoreReturns, RegistryReturns,
       ChildFinishes, GraphReturns

(* A step of a collector leaves what the others told and owe.               *)
LEMMA OthersKept ==
  ASSUME HostTypeOK, NEW k \in Sources, SourceStep(k), NEW j \in Sources, j # k
  PROVE  /\ source'[j] = source[j] /\ class'[j] = class[j] /\ owed'[j] = owed[j]
         /\ told'[j] = told[j] /\ (j \in infra' <=> j \in infra)
<1> USE DEF HostTypeOK
<1>1. CASE SourceStarts(k)
  BY <1>1 DEF SourceStarts
<1>2. CASE SourceReturns(k)
  BY <1>2 DEF SourceReturns
<1>3. CASE Sampled(k)
  BY <1>3 DEF Sampled
<1>4. CASE PublishGap(k)
  BY <1>4 DEF PublishGap
<1>5. CASE PublishRefused(k)
  BY <1>5 DEF PublishRefused
<1>6. QED
  BY <1>1, <1>2, <1>3, <1>4, <1>5 DEF SourceStep

(* What a collector tells and owes keeps agreeing with its place.           *)
LEMMA SourceKept ==
  ASSUME HostTypeOK, NEW k \in Sources, SourceStep(k), SourceAgrees(k)
  PROVE  SourceAgrees(k)'
<1> USE DEF HostTypeOK, SourceAgrees
<1>1. CASE SourceStarts(k)
  BY <1>1 DEF SourceStarts
<1>2. CASE SourceReturns(k)
  BY <1>2 DEF SourceReturns
<1>3. CASE Sampled(k)
  BY <1>3 DEF Sampled
<1>4. CASE PublishGap(k)
  <2>1. PICK g \in owed[k] :
          /\ told' = [told EXCEPT ![k] = @ \cup {g}] /\ owed' = [owed EXCEPT ![k] = @ \ {g}]
          /\ source' = IF owed[k] = {g} THEN [source EXCEPT ![k] = "stopped"] ELSE source
    BY <1>4 DEF PublishGap
  <2>2. /\ source[k] = "gaps" /\ class' = class /\ infra' = infra
        /\ told'[k] = told[k] \cup {g} /\ owed'[k] = owed[k] \ {g}
    BY <1>4, <2>1 DEF PublishGap
  <2>3. told'[k] \cup owed'[k] = Gaps(k)
    BY <2>2
  <2>4. CASE owed[k] = {g}
    <3>1. source'[k] = "stopped" /\ told'[k] = Gaps(k)
      BY <2>1, <2>2, <2>3, <2>4
    <3>2. QED
      BY <2>2, <3>1
  <2>5. CASE owed[k] # {g}
    BY <2>1, <2>2, <2>3, <2>5
  <2>6. QED
    BY <2>4, <2>5
<1>5. CASE PublishRefused(k)
  BY <1>5 DEF PublishRefused
<1>6. QED
  BY <1>1, <1>2, <1>3, <1>4, <1>5 DEF SourceStep

(* Every step keeps all collectors in agreement.                            *)
LEMMA SourcesKept ==
  ASSUME HostTypeOK, SourcesAgree, [HostNext]_hostVars PROVE SourcesAgree'
<1>1. CASE UNCHANGED sourceVars
  BY <1>1 DEF SourcesAgree, SourceAgrees, sourceVars
<1>2. ASSUME NEW k \in Sources, SourceStep(k) PROVE SourcesAgree'
  <2>1. SourceAgrees(k)'
    BY <1>2, SourceKept DEF SourcesAgree
  <2>2. ASSUME NEW j \in Sources, j # k PROVE SourceAgrees(j)'
    <3>1. /\ source'[j] = source[j] /\ class'[j] = class[j] /\ owed'[j] = owed[j]
          /\ told'[j] = told[j] /\ (j \in infra' <=> j \in infra)
      BY <1>2, <2>2, OthersKept
    <3>2. SourceAgrees(j)
      BY DEF SourcesAgree
    <3>3. QED
      BY <3>1, <3>2 DEF SourceAgrees
  <2>3. QED
    BY <2>1, <2>2 DEF SourcesAgree
<1>3. QED
  BY <1>1, <1>2, OnlySources

-----------------------------------------------------------------------------
(* The registry and the shadow graph.                                       *)

(* The registry returns with all of its collectors.                         *)
LEMMA RegistryKept ==
  ASSUME HostTypeOK, SourcesAgree, ShadowAgrees, RegistryAgrees, [HostNext]_hostVars
  PROVE  RegistryAgrees'
<1> USE DEF HostTypeOK, RegistryAgrees, Children, Errors
<1>1. CASE UNCHANGED <<child, childErr, source, infra>>
  BY <1>1
<1>2. CASE ShadowStarts
  BY <1>2 DEF ShadowStarts, ShadowAgrees, sourceVars
<1>3. CASE StoreStops \/ StoreReturns
  BY <1>3 DEF StoreStops, StoreReturns, sourceVars
<1>4. CASE RegistryReturns
  BY <1>4 DEF RegistryReturns, sourceVars
<1>5. CASE \E c \in Children : ChildFinishes(c)
  BY <1>5 DEF ChildFinishes, Normalized, sourceVars
<1>6. ASSUME NEW k \in Sources, SourceStep(k) PROVE RegistryAgrees'
  <2>1. source[k] # "stopped" /\ UNCHANGED <<child, childErr>>
    BY <1>6 DEF SourceStep, SourceStarts, SourceReturns, Sampled, PublishGap, PublishRefused,
                shadowVars
  <2>2. child["registry"] \notin {"returned", "handled"}
    BY <2>1
  <2>3. source[k] = "pending" => child["registry"] = "running"
    BY <1>6 DEF SourceStep, SourceStarts, SourceReturns, Sampled, PublishGap, PublishRefused
  <2>4. child["registry"] = "running"
    BY <2>2, <2>3
  <2>5. QED
    BY <2>1, <2>4
<1>7. QED
  BY <1>1, <1>2, <1>3, <1>4, <1>5, <1>6
  DEF HostNext, hostVars, mainVars, supVars, taskVars, shadowVars, sourceVars, SourceStep, SignalComes,
      RegisterActor, Attach, EngineStart, RegisterGraph, UIQuits, UIKilled, ShutdownBegins,
      ShutdownEnds, EngineEnds, ActorReturns, Record, GraphReturns

(* Both children start together, and Shadow.Run returns with both.          *)
LEMMA ShadowKept ==
  ASSUME HostTypeOK, ShadowAgrees, RegistryAgrees, [HostNext]_hostVars
  PROVE  ShadowAgrees'
<1> USE DEF HostTypeOK, ShadowAgrees, Tasks, Children, Errors
<1>1. CASE UNCHANGED <<child, childErr, task>>
  BY <1>1
<1>2. CASE RegisterActor \/ RegisterGraph \/ ActorReturns
  BY <1>2 DEF RegisterActor, RegisterGraph, ActorReturns, Go, shadowVars
<1>3. CASE \E t \in Tasks : Record(t)
  BY <1>3 DEF Record, shadowVars
<1>4. CASE ShadowStarts
  BY <1>4 DEF ShadowStarts, taskVars
<1>5. CASE StoreStops \/ StoreReturns
  BY <1>5 DEF StoreStops, StoreReturns, taskVars
<1>6. CASE RegistryReturns
  BY <1>6 DEF RegistryReturns, taskVars
<1>7. CASE \E c \in Children : ChildFinishes(c)
  BY <1>7 DEF ChildFinishes, Normalized, taskVars
<1>8. CASE GraphReturns
  BY <1>8 DEF GraphReturns
<1>9. QED
  BY <1>1, <1>2, <1>3, <1>4, <1>5, <1>6, <1>7, <1>8
  DEF HostNext, hostVars, mainVars, supVars, taskVars, shadowVars, sourceVars, SignalComes,
      Attach, EngineStart, UIQuits, UIKilled, ShutdownBegins, ShutdownEnds, EngineEnds,
      SourceStarts, SourceReturns, Sampled, PublishGap, PublishRefused

-----------------------------------------------------------------------------
(* The supervisor and the exit.                                             *)

(* An error of a child becomes the error of the graph, and a failure.       *)
LEMMA GraphKept ==
  ASSUME HostTypeOK, ShadowAgrees, RegistryAgrees, GraphAgrees, [HostNext]_hostVars
  PROVE  GraphAgrees'
<1> USE DEF HostTypeOK, GraphAgrees, ShadowAgrees, Tasks, Children, Errors
<1>1. CASE UNCHANGED <<childErr, task, taskErr, failures>>
  BY <1>1
<1>2. CASE RegisterActor \/ RegisterGraph \/ ActorReturns
  BY <1>2 DEF RegisterActor, RegisterGraph, ActorReturns, Go, shadowVars, supVars
<1>3. CASE \E t \in Tasks : Record(t)
  BY <1>3 DEF Record, OwnCancel, shadowVars
<1>4. CASE StoreStops
  BY <1>4 DEF StoreStops, taskVars, supVars
<1>5. CASE RegistryReturns
  BY <1>5 DEF RegistryReturns, taskVars, supVars
<1>6. CASE \E c \in Children : ChildFinishes(c)
  BY <1>6 DEF ChildFinishes, Normalized, taskVars, supVars
<1>7. CASE GraphReturns
  BY <1>7 DEF GraphReturns, supVars
<1>8. QED
  BY <1>1, <1>2, <1>3, <1>4, <1>5, <1>6, <1>7
  DEF HostNext, hostVars, mainVars, supVars, taskVars, shadowVars, sourceVars, SignalComes,
      Attach, EngineStart, UIQuits, UIKilled, ShutdownBegins, ShutdownEnds, EngineEnds,
      ShadowStarts, StoreReturns, SourceStarts, SourceReturns, Sampled, PublishGap,
      PublishRefused

(* Nothing that the exit code was computed from changes after it.           *)
LEMMA ExitKept ==
  ASSUME HostTypeOK, ExitAgrees, [HostNext]_hostVars PROVE ExitAgrees'
<1> USE DEF HostTypeOK, ExitAgrees, ExitCode, Tasks
<1>1. CASE main # "exit" /\ ~ShutdownEnds
  <2>1. main' # "exit"
    BY <1>1 DEF HostNext, hostVars, mainVars, SignalComes, RegisterActor, Go, Attach, EngineStart,
       RegisterGraph, UIQuits, UIKilled, ShutdownBegins, EngineEnds, ActorReturns, Record,
       ShadowStarts, StoreStops, StoreReturns, RegistryReturns, ChildFinishes, GraphReturns,
       SourceStarts, SourceReturns, Sampled, PublishGap, PublishRefused
  <2>2. QED
    BY <2>1
<1>2. CASE ShutdownEnds
  BY <1>2 DEF ShutdownEnds, taskVars
<1>3. CASE main = "exit" /\ ~ShutdownEnds
  <2>1. UNCHANGED <<main, runErr, code, task, failures>>
    BY <1>3 DEF HostNext, hostVars, mainVars, supVars, taskVars, SignalComes, RegisterActor, Attach,
       EngineStart, RegisterGraph, UIQuits, UIKilled, ShutdownBegins, EngineEnds, ActorReturns,
       Record, ShadowStarts, StoreStops, StoreReturns, RegistryReturns, ChildFinishes,
       GraphReturns, SourceStarts, SourceReturns, Sampled, PublishGap, PublishRefused
  <2>2. QED
    BY <1>3, <2>1
<1>4. QED
  BY <1>1, <1>2, <1>3

-----------------------------------------------------------------------------
(* The theorems.                                                            *)

(* The program starts with the invariant.                                   *)
LEMMA HostInitInv == HostInit => HostInv
<1> SUFFICES ASSUME HostInit PROVE HostInv
  OBVIOUS
<1>1. HostTypeOK
  BY HostInitTyped
<1>2. SourcesAgree
  BY DEF HostInit, SourcesAgree, SourceAgrees
<1>3. RegistryAgrees /\ ShadowAgrees /\ GraphAgrees /\ ExitAgrees
  BY DEF HostInit, RegistryAgrees, ShadowAgrees, GraphAgrees, ExitAgrees, Tasks, Children
<1>4. QED
  BY <1>1, <1>2, <1>3 DEF HostInv

(* The invariant of every behaviour.                                        *)
THEOREM HostInvariant == HostSpec => []HostInv
<1>1. HostInv /\ [HostNext]_hostVars => HostInv'
  BY HostStepTyped, SourcesKept, RegistryKept, ShadowKept, GraphKept, ExitKept DEF HostInv
<1>2. QED
  BY <1>1, HostInitInv, PTL DEF HostSpec

(* When the program exits nothing of it runs, and exit code 0 means that    *)
(* neither the store, nor the registry, nor a task failed (Supervisor.record*)
(* and Shadow.Run), for every set of collectors.                            *)
THEOREM ExitIsHonest == HostSpec => []HostInOrder
<1>1. HostInv => HostInOrder
  <2> SUFFICES ASSUME HostInv, main = "exit"
      PROVE  /\ \A t \in Tasks : task[t] \in {"none", "done"}
             /\ \A c \in Children : child[c] \in {"none", "handled"}
             /\ \A k \in Sources : source[k] \in {"pending", "stopped"}
             /\ code = 0 => /\ \A c \in Children : childErr[c] = "nil"
                            /\ infra = {} /\ failures = {}
    BY DEF HostInOrder, ExitHonest, HostInv
  <2> USE DEF HostInv, Tasks, Children
  <2>1. (\A t \in Tasks : task[t] \in {"none", "done"}) /\ code = ExitCode
    BY DEF ExitAgrees
  <2>2. \/ task["graph"] = "none" /\ \A c \in Children : child[c] = "none"
        \/ task["graph"] = "done" /\ \A c \in Children : child[c] = "handled"
    BY <2>1 DEF ShadowAgrees
  <2>3. \/ child["registry"] = "none" /\ \A k \in Sources : source[k] = "pending"
        \/ child["registry"] = "handled" /\ \A k \in Sources : source[k] = "stopped"
    BY <2>2 DEF RegistryAgrees
  <2>4. ASSUME code = 0 PROVE (\A c \in Children : childErr[c] = "nil") /\ failures = {}
    <3>1. failures = {}
      BY <2>1, <2>4 DEF ExitCode
    <3>2. CASE task["graph"] = "none"
      BY <2>2, <3>1, <3>2 DEF ShadowAgrees
    <3>3. CASE task["graph"] = "done"
      BY <3>1, <3>3 DEF GraphAgrees
    <3>4. QED
      BY <2>2, <3>1, <3>2, <3>3
  <2>5. ASSUME code = 0 PROVE infra = {}
    <3>1. CASE child["registry"] = "none"
      BY <2>3, <3>1 DEF SourcesAgree, SourceAgrees, HostTypeOK
    <3>2. CASE child["registry"] = "handled"
      BY <2>4, <2>5, <3>2 DEF RegistryAgrees
    <3>3. QED
      BY <2>3, <3>1, <3>2
  <2>6. QED
    BY <2>1, <2>2, <2>3, <2>4, <2>5
<1>2. QED
  BY <1>1, HostInvariant, PTL

(* A collector that stopped while the graph ran told a gap for each of its  *)
(* capabilities, or is an error of the registry (Registry.processTerminal). *)
THEOREM GapsAlwaysTold == HostSpec => []GapsTold
<1>1. HostInv => GapsTold
  BY DEF HostInv, SourcesAgree, SourceAgrees, GapsTold
<1>2. QED
  BY <1>1, HostInvariant, PTL

-----------------------------------------------------------------------------
(* Actor: the inductive invariant.                                          *)

(* Where an intent can be.                                                  *)
Places == {"idle", "ticket", "queued", "taken", "key", "slot", "enter", "work", "release",
           "done", "dropped", "refused"}
(* Where a data intent holds a ticket.                                      *)
TicketPlaces == {"ticket", "queued", "taken", "key", "slot", "enter", "work", "release"}

(* The types that the steps of the queue and of the workers rest on.        *)
FlowTyped ==
  /\ ctxDone \in BOOLEAN /\ stopping \in BOOLEAN
  /\ run \in {"new", "loop", "hold", "drain", "wait", "stopped"}
  /\ pc \in [Intents -> Places]
  /\ owner \in [Keys -> Intents \cup {Nobody}]

(* Every step of an adapter.                                                *)
StepNames == {"capsule", "worktree", "spawn", "sidecar", "pack", "port", "unit", "git", "tell",
              "note", "call", "look", "int", "grace", "last", "term"}

(* The types of what the adapters leave.                                    *)
WorkTyped ==
  /\ at \in [Intents -> Nat] /\ did \in [Intents -> SUBSET StepNames]
  /\ \A i \in Intents : at[i] \in 0..Len(StepsOf(i)) /\ did[i] \subseteq ToSet(StepsOf(i))
  /\ answer \in [Intents -> {"none", "ok", "error"}]
  /\ proc \in [Keys -> {"same", "gone", "reused"}]
  /\ servers \subseteq [by : Intents, port : Ports, up : BOOLEAN]
  /\ port \in [Intents -> Ports \cup {0}]
  /\ \A i \in Intents : pc[i] = "work" =>
       /\ at[i] # 0
       /\ OpOf[i] = "launch" /\ at[i] > 3 => port[i] \in Ports

(* A worker holds the lock of its row from TakeKey to Release.              *)
RowsHeld ==
  \A i \in Intents : pc[i] \in {"slot", "enter", "work", "release"} => owner[KeyOf[i]] = i

(* Whoever is at an adapter has a place.                                    *)
PlacesHeld ==
  /\ slots \subseteq Intents /\ IsFiniteSet(slots) /\ Cardinality(slots) <= MaxInFlight
  /\ \A i \in Intents : pc[i] \in {"enter", "work"} => i \in slots

(* Run stops accepting before it waits, and waits for the last worker.      *)
StopsInOrder ==
  /\ run \in {"drain", "wait", "stopped"} => stopping
  /\ run = "stopped" => \A i \in Intents : pc[i] \notin {"key", "slot", "enter", "work", "release"}

(* Tickets are held by data intents, and counted.                           *)
TicketsCounted ==
  /\ \A i \in Intents : pc[i] \in {"ticket", "queued", "taken"} => ~Kill(i)
  /\ IsFiniteSet(Ticketed) /\ reserved = Cardinality(Ticketed) /\ reserved <= Bound

(* The channel holds the queued intents, each once.                         *)
InQueue == {i \in Intents : pc[i] = "queued"}
QueueCounted ==
  /\ ch \in Seq(Intents)
  /\ \A n \in 1..Len(ch) : pc[ch[n]] = "queued"
  /\ \A m, n \in 1..Len(ch) : ch[m] = ch[n] => m = n
  /\ IsFiniteSet(InQueue) /\ Cardinality(InQueue) = Len(ch)

ActorInv ==
  /\ FlowTyped /\ WorkTyped /\ RowsHeld /\ PlacesHeld /\ StopsInOrder
  /\ TicketsCounted /\ QueueCounted

-----------------------------------------------------------------------------
(* What the steps of a worker do to the queue.                              *)

(* The row of an intent is a row.                                           *)
LEMMA KeysOf == \A i \in Intents : KeyOf[i] \in Keys
BY DEF Keys

(* A step at an adapter leaves the queue, the locks and the places alone,   *)
(* and goes on or lets go.                                                  *)
LEMMA WorkEffect ==
  ASSUME NEW i \in Intents, Work(i)
  PROVE  /\ pc[i] = "work" /\ (pc' = pc \/ pc' = [pc EXCEPT ![i] = "release"])
         /\ UNCHANGED <<ctxDone, run, stopping, ch, reserved, owner, slots>>
<1> USE DEF Succeeds, Skips, Fails, Answer, Stands, workOnly
<1>1. CASE \E step \in {"capsule", "worktree", "spawn", "sidecar", "git", "call", "pack"} :
             Attempt(i, step)
  BY <1>1 DEF Attempt
<1>2. CASE Tell(i)
  BY <1>2 DEF Tell
<1>3. CASE Note(i)
  BY <1>3 DEF Note
<1>4. CASE NextPort(i)
  BY <1>4 DEF NextPort
<1>5. CASE StartUnit(i)
  BY <1>5 DEF StartUnit
<1>6. CASE Look(i)
  BY <1>6 DEF Look
<1>7. CASE Signal(i)
  BY <1>7 DEF Signal
<1>8. CASE Grace(i)
  BY <1>8 DEF Grace
<1>9. CASE StillSame(i)
  BY <1>9 DEF StillSame
<1>10. QED
  BY <1>1, <1>2, <1>3, <1>4, <1>5, <1>6, <1>7, <1>8, <1>9
  DEF Work, WriteCapsule, AddWorktree, StartCLI, WriteSidecar, MergeWorktrees, Call, PackGate

(* The steps that are neither of the queue nor of the workers.              *)
Aside == (\E s \in servers : Listen(s)) \/ (\E i \in Working : ProcessEnds(i))

(* Those leave the queue and the workers alone.                             *)
LEMMA AsideEffect ==
  ASSUME Aside \/ UNCHANGED actorVars
  PROVE  UNCHANGED <<ctxDone, run, stopping, ch, reserved, owner, slots, pc>>
BY DEF Aside, Listen, ProcessEnds, workOnly, actorVars

(* The step of an intent or of Run that a step of the Actor is.             *)
LEMMA StepCases ==
  ASSUME [Next]_actorVars
  PROVE  \/ Aside \/ UNCHANGED actorVars
         \/ Start \/ Cancel \/ Receive \/ SeeCancel \/ Drain \/ Return
         \/ \E i \in Intents : \/ Hand(i) \/ Enqueue(i) \/ EnqueueKill(i) \/ Send(i)
                               \/ TakeKey(i) \/ TakeSlot(i) \/ Enter(i) \/ Release(i) \/ Work(i)
BY DEF Next, Loop, Worker, Aside

-----------------------------------------------------------------------------
(* Types of the flow, locks and places.                                     *)

(* Every step keeps the types of the flow.                                  *)
LEMMA FlowKept ==
  ASSUME FlowTyped, ch \in Seq(Intents), [Next]_actorVars PROVE FlowTyped'
<1> USE DEF FlowTyped, Places, queueOnly, workOnly
<1>1. CASE Aside \/ UNCHANGED actorVars
  BY <1>1, AsideEffect
<1>2. CASE Start \/ Cancel \/ SeeCancel \/ Return
  BY <1>2 DEF Start, Cancel, SeeCancel, Return
<1>3. CASE Receive
  BY <1>3 DEF Receive
<1>4. CASE Drain
  BY <1>4 DEF Drain
<1>5. ASSUME NEW i \in Intents, Hand(i) PROVE FlowTyped'
  BY <1>5 DEF Hand
<1>6. ASSUME NEW i \in Intents, Enqueue(i) \/ EnqueueKill(i) \/ Send(i) PROVE FlowTyped'
  BY <1>6 DEF Enqueue, EnqueueKill, Send
<1>7. ASSUME NEW i \in Intents, TakeKey(i) PROVE FlowTyped'
  BY <1>7, KeysOf DEF TakeKey
<1>8. ASSUME NEW i \in Intents, TakeSlot(i) \/ Enter(i) PROVE FlowTyped'
  BY <1>8 DEF TakeSlot, Enter, Answer
<1>9. ASSUME NEW i \in Intents, Release(i) PROVE FlowTyped'
  BY <1>9, KeysOf DEF Release
<1>10. ASSUME NEW i \in Intents, Work(i) PROVE FlowTyped'
  BY <1>10, WorkEffect
<1>11. QED
  BY <1>1, <1>2, <1>3, <1>4, <1>5, <1>6, <1>7, <1>8, <1>9, <1>10, StepCases

(* A row is locked by the worker that is at it.                             *)
LEMMA RowsKept ==
  ASSUME FlowTyped, ch \in Seq(Intents), RowsHeld, [Next]_actorVars PROVE RowsHeld'
<1> USE DEF FlowTyped, RowsHeld, queueOnly, workOnly
<1>1. CASE Aside \/ UNCHANGED actorVars
  BY <1>1, AsideEffect
<1>2. CASE Start \/ Cancel \/ SeeCancel \/ Return
  BY <1>2 DEF Start, Cancel, SeeCancel, Return
<1>3. CASE Receive
  BY <1>3 DEF Receive
<1>4. CASE Drain
  BY <1>4 DEF Drain
<1>5. ASSUME NEW i \in Intents, Hand(i) PROVE RowsHeld'
  BY <1>5 DEF Hand
<1>6. ASSUME NEW i \in Intents, Enqueue(i) \/ EnqueueKill(i) \/ Send(i) PROVE RowsHeld'
  BY <1>6 DEF Enqueue, EnqueueKill, Send
<1>7. ASSUME NEW i \in Intents, TakeKey(i) PROVE RowsHeld'
  <2>1. \A j \in Intents : pc[j] \in {"slot", "enter", "work", "release"} =>
          KeyOf[j] # KeyOf[i]
    BY <1>7, ActorAssumption DEF TakeKey
  <2>2. QED
    BY <1>7, <2>1, KeysOf DEF TakeKey
<1>8. ASSUME NEW i \in Intents, TakeSlot(i) \/ Enter(i) PROVE RowsHeld'
  BY <1>8 DEF TakeSlot, Enter, Answer
<1>9. ASSUME NEW i \in Intents, Release(i) PROVE RowsHeld'
  BY <1>9, KeysOf DEF Release
<1>10. ASSUME NEW i \in Intents, Work(i) PROVE RowsHeld'
  BY <1>10, WorkEffect
<1>11. QED
  BY <1>1, <1>2, <1>3, <1>4, <1>5, <1>6, <1>7, <1>8, <1>9, <1>10, StepCases

(* Places are taken and given back one by one.                              *)
LEMMA PlacesKept ==
  ASSUME FlowTyped, ch \in Seq(Intents), PlacesHeld, [Next]_actorVars PROVE PlacesHeld'
<1> USE DEF FlowTyped, PlacesHeld, queueOnly, workOnly
<1>1. CASE Aside \/ UNCHANGED actorVars
  BY <1>1, AsideEffect
<1>2. CASE Start \/ Cancel \/ SeeCancel \/ Return
  BY <1>2 DEF Start, Cancel, SeeCancel, Return
<1>3. CASE Receive
  BY <1>3 DEF Receive
<1>4. CASE Drain
  BY <1>4 DEF Drain
<1>5. ASSUME NEW i \in Intents, Hand(i) PROVE PlacesHeld'
  BY <1>5 DEF Hand
<1>6. ASSUME NEW i \in Intents, Enqueue(i) \/ EnqueueKill(i) \/ Send(i) PROVE PlacesHeld'
  BY <1>6 DEF Enqueue, EnqueueKill, Send
<1>7. ASSUME NEW i \in Intents, TakeKey(i) PROVE PlacesHeld'
  BY <1>7 DEF TakeKey
<1>8. ASSUME NEW i \in Intents, TakeSlot(i) PROVE PlacesHeld'
  <2>1. /\ IsFiniteSet(slots \cup {i})
        /\ Cardinality(slots) < MaxInFlight => Cardinality(slots \cup {i}) <= MaxInFlight
    <3>1. Cardinality(slots) \in Nat
      BY FS_CardinalityType
    <3>2. /\ IsFiniteSet(slots \cup {i})
          /\ Cardinality(slots \cup {i}) =
               IF i \in slots THEN Cardinality(slots) ELSE Cardinality(slots) + 1
      BY FS_AddElement
    <3>3. QED
      BY <3>1, <3>2, ActorAssumption
  <2>2. QED
    BY <1>8, <2>1 DEF TakeSlot, Answer
<1>9. ASSUME NEW i \in Intents, Enter(i) PROVE PlacesHeld'
  BY <1>9 DEF Enter, Answer
<1>10. ASSUME NEW i \in Intents, Release(i) PROVE PlacesHeld'
  <2>1. IsFiniteSet(slots \ {i}) /\ Cardinality(slots \ {i}) <= MaxInFlight
    <3>1. Cardinality(slots) \in Nat
      BY FS_CardinalityType
    <3>2. /\ IsFiniteSet(slots \ {i})
          /\ Cardinality(slots \ {i}) =
               IF i \in slots THEN Cardinality(slots) - 1 ELSE Cardinality(slots)
      BY FS_RemoveElement
    <3>3. QED
      BY <3>1, <3>2, ActorAssumption
  <2>2. QED
    BY <1>10, <2>1 DEF Release
<1>11. ASSUME NEW i \in Intents, Work(i) PROVE PlacesHeld'
  BY <1>11, WorkEffect
<1>12. QED
  BY <1>1, <1>2, <1>3, <1>4, <1>5, <1>6, <1>7, <1>8, <1>9, <1>10, <1>11, StepCases

(* Once Run stops accepting no worker starts but those it waits for.        *)
LEMMA StopKept ==
  ASSUME FlowTyped, ch \in Seq(Intents), TicketsCounted, QueueCounted, StopsInOrder,
         [Next]_actorVars
  PROVE  StopsInOrder'
<1> USE DEF FlowTyped, StopsInOrder, queueOnly, workOnly
<1>1. CASE Aside \/ UNCHANGED actorVars
  BY <1>1, AsideEffect
<1>2. CASE Start \/ Cancel \/ SeeCancel
  BY <1>2 DEF Start, Cancel, SeeCancel
<1>3. CASE Return
  BY <1>3 DEF Return, Working
<1>4. CASE Receive
  BY <1>4 DEF Receive
<1>5. CASE Drain
  BY <1>5 DEF Drain
<1>6. ASSUME NEW i \in Intents, Hand(i) PROVE StopsInOrder'
  BY <1>6 DEF Hand
<1>7. ASSUME NEW i \in Intents, Enqueue(i) \/ EnqueueKill(i) \/ Send(i) PROVE StopsInOrder'
  BY <1>7 DEF Enqueue, EnqueueKill, Send, Accepting
<1>8. ASSUME NEW i \in Intents, TakeKey(i) \/ TakeSlot(i) \/ Enter(i) \/ Release(i)
      PROVE  StopsInOrder'
  BY <1>8 DEF TakeKey, TakeSlot, Enter, Release, Answer
<1>9. ASSUME NEW i \in Intents, Work(i) PROVE StopsInOrder'
  BY <1>9, WorkEffect
<1>10. QED
  BY <1>1, <1>2, <1>3, <1>4, <1>5, <1>6, <1>7, <1>8, <1>9, StepCases

-----------------------------------------------------------------------------
(* Tickets.                                                                 *)

(* Who holds a ticket, by place.                                            *)
LEMMA TicketedIs ==
  Ticketed = {i \in Intents : ~Kill(i) /\ pc[i] \in TicketPlaces}
BY DEF Ticketed, Working, TicketPlaces

(* What the move of one intent does to the tickets.                         *)
LEMMA TicketMoves ==
  ASSUME FlowTyped, NEW i \in Intents, NEW v, pc' = [pc EXCEPT ![i] = v]
  PROVE  /\ i \in Ticketed <=> ~Kill(i) /\ pc[i] \in TicketPlaces
         /\ Kill(i) \/ (pc[i] \in TicketPlaces <=> v \in TicketPlaces) => Ticketed' = Ticketed
         /\ ~Kill(i) /\ v \in TicketPlaces => Ticketed' = Ticketed \cup {i}
         /\ v \notin TicketPlaces => Ticketed' = Ticketed \ {i}
<1> DEFINE Before == {j \in Intents : ~Kill(j) /\ pc[j] \in TicketPlaces}
           After  == {j \in Intents : ~Kill(j) /\ pc'[j] \in TicketPlaces}
<1>1. Ticketed = Before /\ Ticketed' = After
  BY TicketedIs DEF Ticketed, Working, TicketPlaces, Kill
<1>2. \A j \in Intents : pc'[j] = IF j = i THEN v ELSE pc[j]
  BY DEF FlowTyped
<1>3. QED
  BY <1>1, <1>2

(* A ticket is taken.                                                       *)
LEMMA TicketTaken ==
  ASSUME TicketsCounted, NEW i, i \notin Ticketed, Ticketed' = Ticketed \cup {i},
         reserved' = reserved + 1, reserved < Bound
  PROVE  IsFiniteSet(Ticketed') /\ reserved' = Cardinality(Ticketed') /\ reserved' <= Bound
<1>1. /\ IsFiniteSet(Ticketed \cup {i})
      /\ Cardinality(Ticketed \cup {i}) = Cardinality(Ticketed) + 1
  BY FS_AddElement DEF TicketsCounted
<1>2. Cardinality(Ticketed) \in Nat
  BY FS_CardinalityType DEF TicketsCounted
<1>3. QED
  BY <1>1, <1>2, ActorAssumption DEF TicketsCounted

(* A ticket is given back.                                                  *)
LEMMA TicketReturned ==
  ASSUME TicketsCounted, NEW i, i \in Ticketed, Ticketed' = Ticketed \ {i},
         reserved' = reserved - 1
  PROVE  IsFiniteSet(Ticketed') /\ reserved' = Cardinality(Ticketed') /\ reserved' <= Bound
<1>1. /\ IsFiniteSet(Ticketed \ {i})
      /\ Cardinality(Ticketed \ {i}) = Cardinality(Ticketed) - 1
  BY FS_RemoveElement DEF TicketsCounted
<1>2. Cardinality(Ticketed) \in Nat
  BY FS_CardinalityType DEF TicketsCounted
<1>3. QED
  BY <1>1, <1>2, ActorAssumption DEF TicketsCounted

(* A ticket that is held is counted.                                        *)
LEMMA TicketNotZero ==
  ASSUME TicketsCounted, NEW i, i \in Ticketed PROVE reserved # 0
<1>1. Cardinality(Ticketed) # 0
  BY FS_EmptySet DEF TicketsCounted
<1>2. QED
  BY <1>1 DEF TicketsCounted

(* The first of the channel is queued.                                      *)
LEMMA HeadQueued ==
  ASSUME QueueCounted, ch # <<>> PROVE Head(ch) \in Intents /\ pc[Head(ch)] = "queued"
<1>1. ch \in Seq(Intents) /\ 1 \in 1..Len(ch) /\ Head(ch) = ch[1]
  BY DEF QueueCounted
<1>2. QED
  BY <1>1 DEF QueueCounted

(* Every step keeps the count.                                              *)
LEMMA TicketsKept ==
  ASSUME FlowTyped, TicketsCounted, QueueCounted, [Next]_actorVars PROVE TicketsCounted'
<1> USE DEF queueOnly, workOnly
<1> DEFINE Data == \A i \in Intents : pc[i] \in {"ticket", "queued", "taken"} => ~Kill(i)
<1>a. Data
  BY DEF TicketsCounted
<1>b. ASSUME pc' = pc, reserved' = reserved PROVE TicketsCounted'
  <2>1. Ticketed' = Ticketed
    BY <1>b DEF Ticketed, Working, Kill
  <2>2. Data'
    BY <1>a, <1>b DEF Kill
  <2>3. QED
    BY <2>1, <2>2, <1>b DEF TicketsCounted, Kill
<1>c. ASSUME NEW i \in Intents, NEW v, pc' = [pc EXCEPT ![i] = v], reserved' = reserved,
             Kill(i) \/ (pc[i] \in TicketPlaces <=> v \in TicketPlaces),
             v \in {"ticket", "queued", "taken"} => ~Kill(i)
      PROVE  TicketsCounted'
  <2>1. Ticketed' = Ticketed
    BY <1>c, TicketMoves
  <2>2. Data'
    BY <1>a, <1>c DEF FlowTyped, Kill
  <2>3. QED
    BY <2>1, <2>2, <1>c DEF TicketsCounted, Kill
<1>d. ASSUME NEW i \in Intents, NEW v, pc' = [pc EXCEPT ![i] = v], reserved' = reserved - 1,
             i \in Ticketed, v \notin TicketPlaces
      PROVE  TicketsCounted'
  <2>1. Ticketed' = Ticketed \ {i}
    BY <1>d, TicketMoves
  <2>2. IsFiniteSet(Ticketed') /\ reserved' = Cardinality(Ticketed') /\ reserved' <= Bound
    BY <2>1, <1>d, TicketReturned
  <2>3. Data'
    BY <1>a, <1>d DEF FlowTyped, Kill, TicketPlaces
  <2>4. QED
    BY <2>2, <2>3 DEF TicketsCounted, Kill
<1>1. CASE Aside \/ UNCHANGED actorVars
  BY <1>1, <1>b, AsideEffect
<1>2. CASE Start \/ Cancel \/ SeeCancel \/ Return
  BY <1>2, <1>b DEF Start, Cancel, SeeCancel, Return
<1>3. CASE Receive
  <2>1. Head(ch) \in Intents /\ pc[Head(ch)] = "queued"
    BY <1>3, HeadQueued DEF Receive
  <2>2. pc' = [pc EXCEPT ![Head(ch)] = "taken"] /\ reserved' = reserved /\ ~Kill(Head(ch))
    BY <1>3, <1>a, <2>1 DEF Receive
  <2>3. QED
    BY <1>c, <2>1, <2>2 DEF TicketPlaces
<1>4. CASE Drain /\ ch # <<>>
  <2>1. Head(ch) \in Intents /\ pc[Head(ch)] = "queued"
    BY <1>4, HeadQueued
  <2>2. pc' = [pc EXCEPT ![Head(ch)] = "dropped"] /\ reserved' = reserved - 1
    BY <1>4 DEF Drain
  <2>3. Head(ch) \in Ticketed
    BY <1>a, <2>1, TicketedIs DEF TicketPlaces
  <2>4. QED
    BY <1>d, <2>1, <2>2, <2>3 DEF TicketPlaces
<1>5. CASE Drain /\ ch = <<>>
  BY <1>5, <1>b DEF Drain
<1>6. ASSUME NEW i \in Intents, Hand(i) PROVE TicketsCounted'
  <2>1. pc[i] = "taken" /\ ~Kill(i) /\ i \in Ticketed
    BY <1>6, <1>a, TicketedIs DEF Hand, TicketPlaces
  <2>2. \/ pc' = [pc EXCEPT ![i] = "key"] /\ reserved' = reserved
        \/ pc' = [pc EXCEPT ![i] = "dropped"] /\ reserved' = reserved - 1
    BY <1>6 DEF Hand
  <2>3. QED
    BY <1>c, <1>d, <2>1, <2>2 DEF TicketPlaces
<1>7. ASSUME NEW i \in Intents, Enqueue(i) PROVE TicketsCounted'
  <2>1. pc[i] = "idle" /\ ~Kill(i)
    BY <1>7 DEF Enqueue, Asks
  <2>2. CASE pc' = [pc EXCEPT ![i] = "refused"] /\ reserved' = reserved
    BY <1>c, <2>1, <2>2 DEF TicketPlaces
  <2>3. CASE pc' = [pc EXCEPT ![i] = "ticket"] /\ reserved' = reserved + 1 /\ reserved < Bound
    <3>1. Ticketed' = Ticketed \cup {i} /\ i \notin Ticketed
      BY <2>1, <2>3, TicketMoves DEF TicketPlaces
    <3>2. IsFiniteSet(Ticketed') /\ reserved' = Cardinality(Ticketed') /\ reserved' <= Bound
      BY <2>3, <3>1, TicketTaken
    <3>3. Data'
      BY <1>a, <2>1, <2>3 DEF FlowTyped, Kill
    <3>4. QED
      BY <3>2, <3>3 DEF TicketsCounted, Kill
  <2>4. QED
    BY <1>7, <2>2, <2>3 DEF Enqueue
<1>8. ASSUME NEW i \in Intents, EnqueueKill(i) PROVE TicketsCounted'
  <2>1. Kill(i) /\ reserved' = reserved
        /\ (pc' = [pc EXCEPT ![i] = "key"] \/ pc' = [pc EXCEPT ![i] = "refused"])
    BY <1>8 DEF EnqueueKill
  <2>2. QED
    BY <1>c, <2>1
<1>9. ASSUME NEW i \in Intents, Send(i) PROVE TicketsCounted'
  <2>1. pc[i] = "ticket" /\ ~Kill(i) /\ i \in Ticketed
    BY <1>9, <1>a, TicketedIs DEF Send, TicketPlaces
  <2>2. \/ pc' = [pc EXCEPT ![i] = "queued"] /\ reserved' = reserved
        \/ pc' = [pc EXCEPT ![i] = "refused"] /\ reserved' = reserved - 1
    BY <1>9 DEF Send
  <2>3. QED
    BY <1>c, <1>d, <2>1, <2>2 DEF TicketPlaces
<1>10. ASSUME NEW i \in Intents, TakeKey(i) \/ TakeSlot(i) \/ Enter(i) PROVE TicketsCounted'
  <2>1. /\ pc[i] \in {"key", "slot", "enter"} /\ reserved' = reserved
        /\ \E v \in {"slot", "enter", "work", "release"} : pc' = [pc EXCEPT ![i] = v]
    BY <1>10 DEF TakeKey, TakeSlot, Enter, Answer
  <2>2. QED
    BY <1>c, <2>1 DEF TicketPlaces
<1>11. ASSUME NEW i \in Intents, Release(i) PROVE TicketsCounted'
  <2>1. pc[i] = "release" /\ pc' = [pc EXCEPT ![i] = "done"]
    BY <1>11 DEF Release
  <2>2. CASE Kill(i)
    <3>1. reserved' = reserved
      BY <1>11, <2>2 DEF Release
    <3>2. QED
      BY <1>c, <2>1, <2>2, <3>1
  <2>3. CASE ~Kill(i)
    <3>1. i \in Ticketed
      BY <2>1, <2>3, TicketedIs DEF TicketPlaces
    <3>2. reserved' = reserved - 1
      BY <1>11, <2>3, <3>1, TicketNotZero DEF Release
    <3>3. QED
      BY <1>d, <2>1, <3>1, <3>2 DEF TicketPlaces
  <2>4. QED
    BY <2>2, <2>3
<1>12. ASSUME NEW i \in Intents, Work(i) PROVE TicketsCounted'
  <2>1. /\ pc[i] = "work" /\ (pc' = pc \/ pc' = [pc EXCEPT ![i] = "release"])
        /\ reserved' = reserved
    BY <1>12, WorkEffect
  <2>2. QED
    BY <1>b, <1>c, <2>1 DEF TicketPlaces
<1>13. QED
  BY <1>1, <1>2, <1>3, <1>4, <1>5, <1>6, <1>7, <1>8, <1>9, <1>10, <1>11, <1>12, StepCases

-----------------------------------------------------------------------------
(* The channel.                                                             *)

(* A move that is neither to nor from the queue leaves it.                  *)
LEMMA QueueLeft ==
  ASSUME FlowTyped, QueueCounted, ch' = ch,
         pc' = pc \/ \E i \in Intents, v \in Places :
                       pc[i] # "queued" /\ v # "queued" /\ pc' = [pc EXCEPT ![i] = v]
  PROVE  QueueCounted'
<1>1. \A i \in Intents : pc'[i] = "queued" <=> pc[i] = "queued"
  BY DEF FlowTyped
<1>2. InQueue' = InQueue
  BY <1>1 DEF InQueue
<1>3. \A n \in 1..Len(ch) : ch[n] \in Intents
  BY DEF QueueCounted
<1>4. QED
  BY <1>1, <1>2, <1>3 DEF QueueCounted

(* An intent is sent.                                                       *)
LEMMA QueueGrows ==
  ASSUME FlowTyped, QueueCounted, NEW i \in Intents, pc[i] # "queued",
         pc' = [pc EXCEPT ![i] = "queued"], ch' = Append(ch, i)
  PROVE  QueueCounted'
<1>1. /\ ch' \in Seq(Intents) /\ Len(ch) \in Nat /\ Len(ch') = Len(ch) + 1
      /\ \A n \in 1..Len(ch) : ch'[n] = ch[n] /\ ch[n] \in Intents
      /\ ch'[Len(ch) + 1] = i
  BY DEF QueueCounted
<1>2. \A n \in 1..Len(ch') : n \in 1..Len(ch) \/ n = Len(ch) + 1
  BY <1>1
<1>3. InQueue' = InQueue \cup {i} /\ i \notin InQueue
  BY DEF InQueue, FlowTyped
<1>4. IsFiniteSet(InQueue') /\ Cardinality(InQueue') = Len(ch')
  <2>1. IsFiniteSet(InQueue) /\ Cardinality(InQueue) = Len(ch)
    BY DEF QueueCounted
  <2>2. /\ IsFiniteSet(InQueue \cup {i})
        /\ Cardinality(InQueue \cup {i}) = Cardinality(InQueue) + 1
    BY <1>3, <2>1, FS_AddElement
  <2> QED BY ONLY <1>1, <1>3, <2>1, <2>2
<1>5. \A n \in 1..Len(ch') : pc'[ch'[n]] = "queued"
  BY <1>1, <1>2 DEF FlowTyped, QueueCounted
<1>6. \A n \in 1..Len(ch) : ch[n] # i
  BY <1>1 DEF QueueCounted
<1>7. \A m, n \in 1..Len(ch') : ch'[m] = ch'[n] => m = n
  BY <1>1, <1>2, <1>6 DEF QueueCounted
<1>8. QED
  BY <1>1, <1>4, <1>5, <1>7 DEF QueueCounted

(* The first of the channel is taken out.                                   *)
LEMMA QueueShrinks ==
  ASSUME FlowTyped, QueueCounted, ch # <<>>, NEW v \in Places, v # "queued",
         pc' = [pc EXCEPT ![Head(ch)] = v], ch' = Tail(ch)
  PROVE  QueueCounted'
<1>1. /\ ch' \in Seq(Intents) /\ Len(ch) \in Nat \ {0} /\ Len(ch') = Len(ch) - 1
      /\ \A n \in 1..Len(ch') : ch'[n] = ch[n + 1] /\ n + 1 \in 1..Len(ch) /\ n + 1 # 1
      /\ Head(ch) = ch[1] /\ 1 \in 1..Len(ch)
  BY DEF QueueCounted
<1>2. Head(ch) \in Intents /\ pc[Head(ch)] = "queued"
  BY HeadQueued
<1>3. InQueue' = InQueue \ {Head(ch)} /\ Head(ch) \in InQueue
  BY <1>2 DEF InQueue, FlowTyped
<1>4. IsFiniteSet(InQueue') /\ Cardinality(InQueue') = Len(ch')
  BY <1>1, <1>3, FS_RemoveElement DEF QueueCounted
<1>5. \A n \in 1..Len(ch') : ch'[n] # Head(ch) /\ pc[ch'[n]] = "queued"
  BY <1>1 DEF QueueCounted
<1>6. \A n \in 1..Len(ch') : pc'[ch'[n]] = "queued"
  BY <1>1, <1>2, <1>5 DEF FlowTyped
<1>7. ASSUME NEW m \in 1..Len(ch'), NEW n \in 1..Len(ch'), ch'[m] = ch'[n] PROVE m = n
  <2>1. ch[m + 1] = ch[n + 1] /\ m + 1 \in 1..Len(ch) /\ n + 1 \in 1..Len(ch)
    BY <1>1, <1>7
  <2>2. m + 1 = n + 1
    BY <2>1 DEF QueueCounted
  <2>3. QED
    BY <2>2
<1>8. QED
  BY <1>1, <1>4, <1>6, <1>7 DEF QueueCounted

(* Every step keeps the channel and the queued intents together.            *)
LEMMA QueueKept ==
  ASSUME FlowTyped, QueueCounted, [Next]_actorVars PROVE QueueCounted'
<1> USE DEF queueOnly, workOnly
<1>1. CASE Aside \/ UNCHANGED actorVars
  BY <1>1, AsideEffect, QueueLeft
<1>2. CASE Start \/ Cancel \/ SeeCancel \/ Return
  BY <1>2, QueueLeft DEF Start, Cancel, SeeCancel, Return
<1>3. CASE Receive
  <2>1. "taken" \in Places
    BY DEF Places
  <2>2. QED
    BY <1>3, <2>1, QueueShrinks DEF Receive
<1>4. CASE Drain
  <2>1. "dropped" \in Places
    BY DEF Places
  <2>2. QED
    BY <1>4, <2>1, QueueShrinks, QueueLeft DEF Drain
<1>5. ASSUME NEW i \in Intents, Hand(i) PROVE QueueCounted'
  <2>1. pc[i] = "taken" /\ ch' = ch /\ \E v \in {"key", "dropped"} : pc' = [pc EXCEPT ![i] = v]
    BY <1>5 DEF Hand
  <2>2. QED
    BY <2>1, QueueLeft DEF Places
<1>6. ASSUME NEW i \in Intents, Enqueue(i) \/ EnqueueKill(i) PROVE QueueCounted'
  <2>1. /\ pc[i] = "idle" /\ ch' = ch
        /\ \E v \in {"ticket", "key", "refused"} : pc' = [pc EXCEPT ![i] = v]
    BY <1>6 DEF Enqueue, EnqueueKill, Asks
  <2>2. QED
    BY <2>1, QueueLeft DEF Places
<1>7. ASSUME NEW i \in Intents, Send(i) PROVE QueueCounted'
  <2>1. CASE pc' = [pc EXCEPT ![i] = "refused"] /\ ch' = ch
    BY <1>7, <2>1, QueueLeft DEF Send, Places
  <2>2. CASE pc' = [pc EXCEPT ![i] = "queued"] /\ ch' = Append(ch, i)
    BY <1>7, <2>2, QueueGrows DEF Send
  <2>3. QED
    BY <1>7, <2>1, <2>2 DEF Send
<1>8. ASSUME NEW i \in Intents, TakeKey(i) \/ TakeSlot(i) \/ Enter(i) \/ Release(i)
      PROVE  QueueCounted'
  <2>1. /\ pc[i] # "queued" /\ ch' = ch
        /\ \E v \in {"slot", "enter", "work", "release", "done"} : pc' = [pc EXCEPT ![i] = v]
    BY <1>8 DEF TakeKey, TakeSlot, Enter, Release, Answer
  <2>2. QED
    BY <2>1, QueueLeft DEF Places
<1>9. ASSUME NEW i \in Intents, Work(i) PROVE QueueCounted'
  <2>1. pc[i] = "work" /\ ch' = ch /\ (pc' = pc \/ pc' = [pc EXCEPT ![i] = "release"])
    BY <1>9, WorkEffect
  <2>2. QED
    BY <2>1, QueueLeft DEF Places
<1>10. QED
  BY <1>1, <1>2, <1>3, <1>4, <1>5, <1>6, <1>7, <1>8, <1>9, StepCases

(* Queued intents hold tickets, so whoever is about to send has room.       *)
LEMMA RoomForTickets ==
  ASSUME TicketsCounted, QueueCounted
  PROVE  Len(ch) <= Bound /\ \A i \in Intents : pc[i] = "ticket" => Len(ch) < Bound
<1> DEFINE Card == Cardinality(Ticketed)
<1>1. InQueue \subseteq Ticketed
  BY TicketedIs DEF InQueue, TicketsCounted, TicketPlaces
<1>2. Card \in Nat /\ Card <= Bound
  BY FS_CardinalityType DEF TicketsCounted
<1>3. Len(ch) \in Nat
  BY DEF QueueCounted
<1>4. Len(ch) <= Card
  BY <1>1, FS_Subset DEF QueueCounted, TicketsCounted
<1>5. ASSUME NEW i \in Intents, pc[i] = "ticket" PROVE Len(ch) < Card
  <2>1. i \in Ticketed /\ i \notin InQueue
    BY <1>5, TicketedIs DEF InQueue, TicketsCounted, TicketPlaces
  <2>2. Len(ch) # Card
    BY <1>1, <2>1, FS_Subset DEF QueueCounted, TicketsCounted
  <2>3. QED
    BY <1>2, <1>3, <1>4, <2>2
<1>6. QED
  BY <1>2, <1>3, <1>4, <1>5, ActorAssumption

-----------------------------------------------------------------------------
(* The adapters.                                                            *)

(* What a sequence holds is in its set.                                     *)
LEMMA InToSet == ASSUME NEW s, NEW n \in DOMAIN s PROVE s[n] \in ToSet(s)
BY DEF ToSet

(* What holds of the step of an intent at a place.                          *)
StepShape(i, n) ==
  /\ StepsOf(i)[n] \in StepNames /\ StepsOf(i)[n] \in ToSet(StepsOf(i))
  /\ StepsOf(i)[n] \in {"look", "grace", "last", "tell"} => n < Len(StepsOf(i))
  /\ StepsOf(i)[n] = "unit" => OpOf[i] = "launch" /\ n = 4
  /\ OpOf[i] = "launch" /\ n = 3 => StepsOf(i)[n] = "port"

(* The shape of the steps of each kind of intent.                           *)
LEMMA StepsShape ==
  ASSUME NEW i \in Intents
  PROVE  Len(StepsOf(i)) \in Nat \ {0} /\ \A n \in 1..Len(StepsOf(i)) : StepShape(i, n)
<1>1. OpOf[i] \in {"fork", "launch", "merge", "call", "kill"}
  BY ActorAssumption
<1>2. CASE OpOf[i] = "fork"
  <2>1. StepsOf(i) = <<"capsule", "worktree", "spawn", "sidecar">>
    BY <1>2 DEF StepsOf, Steps
  <2>2. Len(StepsOf(i)) = 4 /\ DOMAIN StepsOf(i) = 1..4
    BY <2>1
  <2>3. StepShape(i, 1)
    <3>1. StepsOf(i)[1] = "capsule"
      BY <2>1
    <3>2. StepsOf(i)[1] \in ToSet(StepsOf(i))
      BY <2>2, InToSet
    <3>3. QED
      BY <1>2, <2>2, <3>1, <3>2 DEF StepShape, StepNames
  <2>4. StepShape(i, 2)
    <3>1. StepsOf(i)[2] = "worktree"
      BY <2>1
    <3>2. StepsOf(i)[2] \in ToSet(StepsOf(i))
      BY <2>2, InToSet
    <3>3. QED
      BY <1>2, <2>2, <3>1, <3>2 DEF StepShape, StepNames
  <2>5. StepShape(i, 3)
    <3>1. StepsOf(i)[3] = "spawn"
      BY <2>1
    <3>2. StepsOf(i)[3] \in ToSet(StepsOf(i))
      BY <2>2, InToSet
    <3>3. QED
      BY <1>2, <2>2, <3>1, <3>2 DEF StepShape, StepNames
  <2>6. StepShape(i, 4)
    <3>1. StepsOf(i)[4] = "sidecar"
      BY <2>1
    <3>2. StepsOf(i)[4] \in ToSet(StepsOf(i))
      BY <2>2, InToSet
    <3>3. QED
      BY <1>2, <2>2, <3>1, <3>2 DEF StepShape, StepNames
  <2>7. QED
    BY <2>2, <2>3, <2>4, <2>5, <2>6
<1>3. CASE OpOf[i] = "launch"
  <2>1. StepsOf(i) = <<"capsule", "pack", "port", "unit", "sidecar">>
    BY <1>3 DEF StepsOf, Steps
  <2>2. Len(StepsOf(i)) = 5 /\ DOMAIN StepsOf(i) = 1..5
    BY <2>1
  <2>3. StepShape(i, 1)
    <3>1. StepsOf(i)[1] = "capsule"
      BY <2>1
    <3>2. StepsOf(i)[1] \in ToSet(StepsOf(i))
      BY <2>2, InToSet
    <3>3. QED
      BY <1>3, <2>2, <3>1, <3>2 DEF StepShape, StepNames
  <2>4. StepShape(i, 2)
    <3>1. StepsOf(i)[2] = "pack"
      BY <2>1
    <3>2. StepsOf(i)[2] \in ToSet(StepsOf(i))
      BY <2>2, InToSet
    <3>3. QED
      BY <1>3, <2>2, <3>1, <3>2 DEF StepShape, StepNames
  <2>5. StepShape(i, 3)
    <3>1. StepsOf(i)[3] = "port"
      BY <2>1
    <3>2. StepsOf(i)[3] \in ToSet(StepsOf(i))
      BY <2>2, InToSet
    <3>3. QED
      BY <1>3, <2>2, <3>1, <3>2 DEF StepShape, StepNames
  <2>6. StepShape(i, 4)
    <3>1. StepsOf(i)[4] = "unit"
      BY <2>1
    <3>2. StepsOf(i)[4] \in ToSet(StepsOf(i))
      BY <2>2, InToSet
    <3>3. QED
      BY <1>3, <2>2, <3>1, <3>2 DEF StepShape, StepNames
  <2>7. StepShape(i, 5)
    <3>1. StepsOf(i)[5] = "sidecar"
      BY <2>1
    <3>2. StepsOf(i)[5] \in ToSet(StepsOf(i))
      BY <2>2, InToSet
    <3>3. QED
      BY <1>3, <2>2, <3>1, <3>2 DEF StepShape, StepNames
  <2>8. QED
    BY <2>2, <2>3, <2>4, <2>5, <2>6, <2>7
<1>4. CASE OpOf[i] = "merge"
  <2>1. StepsOf(i) = <<"git", "tell", "note">>
    BY <1>4 DEF StepsOf, Steps
  <2>2. Len(StepsOf(i)) = 3 /\ DOMAIN StepsOf(i) = 1..3
    BY <2>1
  <2>3. StepShape(i, 1)
    <3>1. StepsOf(i)[1] = "git"
      BY <2>1
    <3>2. StepsOf(i)[1] \in ToSet(StepsOf(i))
      BY <2>2, InToSet
    <3>3. QED
      BY <1>4, <2>2, <3>1, <3>2 DEF StepShape, StepNames
  <2>4. StepShape(i, 2)
    <3>1. StepsOf(i)[2] = "tell"
      BY <2>1
    <3>2. StepsOf(i)[2] \in ToSet(StepsOf(i))
      BY <2>2, InToSet
    <3>3. QED
      BY <1>4, <2>2, <3>1, <3>2 DEF StepShape, StepNames
  <2>5. StepShape(i, 3)
    <3>1. StepsOf(i)[3] = "note"
      BY <2>1
    <3>2. StepsOf(i)[3] \in ToSet(StepsOf(i))
      BY <2>2, InToSet
    <3>3. QED
      BY <1>4, <2>2, <3>1, <3>2 DEF StepShape, StepNames
  <2>6. QED
    BY <2>2, <2>3, <2>4, <2>5
<1>5. CASE OpOf[i] = "call"
  <2>1. StepsOf(i) = <<"call">>
    BY <1>5 DEF StepsOf, Steps
  <2>2. Len(StepsOf(i)) = 1 /\ DOMAIN StepsOf(i) = 1..1
    BY <2>1
  <2>3. StepShape(i, 1)
    <3>1. StepsOf(i)[1] = "call"
      BY <2>1
    <3>2. StepsOf(i)[1] \in ToSet(StepsOf(i))
      BY <2>2, InToSet
    <3>3. QED
      BY <1>5, <2>2, <3>1, <3>2 DEF StepShape, StepNames
  <2>4. QED
    BY <2>2, <2>3
<1>6. CASE OpOf[i] = "kill"
  <2>1. StepsOf(i) = <<"look", "int", "grace", "last", "term">>
    BY <1>6 DEF StepsOf, Steps
  <2>2. Len(StepsOf(i)) = 5 /\ DOMAIN StepsOf(i) = 1..5
    BY <2>1
  <2>3. StepShape(i, 1)
    <3>1. StepsOf(i)[1] = "look"
      BY <2>1
    <3>2. StepsOf(i)[1] \in ToSet(StepsOf(i))
      BY <2>2, InToSet
    <3>3. QED
      BY <1>6, <2>2, <3>1, <3>2 DEF StepShape, StepNames
  <2>4. StepShape(i, 2)
    <3>1. StepsOf(i)[2] = "int"
      BY <2>1
    <3>2. StepsOf(i)[2] \in ToSet(StepsOf(i))
      BY <2>2, InToSet
    <3>3. QED
      BY <1>6, <2>2, <3>1, <3>2 DEF StepShape, StepNames
  <2>5. StepShape(i, 3)
    <3>1. StepsOf(i)[3] = "grace"
      BY <2>1
    <3>2. StepsOf(i)[3] \in ToSet(StepsOf(i))
      BY <2>2, InToSet
    <3>3. QED
      BY <1>6, <2>2, <3>1, <3>2 DEF StepShape, StepNames
  <2>6. StepShape(i, 4)
    <3>1. StepsOf(i)[4] = "last"
      BY <2>1
    <3>2. StepsOf(i)[4] \in ToSet(StepsOf(i))
      BY <2>2, InToSet
    <3>3. QED
      BY <1>6, <2>2, <3>1, <3>2 DEF StepShape, StepNames
  <2>7. StepShape(i, 5)
    <3>1. StepsOf(i)[5] = "term"
      BY <2>1
    <3>2. StepsOf(i)[5] \in ToSet(StepsOf(i))
      BY <2>2, InToSet
    <3>3. QED
      BY <1>6, <2>2, <3>1, <3>2 DEF StepShape, StepNames
  <2>8. QED
    BY <2>2, <2>3, <2>4, <2>5, <2>6, <2>7
<1>7. QED
  BY <1>1, <1>2, <1>3, <1>4, <1>5, <1>6

(* The smallest of a set of ports is one of them.                           *)
LEMMA MinIn ==
  ASSUME NEW S, S \subseteq Ports, S # {} PROVE Min(S) \in S
<1>1. S \subseteq Nat
  BY ActorAssumption
<1> DEFINE Below(x) == {y \in S : y < x}
           Belows == {Below(x) : x \in S}
<1>2. \A x \in S : Below(x) \in FiniteSubsetsOf(S)
  <2>1. ASSUME NEW x \in S PROVE IsFiniteSet(Below(x))
    <3>1. x \in Nat /\ Below(x) \in SUBSET Nat
      BY <1>1
    <3>2. \A y \in Below(x) : y <= x
      <4> SUFFICES ASSUME NEW y \in S, y < x PROVE y <= x
        OBVIOUS
      <4>1. y \in Nat
        BY <1>1
      <4>2. QED
        BY <3>1, <4>1
    <3>3. QED
      BY <3>1, <3>2, FS_BoundedSetOfNaturals
  <2>2. QED
    BY <2>1 DEF FiniteSubsetsOf
<1>3. PICK B \in Belows : \A C \in Belows : <<C, B>> \notin StrictSubsetOrdering(S)
  <2>1. Belows \subseteq FiniteSubsetsOf(S) /\ Belows # {}
    BY <1>2
  <2>2. QED
    BY <2>1, WFMin, FS_StrictSubsetOrderingWellFounded
<1>4. PICK x \in S : B = Below(x)
  OBVIOUS
<1>5. \A y \in S : x <= y
  <2> SUFFICES ASSUME NEW y \in S, ~(x <= y) PROVE FALSE
    OBVIOUS
  <2>1. y < x /\ y \in Nat /\ x \in Nat
    BY <1>1
  <2>2. Below(y) \subseteq Below(x) /\ y \in Below(x) /\ y \notin Below(y)
    <3>1. \A z \in Below(y) : z \in S /\ z < x
      <4> SUFFICES ASSUME NEW z \in S, z < y PROVE z < x
        OBVIOUS
      <4>1. z \in Nat
        BY <1>1
      <4>2. QED
        BY <2>1, <4>1
    <3>2. ~(y < y)
      BY <2>1
    <3>3. QED
      BY <2>1, <3>1, <3>2
  <2>3. <<Below(y), B>> \in StrictSubsetOrdering(S)
    BY <1>4, <2>2 DEF StrictSubsetOrdering
  <2>4. QED
    BY <1>3, <2>3
<1>6. QED
  BY <1>5 DEF Min

(* What a step at an adapter leaves.                                        *)
WorkLeft(i) ==
  /\ \/ at' = at
     \/ at' = [at EXCEPT ![i] = at[i] + 1] /\ at[i] < Len(StepsOf(i))
  /\ \/ did' = did
     \/ did' = [did EXCEPT ![i] = did[i] \cup {StepsOf(i)[at[i]]}]
  /\ answer' = answer \/ \E a \in {"ok", "error"} : answer' = [answer EXCEPT ![i] = a]
  /\ proc' = proc
  /\ \/ servers' = servers
     \/ /\ StepsOf(i)[at[i]] = "unit"
        /\ servers' = servers \cup {[by |-> i, port |-> port[i], up |-> FALSE]}
  /\ \/ port' = port /\ (at' = at \/ StepsOf(i)[at[i]] # "port")
     \/ \E p \in Ports : port' = [port EXCEPT ![i] = p]

(* Each adapter step leaves that.                                           *)
LEMMA WorkLeaves ==
  ASSUME NEW i \in Intents, Work(i), WorkTyped
  PROVE  pc[i] = "work" /\ at[i] \in 1..Len(StepsOf(i)) /\ WorkLeft(i)
<1>1. pc[i] = "work"
  BY WorkEffect
<1>2. at[i] \in 1..Len(StepsOf(i))
  BY <1>1, StepsShape DEF WorkTyped
<1>3. Succeeds(i) => /\ at' = at \/ (at' = [at EXCEPT ![i] = at[i] + 1] /\ at[i] < Len(StepsOf(i)))
                     /\ did' = [did EXCEPT ![i] = did[i] \cup {StepsOf(i)[at[i]]}]
                     /\ answer' = answer \/ answer' = [answer EXCEPT ![i] = "ok"]
  BY <1>2, StepsShape DEF Succeeds, Answer, OnLast
<1>4. Fails(i) => at' = at /\ did' = did /\ answer' = [answer EXCEPT ![i] = "error"]
  BY DEF Fails, Answer
<1>5. Skips(i) /\ StepsOf(i)[at[i]] \in {"look", "grace", "last", "tell"} =>
        /\ at' = [at EXCEPT ![i] = at[i] + 1] /\ at[i] < Len(StepsOf(i))
        /\ did' = did /\ answer' = answer
  BY <1>2, StepsShape DEF Skips, StepShape
<1> USE DEF WorkLeft, Stands
<1>6. CASE \E step \in {"capsule", "worktree", "spawn", "sidecar", "git", "call", "pack"} :
             Attempt(i, step)
  BY <1>1, <1>2, <1>3, <1>4, <1>6 DEF Attempt
<1>7. CASE Tell(i)
  BY <1>1, <1>2, <1>4, <1>5, <1>7 DEF Tell, Answer
<1>8. CASE Note(i)
  BY <1>1, <1>2, <1>3, <1>8 DEF Note, Answer
<1>9. CASE NextPort(i)
  <2>1. CASE FreePorts = {}
    BY <1>1, <1>2, <1>4, <1>9, <2>1 DEF NextPort
  <2>2. CASE FreePorts # {}
    <3>1. Min(FreePorts) \in Ports
      BY <2>2, MinIn DEF FreePorts
    <3>2. QED
      BY <1>1, <1>2, <1>3, <1>9, <2>2, <3>1 DEF NextPort
  <2>3. QED
    BY <2>1, <2>2
<1>10. CASE StartUnit(i)
  BY <1>1, <1>2, <1>3, <1>4, <1>10 DEF StartUnit
<1>11. CASE Look(i)
  BY <1>1, <1>2, <1>4, <1>5, <1>11 DEF Look
<1>12. CASE Signal(i)
  BY <1>1, <1>2, <1>3, <1>4, <1>12 DEF Signal
<1>13. CASE Grace(i)
  BY <1>1, <1>2, <1>5, <1>13 DEF Grace
<1>14. CASE StillSame(i)
  BY <1>1, <1>2, <1>5, <1>14 DEF StillSame, Answer
<1>15. QED
  BY <1>6, <1>7, <1>8, <1>9, <1>10, <1>11, <1>12, <1>13, <1>14
  DEF Work, WriteCapsule, AddWorktree, StartCLI, WriteSidecar, MergeWorktrees, Call, PackGate

(* What adapters leave keeps its type.                                      *)
LEMMA WorkKept ==
  ASSUME FlowTyped, WorkTyped, QueueCounted, [Next]_actorVars PROVE WorkTyped'
<1> USE DEF queueOnly, workOnly
<1>a. ASSUME UNCHANGED <<at, did, answer, proc, servers, port>>,
             \A j \in Intents : pc'[j] = "work" => pc[j] = "work"
      PROVE  WorkTyped'
  BY <1>a DEF WorkTyped, StepsOf, ToSet
<1>1. CASE UNCHANGED actorVars
  BY <1>1, <1>a DEF actorVars
<1>2. CASE Aside
  <2>1. CASE \E s \in servers : Listen(s)
    BY <2>1 DEF Listen, WorkTyped, StepsOf, ToSet
  <2>2. CASE \E i \in Working : ProcessEnds(i)
    BY <2>2, KeysOf DEF ProcessEnds, Working, WorkTyped, StepsOf, ToSet
  <2>3. QED
    BY <1>2, <2>1, <2>2 DEF Aside
<1>3. CASE Start \/ Cancel \/ SeeCancel \/ Return
  BY <1>3, <1>a DEF Start, Cancel, SeeCancel, Return
<1>4. CASE Receive
  <2>1. Head(ch) \in Intents
    BY <1>4, HeadQueued DEF Receive
  <2>2. QED
    BY <1>4, <1>a, <2>1 DEF Receive, FlowTyped
<1>5. CASE Drain /\ ch # <<>>
  <2>1. Head(ch) \in Intents
    BY <1>5, HeadQueued
  <2>2. QED
    BY <1>5, <1>a, <2>1 DEF Drain, FlowTyped
<1>6. CASE Drain /\ ch = <<>>
  BY <1>6, <1>a DEF Drain
<1>7. ASSUME NEW i \in Intents, Hand(i) \/ Enqueue(i) \/ EnqueueKill(i) \/ Send(i)
      PROVE  WorkTyped'
  BY <1>7, <1>a DEF Hand, Enqueue, EnqueueKill, Send, FlowTyped
<1>8. ASSUME NEW i \in Intents, TakeKey(i) \/ Release(i) PROVE WorkTyped'
  BY <1>8, <1>a DEF TakeKey, Release, FlowTyped
<1>9. ASSUME NEW i \in Intents, TakeSlot(i) PROVE WorkTyped'
  BY <1>9 DEF TakeSlot, Answer, FlowTyped, WorkTyped, StepsOf, ToSet
<1>10. ASSUME NEW i \in Intents, Enter(i) PROVE WorkTyped'
  <2>1. CASE at' = at /\ pc' = [pc EXCEPT ![i] = "release"]
    BY <1>10, <2>1 DEF Enter, Answer, FlowTyped, WorkTyped
  <2>2. CASE at' = [at EXCEPT ![i] = 1] /\ answer' = answer /\ pc' = [pc EXCEPT ![i] = "work"]
    <3>1. /\ at \in [Intents -> Nat] /\ pc \in [Intents -> Places]
          /\ port \in [Intents -> Ports \cup {0}]
      BY DEF FlowTyped, WorkTyped
    <3>2. /\ at' \in [Intents -> Nat] /\ at'[i] = 1
          /\ \A j \in Intents : j # i => at'[j] = at[j] /\ pc'[j] = pc[j]
      BY <2>2, <3>1
    <3>3. UNCHANGED <<did, proc, servers, port, answer>>
      BY <1>10, <2>2 DEF Enter
    <3>4. \A j \in Intents : at'[j] \in 0..Len(StepsOf(j))
      <4>1. ASSUME NEW j \in Intents, j # i PROVE at'[j] \in 0..Len(StepsOf(j))
        BY <3>2, <4>1 DEF WorkTyped
      <4>2. Len(StepsOf(i)) \in Nat \ {0}
        BY StepsShape
      <4>3. at'[i] \in 0..Len(StepsOf(i))
        BY <3>2, <4>2
      <4>4. QED
        BY <4>1, <4>3
    <3>5. ASSUME NEW j \in Intents, pc'[j] = "work"
          PROVE  at'[j] # 0 /\ (OpOf[j] = "launch" /\ at'[j] > 3 => port[j] \in Ports)
      <4>1. CASE j = i
        BY <3>2, <4>1
      <4>2. CASE j # i
        BY <3>2, <3>5, <4>2 DEF WorkTyped
      <4>3. QED
        BY <4>1, <4>2
    <3>6. \A j \in Intents : did'[j] \subseteq ToSet(StepsOf(j))
      BY <3>3 DEF WorkTyped
    <3>7. QED
      BY <3>2, <3>3, <3>4, <3>5, <3>6 DEF WorkTyped, StepsOf, ToSet
  <2>3. QED
    BY <1>10, <2>1, <2>2 DEF Enter, Answer
<1>11. ASSUME NEW i \in Intents, Work(i) PROVE WorkTyped'
  <2>1. pc[i] = "work" /\ at[i] \in 1..Len(StepsOf(i)) /\ WorkLeft(i)
    BY <1>11, WorkLeaves
  <2>2. \A j \in Intents : pc'[j] = "work" => pc[j] = "work"
    BY <1>11, WorkEffect DEF FlowTyped
  <2>3. QED
    <3>0. /\ at \in [Intents -> Nat] /\ at[i] \in Nat /\ did \in [Intents -> SUBSET StepNames]
          /\ answer \in [Intents -> {"none", "ok", "error"}]
          /\ \A j \in Intents : at[j] \in 0..Len(StepsOf(j)) /\ did[j] \subseteq ToSet(StepsOf(j))
      BY DEF WorkTyped
    <3>1. /\ at' \in [Intents -> Nat]
          /\ \A j \in Intents : j # i => at'[j] = at[j]
          /\ at'[i] = at[i] \/ (at'[i] = at[i] + 1 /\ at[i] < Len(StepsOf(i)))
      <4>1. at' = at \/ (at' = [at EXCEPT ![i] = at[i] + 1] /\ at[i] < Len(StepsOf(i)))
        BY <2>1 DEF WorkLeft
      <4>2. at[i] + 1 \in Nat
        BY <3>0
      <4>3. QED
        BY <3>0, <4>1, <4>2
    <3>2. at[i] \in Nat /\ at[i] # 0 /\ at[i] <= Len(StepsOf(i)) /\ Len(StepsOf(i)) \in Nat
      BY <2>1, <3>0, StepsShape
    <3>3. \A j \in Intents : at'[j] \in 0..Len(StepsOf(j)) /\ at'[i] # 0
      <4>1. at'[i] \in 0..Len(StepsOf(i)) /\ at'[i] # 0
        BY <3>1, <3>2
      <4>2. ASSUME NEW j \in Intents, j # i PROVE at'[j] \in 0..Len(StepsOf(j))
        BY <3>0, <3>1, <4>2
      <4>3. QED
        BY <4>1, <4>2
    <3>4. StepShape(i, at[i])
      BY <2>1, StepsShape
    <3>5. /\ did' \in [Intents -> SUBSET StepNames]
          /\ \A j \in Intents : did'[j] \subseteq ToSet(StepsOf(j))
      <4>1. did' = did \/ did' = [did EXCEPT ![i] = did[i] \cup {StepsOf(i)[at[i]]}]
        BY <2>1 DEF WorkLeft
      <4>2. StepsOf(i)[at[i]] \in StepNames /\ StepsOf(i)[at[i]] \in ToSet(StepsOf(i))
        BY <3>4 DEF StepShape
      <4>3. did[i] \in SUBSET StepNames /\ did[i] \subseteq ToSet(StepsOf(i))
        BY <3>0
      <4>4. CASE did' = did
        BY <3>0, <4>4
      <4>5. CASE did' = [did EXCEPT ![i] = did[i] \cup {StepsOf(i)[at[i]]}]
        <5>1. did[i] \cup {StepsOf(i)[at[i]]} \in SUBSET StepNames
          BY <4>2, <4>3
        <5>2. did[i] \cup {StepsOf(i)[at[i]]} \subseteq ToSet(StepsOf(i))
          BY <4>2, <4>3
        <5>3. did' \in [Intents -> SUBSET StepNames]
          BY <3>0, <4>5, <5>1
        <5>4. did'[i] \subseteq ToSet(StepsOf(i)) /\ \A j \in Intents : j # i => did'[j] = did[j]
          BY <3>0, <4>5, <5>2
        <5>5. QED
          BY <3>0, <5>3, <5>4
      <4>6. QED
        BY <4>1, <4>4, <4>5
    <3>6. answer' \in [Intents -> {"none", "ok", "error"}] /\ proc' \in [Keys -> {"same", "gone", "reused"}]
      <4>1. answer' = answer \/ \E a \in {"ok", "error"} : answer' = [answer EXCEPT ![i] = a]
        BY <2>1 DEF WorkLeft
      <4>2. proc' = proc
        BY <2>1 DEF WorkLeft
      <4>3. QED
        BY <3>0, <4>1, <4>2 DEF WorkTyped
    <3>7. servers' \subseteq [by : Intents, port : Ports, up : BOOLEAN]
      <4>1. CASE servers' = servers
        BY <4>1 DEF WorkTyped
      <4>2. CASE /\ StepsOf(i)[at[i]] = "unit"
                 /\ servers' = servers \cup {[by |-> i, port |-> port[i], up |-> FALSE]}
        <5>1. OpOf[i] = "launch" /\ at[i] > 3
          BY <3>4, <4>2 DEF StepShape
        <5>2. port[i] \in Ports
          BY <2>1, <5>1 DEF WorkTyped
        <5>3. [by |-> i, port |-> port[i], up |-> FALSE] \in [by : Intents, port : Ports, up : BOOLEAN]
          BY <5>2
        <5>4. QED
          BY <4>2, <5>3 DEF WorkTyped
      <4>3. QED
        BY <2>1, <4>1, <4>2 DEF WorkLeft
    <3>8. /\ port' \in [Intents -> Ports \cup {0}]
          /\ \A j \in Intents : j # i => port'[j] = port[j]
          /\ port'[i] = port[i] \/ port'[i] \in Ports
      <4>1. port \in [Intents -> Ports \cup {0}]
        BY DEF WorkTyped
      <4>2. port' = port \/ \E p \in Ports : port' = [port EXCEPT ![i] = p]
        BY <2>1 DEF WorkLeft
      <4>3. QED
        BY <4>1, <4>2
    <3>9. OpOf[i] = "launch" /\ at'[i] > 3 => port'[i] \in Ports
      <4> SUFFICES ASSUME OpOf[i] = "launch", at'[i] > 3, port'[i] \notin Ports PROVE FALSE
        OBVIOUS
      <4>1. port'[i] = port[i] /\ ~(at[i] > 3)
        BY <2>1, <3>8 DEF WorkTyped
      <4>2. at[i] = 3
        BY <3>1, <3>2, <4>1
      <4>3. StepsOf(i)[at[i]] = "port" /\ at' # at
        BY <3>4, <4>1, <4>2 DEF StepShape
      <4>4. QED
        BY <2>1, <4>3 DEF WorkLeft, WorkTyped
    <3>10. \A j \in Intents : pc'[j] = "work" =>
             at'[j] # 0 /\ (OpOf[j] = "launch" /\ at'[j] > 3 => port'[j] \in Ports)
      BY <2>2, <3>1, <3>3, <3>8, <3>9 DEF WorkTyped
    <3>11. QED
      BY <3>1, <3>3, <3>5, <3>6, <3>7, <3>8, <3>10 DEF WorkTyped
<1>12. QED
  BY <1>1, <1>2, <1>3, <1>4, <1>5, <1>6, <1>7, <1>8, <1>9, <1>10, <1>11, StepCases

-----------------------------------------------------------------------------
(* What an answer means.                                                    *)

(* How far an intent has come that is at its adapter.                       *)
Far(i) ==
  /\ OpOf[i] = "merge" /\ at[i] > 1 => "git" \in did[i]
  /\ OpOf[i] = "kill" /\ at[i] > 2 => "int" \in did[i]
  /\ OpOf[i] \notin {"merge", "kill"} => \A m \in 1..(at[i] - 1) : StepsOf(i)[m] \in did[i]

(* What "ok" says of an intent.                                             *)
Meant(i) ==
  /\ OpOf[i] = "merge" => "git" \in did[i]
  /\ OpOf[i] = "kill" => "int" \in did[i] /\ ("term" \in did[i] \/ proc[KeyOf[i]] # "same")
  /\ OpOf[i] \notin {"merge", "kill"} => \A m \in 1..Len(StepsOf(i)) : StepsOf(i)[m] \in did[i]

(* An intent is answered when it lets go, and "ok" only for what it did.    *)
Sound(i) ==
  /\ pc[i] \notin {"release", "done"} => answer[i] = "none"
  /\ pc[i] = "work" => Far(i)
  /\ answer[i] = "ok" => Meant(i)
AnswersSound == \A i \in Intents : Sound(i)

(* Where the steps of a merge and of a kill are, and that no other kind of  *)
(* intent has them.                                                         *)
LEMMA StepPlaces ==
  ASSUME NEW i \in Intents
  PROVE  /\ OpOf[i] = "merge" => /\ Len(StepsOf(i)) = 3 /\ StepsOf(i)[1] = "git"
                                 /\ StepsOf(i)[2] = "tell" /\ StepsOf(i)[3] = "note"
         /\ OpOf[i] = "kill" => /\ Len(StepsOf(i)) = 5 /\ StepsOf(i)[1] = "look"
                                /\ StepsOf(i)[2] = "int" /\ StepsOf(i)[3] = "grace"
                                /\ StepsOf(i)[4] = "last" /\ StepsOf(i)[5] = "term"
         /\ OpOf[i] \notin {"merge", "kill"} => \A n \in 1..Len(StepsOf(i)) :
              StepsOf(i)[n] \notin {"tell", "note", "look", "grace", "last"}
<1>1. OpOf[i] \in {"fork", "launch", "merge", "call", "kill"}
  BY ActorAssumption
<1>2. CASE OpOf[i] = "merge"
  <2>1. StepsOf(i) = <<"git", "tell", "note">>
    BY <1>2 DEF StepsOf, Steps
  <2>2. QED
    BY <1>2, <2>1
<1>3. CASE OpOf[i] = "kill"
  <2>1. StepsOf(i) = <<"look", "int", "grace", "last", "term">>
    BY <1>3 DEF StepsOf, Steps
  <2>2. QED
    BY <1>3, <2>1
<1>4. CASE OpOf[i] = "fork"
  <2>1. StepsOf(i) = <<"capsule", "worktree", "spawn", "sidecar">>
    BY <1>4 DEF StepsOf, Steps
  <2>2. QED
    BY <1>4, <2>1
<1>5. CASE OpOf[i] = "launch"
  <2>1. StepsOf(i) = <<"capsule", "pack", "port", "unit", "sidecar">>
    BY <1>5 DEF StepsOf, Steps
  <2>2. QED
    BY <1>5, <2>1
<1>6. CASE OpOf[i] = "call"
  <2>1. StepsOf(i) = <<"call">>
    BY <1>6 DEF StepsOf, Steps
  <2>2. QED
    BY <1>6, <2>1
<1>7. QED
  BY <1>1, <1>2, <1>3, <1>4, <1>5, <1>6

(* How a step at an adapter can come out: it succeeds, fails, is skipped,   *)
(* or ends the intent early, a merge that is done or a kill whose process   *)
(* is no longer there.                                                      *)
Outcome(i) ==
  \/ Succeeds(i)
  \/ Fails(i)
  \/ Skips(i) /\ StepsOf(i)[at[i]] \in {"tell", "look", "grace", "last"}
  \/ /\ StepsOf(i)[at[i]] \in {"tell", "note"}
     /\ Answer(i, "ok") /\ at' = at
     /\ did' = did \/ did' = [did EXCEPT ![i] = did[i] \cup {"tell"}]
  \/ /\ StepsOf(i)[at[i]] = "last" /\ proc[KeyOf[i]] # "same"
     /\ Answer(i, "ok") /\ UNCHANGED <<at, did>>

(* Every adapter step comes out in one of those ways.                       *)
LEMMA WorkOutcome ==
  ASSUME NEW i \in Intents, Work(i) PROVE Outcome(i) /\ proc' = proc
<1> USE DEF Stands, Outcome
<1>1. CASE \E step \in {"capsule", "worktree", "spawn", "sidecar", "git", "call", "pack"} :
             Attempt(i, step)
  BY <1>1 DEF Attempt
<1>2. CASE Tell(i)
  BY <1>2 DEF Tell
<1>3. CASE Note(i)
  BY <1>3 DEF Note
<1>4. CASE NextPort(i)
  BY <1>4 DEF NextPort
<1>5. CASE StartUnit(i)
  BY <1>5 DEF StartUnit
<1>6. CASE Look(i)
  BY <1>6 DEF Look
<1>7. CASE Signal(i)
  BY <1>7 DEF Signal
<1>8. CASE Grace(i)
  BY <1>8 DEF Grace
<1>9. CASE StillSame(i)
  BY <1>9 DEF StillSame
<1>10. QED
  BY <1>1, <1>2, <1>3, <1>4, <1>5, <1>6, <1>7, <1>8, <1>9
  DEF Work, WriteCapsule, AddWorktree, StartCLI, WriteSidecar, MergeWorktrees, Call, PackGate

(* An intent that nothing of its adapter changes stays sound, also when it  *)
(* moves on or its process ends.                                            *)
LEMMA SoundLeft ==
  ASSUME NEW i \in Intents, Sound(i),
         answer'[i] = answer[i], did'[i] = did[i], at'[i] = at[i],
         pc'[i] = "work" => pc[i] = "work",
         pc'[i] \notin {"release", "done"} => pc[i] \notin {"release", "done"},
         proc[KeyOf[i]] # "same" => proc'[KeyOf[i]] # "same"
  PROVE  Sound(i)'
BY DEF Sound, Far, Meant, StepsOf

(* The intent that takes a step at its adapter stays sound.                 *)
LEMMA SoundWorked ==
  ASSUME FlowTyped, WorkTyped, NEW i \in Intents, Sound(i), Work(i)
  PROVE  Sound(i)'
<1>1. /\ pc[i] = "work" /\ at[i] \in 1..Len(StepsOf(i)) /\ Far(i)
      /\ answer[i] = "none" /\ Len(StepsOf(i)) \in Nat \ {0}
  BY WorkLeaves, StepsShape DEF Sound
<1>2. /\ at \in [Intents -> Nat] /\ did \in [Intents -> SUBSET StepNames]
      /\ answer \in [Intents -> {"none", "ok", "error"}] /\ pc \in [Intents -> Places]
  BY DEF FlowTyped, WorkTyped
<1>3. proc' = proc
  BY WorkOutcome
<1>4. UNCHANGED StepsOf(i)
  BY DEF StepsOf
<1>5. CASE Succeeds(i) /\ ~OnLast(i)
  <2>1. /\ at'[i] = at[i] + 1 /\ did'[i] = did[i] \cup {StepsOf(i)[at[i]]}
        /\ answer'[i] = "none" /\ pc'[i] = "work"
    BY <1>1, <1>2, <1>5 DEF Succeeds
  <2>2. Far(i)'
    <3>1. OpOf[i] = "merge" => "git" \in did'[i]
      BY <1>1, <2>1, StepPlaces DEF Far
    <3>2. OpOf[i] = "kill" /\ at'[i] > 2 => "int" \in did'[i]
      BY <1>1, <2>1, StepPlaces DEF Far
    <3>3. OpOf[i] \notin {"merge", "kill"} => \A m \in 1..(at'[i] - 1) : StepsOf(i)[m] \in did'[i]
      BY <1>1, <2>1 DEF Far
    <3>4. QED
      BY <1>4, <3>1, <3>2, <3>3 DEF Far
  <2>3. QED
    BY <2>1, <2>2 DEF Sound
<1>6. CASE Succeeds(i) /\ OnLast(i)
  <2>1. /\ at[i] = Len(StepsOf(i)) /\ did'[i] = did[i] \cup {StepsOf(i)[at[i]]}
        /\ answer'[i] = "ok" /\ pc'[i] = "release"
    BY <1>2, <1>6 DEF Succeeds, OnLast, Answer
  <2>2. Meant(i)'
    <3>1. OpOf[i] = "merge" => "git" \in did'[i]
      BY <1>1, <2>1, StepPlaces DEF Far
    <3>2. OpOf[i] = "kill" => "int" \in did'[i] /\ "term" \in did'[i]
      BY <1>1, <2>1, StepPlaces DEF Far
    <3>3. OpOf[i] \notin {"merge", "kill"} => \A m \in 1..Len(StepsOf(i)) : StepsOf(i)[m] \in did'[i]
      BY <1>1, <2>1 DEF Far
    <3>4. QED
      BY <1>4, <3>1, <3>2, <3>3 DEF Meant
  <2>3. QED
    BY <2>1, <2>2 DEF Sound
<1>7. CASE Fails(i)
  <2>1. answer'[i] = "error" /\ pc'[i] = "release"
    BY <1>2, <1>7 DEF Fails, Answer
  <2>2. QED
    BY <2>1 DEF Sound
<1>8. CASE Skips(i) /\ StepsOf(i)[at[i]] \in {"tell", "look", "grace", "last"}
  <2>1. /\ at'[i] = at[i] + 1 /\ did'[i] = did[i] /\ answer'[i] = "none" /\ pc'[i] = "work"
    BY <1>1, <1>2, <1>8 DEF Skips
  <2>2. OpOf[i] \in {"merge", "kill"}
    BY <1>1, <1>8, StepPlaces
  <2>3. Far(i)'
    <3>1. OpOf[i] = "merge" => "git" \in did'[i]
      BY <1>1, <1>8, <2>1, StepPlaces DEF Far
    <3>2. OpOf[i] = "kill" /\ at'[i] > 2 => "int" \in did'[i]
      BY <1>1, <1>8, <2>1, StepPlaces DEF Far
    <3>3. QED
      BY <2>2, <3>1, <3>2 DEF Far
  <2>4. QED
    BY <2>1, <2>3 DEF Sound
<1>9. CASE /\ StepsOf(i)[at[i]] \in {"tell", "note"}
           /\ Answer(i, "ok") /\ at' = at
           /\ did' = did \/ did' = [did EXCEPT ![i] = did[i] \cup {"tell"}]
  <2>1. did[i] \subseteq did'[i] /\ answer'[i] = "ok" /\ pc'[i] = "release"
    BY <1>2, <1>9 DEF Answer
  <2>2. OpOf[i] = "merge" /\ at[i] > 1
    BY <1>1, <1>9, StepPlaces
  <2>3. Meant(i)'
    BY <1>1, <2>1, <2>2 DEF Meant, Far
  <2>4. QED
    BY <2>1, <2>3 DEF Sound
<1>10. CASE /\ StepsOf(i)[at[i]] = "last" /\ proc[KeyOf[i]] # "same"
            /\ Answer(i, "ok") /\ UNCHANGED <<at, did>>
  <2>1. did'[i] = did[i] /\ answer'[i] = "ok" /\ pc'[i] = "release"
    BY <1>2, <1>10 DEF Answer
  <2>2. OpOf[i] = "kill" /\ at[i] > 2
    BY <1>1, <1>10, StepPlaces
  <2>3. Meant(i)'
    BY <1>1, <1>3, <1>10, <2>1, <2>2 DEF Meant, Far
  <2>4. QED
    BY <2>1, <2>3 DEF Sound
<1>11. QED
  BY WorkOutcome, <1>5, <1>6, <1>7, <1>8, <1>9, <1>10 DEF Outcome

(* Every step keeps the answers sound.                                      *)
LEMMA AnswersKept ==
  ASSUME FlowTyped, WorkTyped, QueueCounted, AnswersSound, [Next]_actorVars PROVE AnswersSound'
<1> USE DEF queueOnly, workOnly
<1>0. /\ pc \in [Intents -> Places] /\ at \in [Intents -> Nat]
      /\ did \in [Intents -> SUBSET StepNames]
      /\ answer \in [Intents -> {"none", "ok", "error"}]
      /\ proc \in [Keys -> {"same", "gone", "reused"}]
  BY DEF FlowTyped, WorkTyped
<1>a. ASSUME UNCHANGED <<at, did, answer, proc>>,
             \A j \in Intents : /\ pc'[j] = "work" => pc[j] = "work"
                                /\ pc'[j] \notin {"release", "done"} => pc[j] \notin {"release", "done"}
      PROVE  AnswersSound'
  BY <1>a, SoundLeft DEF AnswersSound
<1>1. CASE UNCHANGED actorVars
  BY <1>1, <1>a DEF actorVars
<1>2. CASE Aside
  <2>1. CASE \E s \in servers : Listen(s)
    BY <2>1, <1>a DEF Listen
  <2>2. ASSUME NEW i \in Working, ProcessEnds(i) PROVE AnswersSound'
    <3>1. \A k \in Keys : proc[k] # "same" => proc'[k] # "same"
      BY <1>0, <2>2 DEF ProcessEnds
    <3>2. UNCHANGED <<pc, at, did, answer>>
      BY <2>2 DEF ProcessEnds
    <3>3. QED
      BY <3>1, <3>2, KeysOf, SoundLeft DEF AnswersSound
  <2>3. QED
    BY <1>2, <2>1, <2>2 DEF Aside
<1>3. CASE Start \/ Cancel \/ SeeCancel \/ Return
  BY <1>3, <1>a DEF Start, Cancel, SeeCancel, Return
<1>4. CASE Receive
  <2>1. Head(ch) \in Intents /\ pc[Head(ch)] = "queued"
    BY <1>4, HeadQueued DEF Receive
  <2>2. QED
    BY <1>0, <1>4, <1>a, <2>1 DEF Receive
<1>5. CASE Drain /\ ch # <<>>
  <2>1. Head(ch) \in Intents /\ pc[Head(ch)] = "queued"
    BY <1>5, HeadQueued
  <2>2. QED
    BY <1>0, <1>5, <1>a, <2>1 DEF Drain
<1>6. CASE Drain /\ ch = <<>>
  BY <1>6, <1>a DEF Drain
<1>7. ASSUME NEW i \in Intents, Hand(i) \/ Enqueue(i) \/ EnqueueKill(i) \/ Send(i)
      PROVE  AnswersSound'
  BY <1>0, <1>7, <1>a DEF Hand, Enqueue, EnqueueKill, Send, Asks
<1>8. ASSUME NEW i \in Intents, TakeKey(i) \/ Release(i) PROVE AnswersSound'
  BY <1>0, <1>8, <1>a DEF TakeKey, Release
<1>9. ASSUME NEW i \in Intents, TakeSlot(i) \/ Enter(i) PROVE AnswersSound'
  <2>1. pc[i] \in {"slot", "enter"} /\ UNCHANGED <<did, proc>>
    BY <1>9 DEF TakeSlot, Enter
  <2>2. ASSUME NEW j \in Intents, j # i PROVE Sound(j)'
    <3>1. pc'[j] = pc[j] /\ at'[j] = at[j] /\ answer'[j] = answer[j]
      BY <1>0, <1>9, <2>2 DEF TakeSlot, Enter, Answer
    <3>2. QED
      BY <2>1, <3>1, SoundLeft DEF AnswersSound
  <2>3. CASE pc'[i] = "release" /\ answer'[i] = "error"
    BY <2>2, <2>3 DEF AnswersSound, Sound
  <2>4. CASE pc'[i] = "enter" /\ at' = at /\ answer' = answer
    BY <2>1, <2>2, <2>4, SoundLeft DEF AnswersSound
  <2>5. CASE pc'[i] = "work" /\ at'[i] = 1 /\ answer' = answer
    <3>1. answer'[i] = "none"
      BY <2>1, <2>5 DEF AnswersSound, Sound
    <3>2. Far(i)'
      BY <2>5 DEF Far
    <3>3. QED
      BY <2>2, <3>1, <3>2 DEF AnswersSound, Sound
  <2>6. QED
    BY <1>0, <1>9, <2>3, <2>4, <2>5 DEF TakeSlot, Enter, Answer
<1>10. ASSUME NEW i \in Intents, Work(i) PROVE AnswersSound'
  <2>1. Sound(i)'
    BY <1>10, SoundWorked DEF AnswersSound
  <2>2. ASSUME NEW j \in Intents, j # i PROVE Sound(j)'
    <3>1. pc'[j] = pc[j]
      BY <1>0, <1>10, <2>2, WorkEffect
    <3>2. at'[j] = at[j] /\ did'[j] = did[j] /\ answer'[j] = answer[j] /\ proc' = proc
      BY <1>0, <1>10, <2>2, WorkLeaves DEF WorkLeft
    <3>3. QED
      BY <3>1, <3>2, SoundLeft DEF AnswersSound
  <2>3. QED
    BY <2>1, <2>2 DEF AnswersSound
<1>11. QED
  BY <1>1, <1>2, <1>3, <1>4, <1>5, <1>6, <1>7, <1>8, <1>9, <1>10, StepCases

-----------------------------------------------------------------------------
(* The theorems.                                                            *)

(* Run starts with the invariant.                                           *)
LEMMA ActorInit == Init => ActorInv
<1> SUFFICES ASSUME Init PROVE ActorInv
  OBVIOUS
<1>1. FlowTyped /\ RowsHeld /\ StopsInOrder
  BY DEF Init, FlowTyped, RowsHeld, StopsInOrder, Places
<1>2. WorkTyped
  BY StepsShape DEF Init, WorkTyped
<1>3. PlacesHeld
  BY FS_EmptySet, ActorAssumption DEF Init, PlacesHeld
<1>4. TicketsCounted
  <2>1. Ticketed = {}
    BY TicketedIs DEF Init, TicketPlaces
  <2>2. QED
    BY <2>1, FS_EmptySet, ActorAssumption DEF Init, TicketsCounted
<1>5. QueueCounted
  <2>1. InQueue = {} /\ ch = <<>>
    BY DEF Init, InQueue
  <2>2. QED
    BY <2>1, FS_EmptySet DEF QueueCounted
<1>6. QED
  BY <1>1, <1>2, <1>3, <1>4, <1>5 DEF ActorInv

(* The invariant of every behaviour.                                        *)
THEOREM ActorInvariant == ActorSpec => []ActorInv
<1>1. ActorInv /\ [Next]_actorVars => ActorInv'
  <2> SUFFICES ASSUME ActorInv, [Next]_actorVars PROVE ActorInv'
    OBVIOUS
  <2>1. FlowTyped /\ ch \in Seq(Intents)
    BY DEF ActorInv, QueueCounted
  <2>2. QED
    BY <2>1, FlowKept, WorkKept, RowsKept, PlacesKept, StopKept, TicketsKept, QueueKept
    DEF ActorInv
<1>2. ActorSpec => Init /\ [][Next]_actorVars
  BY PTL DEF ActorSpec
<1>3. QED
  BY <1>1, <1>2, ActorInit, PTL

(* No two workers are at one row, a confirmed kill included, at most        *)
(* maxInFlight are at an adapter, and none is left when Run has returned    *)
(* (Actor.run, enqueueConfirmedKill), for every set of intents.             *)
THEOREM WorkersAlwaysBounded == ActorSpec => []WorkersBounded
<1>1. ActorInv => WorkersBounded
  <2> SUFFICES ASSUME ActorInv PROVE WorkersBounded
    OBVIOUS
  <2>1. OneAtATime
    BY DEF ActorInv, RowsHeld, PlacesHeld, OneAtATime
  <2>2. QuietAfterRun
    BY DEF ActorInv, StopsInOrder, QuietAfterRun, Working
  <2>3. QED
    BY <2>1, <2>2 DEF WorkersBounded
<1>2. QED
  BY <1>1, ActorInvariant, PTL

(* Every ticket is held by one data intent underway, whoever holds one has  *)
(* room in the channel, and everything keeps its type (Actor.Enqueue,       *)
(* releaseTicket, dropQueued), for every bound of the queue.                *)
THEOREM BooksAlwaysKept == ActorSpec => []IntentBooks
<1>1. ActorInv => IntentBooks
  <2> SUFFICES ASSUME ActorInv PROVE IntentBooks
    OBVIOUS
  <2>1. Len(ch) <= Bound /\ \A i \in Intents : pc[i] = "ticket" => Len(ch) < Bound
    BY RoomForTickets DEF ActorInv
  <2>2. TicketsExact
    BY <2>1 DEF ActorInv, TicketsCounted, TicketsExact
  <2>3. reserved \in 0..Bound
    BY FS_CardinalityType, ActorAssumption DEF ActorInv, TicketsCounted
  <2>4. \A s \in servers : s.by \in Intents /\ s.port \in Ports /\ s.up \in BOOLEAN
    BY DEF ActorInv, WorkTyped
  <2>5. ActorTypeOK
    BY <2>1, <2>3, <2>4
    DEF ActorInv, FlowTyped, WorkTyped, PlacesHeld, QueueCounted, Places, ActorTypeOK
  <2>6. QED
    BY <2>2, <2>5 DEF IntentBooks
<1>2. QED
  BY <1>1, ActorInvariant, PTL

(* An intent answered without an error did what it stands for: every step,  *)
(* of a merge the git merge, of a kill the SIGINT and, unless the process   *)
(* was gone by then, the SIGTERM (Actor.storeResult, Kill, Merge, the       *)
(* adapters), for every set of intents.                                     *)
THEOREM OkAlwaysMeansDone == ActorSpec => []OkMeansDone
<1>1. Init => AnswersSound
  BY DEF Init, AnswersSound, Sound
<1>2. ActorInv /\ AnswersSound /\ [Next]_actorVars => AnswersSound'
  BY AnswersKept DEF ActorInv
<1>3. ActorInv /\ AnswersSound => OkMeansDone
  <2> SUFFICES ASSUME ActorInv, AnswersSound, NEW i \in Intents, answer[i] = "ok"
               PROVE  CASE OpOf[i] = "merge" -> "git" \in did[i]
                        [] OpOf[i] = "kill"  -> /\ "int" \in did[i]
                                                /\ "term" \in did[i] \/ proc[KeyOf[i]] # "same"
                        [] OTHER -> did[i] = ToSet(StepsOf(i))
    BY DEF OkMeansDone
  <2>1. Meant(i)
    BY DEF AnswersSound, Sound
  <2>2. OpOf[i] \notin {"merge", "kill"} => did[i] = ToSet(StepsOf(i))
    <3>1. did[i] \subseteq ToSet(StepsOf(i))
      BY DEF ActorInv, WorkTyped
    <3>2. DOMAIN StepsOf(i) = 1..Len(StepsOf(i))
      BY ActorAssumption DEF StepsOf, Steps
    <3>3. QED
      BY <2>1, <3>1, <3>2 DEF Meant, ToSet
  <2>3. QED
    BY <2>1, <2>2 DEF Meant
<1>4. ActorSpec => Init /\ [][Next]_actorVars
  BY PTL DEF ActorSpec
<1>5. QED
  BY <1>1, <1>2, <1>3, <1>4, ActorInvariant, PTL
=============================================================================
