------------------------------ MODULE StoreTurns ------------------------------
(* StoreQueue with a count of the critical dequeues that passed over a      *)
(* normal item Run could have taken.                                       *)
EXTENDS StoreQueue

VARIABLE passes   (* such dequeues since a normal item was last taken       *)

TurnsInit == Init /\ passes = 0

TurnsNext ==
  \/ /\ Next /\ inflight' \subseteq inflight
     /\ UNCHANGED passes
  \/ \E eligible \in Eligibles :
       /\ Pop(eligible)
       /\ passes' = IF normal' # normal THEN 0
                    ELSE IF normal \cap eligible # {} THEN passes + 1
                    ELSE passes

TurnsSpec == TurnsInit /\ [][TurnsNext]_<<queueVars, passes>>

(* A burst of critical events cannot starve the normal queue: between two  *)
(* normal dequeues at most 32 critical ones are taken while a normal item  *)
(* was ready, however timers and flushes restrict what is ready in between *)
(* (the debt comment and the choice in popQueueItemMode).                  *)
NormalWaitBounded == passes <= DebtLimit
=============================================================================
