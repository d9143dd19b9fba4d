--------------------------- MODULE OrderedDelivery ---------------------------
(***************************************************************************)
(* What a protocol lane of the Reconciler promises, whatever order its     *)
(* events arrive in: numbers are delivered upwards, and when the lane      *)
(* moves past a number without delivering it, that number is recorded as   *)
(* missing until late evidence of it arrives or the lane is released. A    *)
(* number is never delivered once the lane has moved past it.              *)
(***************************************************************************)
EXTENDS Integers

CONSTANT Lanes

VARIABLE view     (* what each lane has done: a View, or Closed *)

Closed == [open |-> FALSE, upto |-> 0, delivered |-> {}, missing |-> {}]

View == [open: BOOLEAN, upto: Nat, delivered: SUBSET Nat, missing: SUBSET Nat]

(* The first event of a lane is its baseline: nothing before it is missed.  *)
Opens(before, after) ==
  /\ before = Closed
  /\ after = [open |-> TRUE, upto |-> after.upto, delivered |-> {after.upto},
              missing |-> {}]

(* The lane moves up to a delivered number; every number it passes is       *)
(* delivered or missing.                                                    *)
Moves(before, after) ==
  /\ before.open /\ after.open
  /\ before.upto < after.upto /\ after.upto \in after.delivered
  /\ before.delivered \subseteq after.delivered
  /\ after.delivered \ before.delivered \subseteq (before.upto + 1)..after.upto
  /\ after.missing =
       before.missing \cup (((before.upto + 1)..after.upto) \ after.delivered)

(* Late evidence strikes a number off and delivers nothing.                 *)
Recovers(before, after) ==
  \E n \in before.missing :
    after = [before EXCEPT !.missing = before.missing \ {n}]

(* The lane's actor is gone or was succeeded.                               *)
Closes(after) == after = Closed

Init == view = [l \in Lanes |-> Closed]

Next ==
  /\ view' \in [Lanes -> View]
  /\ \A l \in Lanes :
       \/ view'[l] = view[l]
       \/ Opens(view[l], view'[l])
       \/ Moves(view[l], view'[l])
       \/ Recovers(view[l], view'[l])
       \/ Closes(view'[l])

Spec == Init /\ [][Next]_view

=============================================================================
