---------------------------- MODULE MCReorderLanes ----------------------------
(* Small instances of ReorderLanes.                                        *)
EXTENDS ReorderLanes

Event(key, print, lane, seq, at, retires) ==
  [key |-> key, print |-> print, lane |-> lane, seq |-> seq, at |-> at, retires |-> retires]

(* Lane x skips one number, which comes late; z is another lane of the same *)
(* source, which skips three: the middle one comes late and collides with   *)
(* an event of x; y is the successor of x, without numbers.                 *)
Crossing ==
  {Event(1, "a", "x", 1, 1, {}), Event(2, "a", "x", 3, 1, {}), Event(3, "a", "x", 2, 2, {}),
   Event(4, "a", "x", 0, 1, {}),
   Event(5, "a", "y", 0, 2, {"ax"}), Event(6, "a", "y", 0, 2, {}),
   Event(7, "a", "z", 1, 1, {}), Event(8, "a", "z", 5, 1, {}), Event(3, "b", "z", 3, 2, {}),
   Event(10, "a", "x", 4, 2, {})}

(* All lanes are of one source and each of an actor of its own.             *)
Same == [l \in Lanes |-> "s"]
Own == [l \in Lanes |-> CASE l = "x" -> "ax" [] l = "y" -> "ay" [] OTHER -> "az"]

(* Whatever skips a number may be refused.                                  *)
Skips == {e \in Events : e.seq > 2}
=============================================================================
