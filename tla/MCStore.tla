------------------------------- MODULE MCStore -------------------------------
(* Small instances of Store.                                               *)
EXTENDS Store

Plain(replay, print) ==
  [replay |-> replay, print |-> print, lane |-> "none", critical |-> FALSE,
   base |-> 2, ordered |-> TRUE, stamp |-> 1, fields |-> {}, gap |-> "g1"]

(* A message, one that collides with it, and another one.                  *)
Message1  == Plain("m", "a")
Message1x == Plain("m", "b")
Message2  == Plain("n", "a")

(* A message larger than what is left above the reserve: it is dropped.     *)
Oversized == [Message2 EXCEPT !.base = 38]

Colliding == {Message1, Message1x, Message2}
OneOrLoss == {Message1, Oversized}

MCReplays == {"m", "n", "p", "q"}
MCGapCharge == [g \in {"g1"} |-> 1]
=============================================================================
