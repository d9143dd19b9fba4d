---------------------------- MODULE MCStoreQueue ----------------------------
(* Small instances of StoreQueue: a menu of events of every ingress class. *)
EXTENDS StoreQueue

Ev(replay, print, lane, isCritical, base, stamp, fields, gap) ==
  [replay |-> replay, print |-> print, lane |-> lane, critical |-> isCritical,
   base |-> base, ordered |-> TRUE, stamp |-> stamp, fields |-> fields, gap |-> gap]

(* A node observation, and another one under the same replay identity.     *)
Node1  == Ev("n", "a", "none", TRUE, 2, 1, {}, "g1")
Node1x == Ev("n", "b", "none", TRUE, 2, 1, {}, "g1")
Node2  == Ev("m", "a", "none", TRUE, 2, 1, {}, "g1")
(* Metrics of one actor: the second later and heavier, the third later     *)
(* still but without the token rate, so it may not replace the others.     *)
Metric1 == Ev("p", "a", "lane", FALSE, 2, 1, {"rate"}, "g2")
Metric2 == Ev("q", "a", "lane", FALSE, 4, 2, {"rate"}, "g2")
Metric3 == Ev("r", "a", "lane", FALSE, 2, 3, {}, "g2")
(* A message, never coalesced.                                             *)
Message == Ev("s", "a", "none", FALSE, 2, 1, {}, "g2")

MCReplays == {"n", "m", "p", "q", "r", "s"}
MCGapCharge == [g \in {"g1", "g2", "seq"} |-> 1]

(* Two observations of one node that collide, another one, and everything   *)
(* the lane takes.                                                         *)
QueueEvents == {Node1, Node1x, Node2, Metric1, Metric2, Metric3, Message}
=============================================================================
