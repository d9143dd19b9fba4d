------------------------------- MODULE MCBoard -------------------------------
(* Two agents, one forked from the other, a subagent, and a local server,   *)
(* over three snapshots and graphs.                                         *)
EXTENDS Board, TLC

MCRows == {"a", "b", "c", "l"}
MCClass == [a |-> "agent", b |-> "agent", c |-> "child", l |-> "local"]
MCParentOf == [k \in MCRows |-> IF k = "c" THEN "a" ELSE "nobody"]
MCForkOf == [k \in MCRows |-> IF k = "b" THEN "a" ELSE "nobody"]
MCNameRank == [a |-> 1, b |-> 2, c |-> 3, l |-> 4]
MCMatches == <<{"b", "l"}>>

Edge(k, s, t, type) == [key |-> k, source |-> s, target |-> t, type |-> type]
Tree  == [nodes |-> <<"x", "y", "z">>,
          edges |-> {Edge(1, "x", "y", "spawn"), Edge(2, "x", "y", "launch"),
                     Edge(3, "y", "z", "message"), Edge(4, "z", "q", "spawn")}]
Cycle == [nodes |-> <<"x", "y", "z">>,
          edges |-> {Edge(1, "y", "z", "spawn"), Edge(2, "z", "y", "spawn"),
                     Edge(3, "x", "z", "spawn"), Edge(4, "q", "x", "spawn")}]
Loop  == [nodes |-> <<"y", "z">>,
          edges |-> {Edge(1, "y", "z", "spawn"), Edge(2, "z", "y", "spawn")}]
MCSnapshots ==
  {[rows |-> MCRows, done |-> {}, cpu |-> MCNameRank, graph |-> Tree],
   [rows |-> MCRows, done |-> {"c"}, cpu |-> [a |-> 2, b |-> 1, c |-> 3, l |-> 4],
    graph |-> Cycle],
   [rows |-> {"b"}, done |-> {}, cpu |-> MCNameRank, graph |-> Loop]}
MCSizes == {<<80, 12>>, <<120, 36>>}
=============================================================================
