-------------------------------- MODULE Forest --------------------------------
(* The graph pane, internal/ui/graph.go: the spawn forest of a published    *)
(* graph as the list of lines that View paints. A graph here is its nodes,  *)
(* in the order the pane sorts them, and its edges.                         *)
EXTENDS Integers, Sequences, FiniteSets, SequencesExt, Selections

MaxEdgeLines == 3

(* Who a node is drawn above: each pair of ends once, however many edges    *)
(* observed it, and only ends the graph has.                                *)
Spawns == {"spawn", "launch"}
Pairs(g) == {<<e.source, e.target>> : e \in {x \in g.edges :
               x.type \in Spawns /\ {x.source, x.target} \subseteq ToSet(g.nodes)}}

Kids(g, n) == Among(g.nodes, {k \in ToSet(g.nodes) : <<n, k>> \in Pairs(g)})
Roots(g) ==
  Among(g.nodes, {k \in ToSet(g.nodes) : \A n \in ToSet(g.nodes) : <<n, k>> \notin Pairs(g)})
SideEdges(g, n) ==
  {e \in g.edges : e.type \notin Spawns /\ e.source = n /\ e.target \in ToSet(g.nodes)}

Frames(ids, depth) == [i \in DOMAIN ids |-> [id |-> ids[i], depth |-> depth]]
Line(kind, id, depth) == [kind |-> kind, node |-> id, depth |-> depth]
EdgeLines(g, f) ==
  [i \in 1..(IF Cardinality(SideEdges(g, f.id)) < MaxEdgeLines
             THEN Cardinality(SideEdges(g, f.id)) ELSE MaxEdgeLines)
     |-> Line("edge", f.id, f.depth + 1)]
Drawn(out) == {out[i].node : i \in {j \in DOMAIN out : out[j].kind = "node"}}

(* The depth-first walk, one line or one choice at a time: todo is what is *)
(* left to draw, in order, and out what is drawn. A node already drawn gets *)
(* a line that refers back to it. What a cycle kept out of the forest is    *)
(* walked after it, first come.                                             *)
DrawBack(f, w) ==
  [todo |-> Tail(w.todo), left |-> w.left, out |-> Append(w.out, Line("back", f.id, f.depth))]
DrawNode(g, f, w) ==
  [todo |-> Frames(Kids(g, f.id), f.depth + 1) \o Tail(w.todo), left |-> w.left,
   out |-> Append(w.out, Line("node", f.id, f.depth)) \o EdgeLines(g, f)]
TakeLeft(w) ==
  [todo |-> IF Head(w.left) \in Drawn(w.out) THEN <<>> ELSE Frames(<<Head(w.left)>>, 0),
   left |-> Tail(w.left), out |-> w.out]
Step(g, w) ==
  IF w.todo # <<>> THEN LET f == Head(w.todo) IN
       IF f.id \in Drawn(w.out) THEN DrawBack(f, w) ELSE DrawNode(g, f, w)
  ELSE IF w.left # <<>> THEN TakeLeft(w) ELSE w

(* Every root and every pair is a frame at most once, and every node is     *)
(* taken from what is left, and a frame for it, at most once.               *)
Enough(g) == 3 * Len(g.nodes) + Cardinality(Pairs(g))
FlattenGraph(g) ==
  LET After[n \in 0..Enough(g)] ==
        IF n = 0 THEN [todo |-> Frames(Roots(g), 0), left |-> g.nodes, out |-> <<>>]
        ELSE Step(g, After[n - 1])
  IN  After[Enough(g)].out

(* "Nothing in the store goes unpainted" and a fabricated cycle ends        *)
(* (flattenGraph): every node has one line of its own, and every pair of a  *)
(* parent and a child is drawn once, as that line or a reference to it.     *)
Painted(g, out) ==
  LET Of(kinds) == {i \in DOMAIN out : out[i].kind \in kinds}
  IN  /\ Drawn(out) = ToSet(g.nodes) /\ Cardinality(Of({"node"})) = Len(g.nodes)
      /\ Cardinality({i \in Of({"node", "back"}) : out[i].depth > 0}) = Cardinality(Pairs(g))
=============================================================================
