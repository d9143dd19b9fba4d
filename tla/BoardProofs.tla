------------------------------ MODULE BoardProofs ------------------------------
(* What the terminal interface gets right, for any rows, snapshots, graphs, *)
(* texts and sizes. GraphPainted: the graph pane's walk ends and draws every *)
(* node and every edge of any finite graph. BoardInv: the cursor is on a    *)
(* line inside its window, an armed row is the one under the cursor, and no *)
(* mode of the table is on in the graph pane; it is inductive, and gives    *)
(* CursorInOrder, ConfirmAimed, PanesInOrder and CursorKept.                *)
EXTENDS Board, Inductions

-----------------------------------------------------------------------------
(* How many places of a sequence hold a member of a set.                   *)

HowMany(s, T) == Cardinality({i \in DOMAIN s : s[i] \in T})

(* The counted places are finitely many.                                   *)
LEMMA HowManyType ==
  ASSUME NEW S, NEW s \in Seq(S), NEW T
  PROVE  IsFiniteSet({i \in DOMAIN s : s[i] \in T}) /\ HowMany(s, T) \in Nat
<1>1. DOMAIN s = 1..Len(s) /\ Len(s) \in Int /\ 1 \in Int
  OBVIOUS
<1>2. IsFiniteSet(DOMAIN s)
  BY <1>1, FS_Interval
<1>3. {i \in DOMAIN s : s[i] \in T} \in SUBSET DOMAIN s
  OBVIOUS
<1>4. IsFiniteSet({i \in DOMAIN s : s[i] \in T})
  BY <1>2, <1>3, FS_Subset
<1> QED BY <1>4, FS_CardinalityType DEF HowMany

(* None of them in the empty sequence.                                     *)
LEMMA HowManyNone == ASSUME NEW T PROVE HowMany(<<>>, T) = 0
<1>1. {i \in DOMAIN <<>> : <<>>[i] \in T} = {}
  OBVIOUS
<1> QED BY <1>1, FS_EmptySet DEF HowMany

(* An element appended counts if it is in the set.                         *)
LEMMA HowManyAppend ==
  ASSUME NEW S, NEW s \in Seq(S), NEW x, NEW T
  PROVE  HowMany(Append(s, x), T) = IF x \in T THEN HowMany(s, T) + 1 ELSE HowMany(s, T)
<1> DEFINE t == Append(s, x)
           A == {i \in DOMAIN s : s[i] \in T}
           B == {i \in DOMAIN t : t[i] \in T}
           n == Len(s) + 1
<1>1. /\ DOMAIN s = 1..Len(s) /\ DOMAIN t = 1..n /\ Len(s) \in Nat
      /\ t[n] = x /\ \A i \in 1..Len(s) : t[i] = s[i]
  OBVIOUS
<1> HIDE DEF t
<1>2. B = IF x \in T THEN A \cup {n} ELSE A
  <2>1. n \notin A /\ 1..n = 1..Len(s) \cup {n}
    BY <1>1
  <2>2. ASSUME NEW i PROVE i \in B <=> i \in A \/ (i = n /\ x \in T)
    <3>1. CASE i = n
      BY <1>1, <2>1, <3>1
    <3>2. CASE i # n
      <4>1. i \in 1..n <=> i \in 1..Len(s)
        BY <2>1, <3>2
      <4> HIDE DEF n
      <4> QED BY <1>1, <3>2, <4>1
    <3> QED BY <3>1, <3>2
  <2> HIDE DEF A, B
  <2> QED BY <2>2
<1>3. n \notin A
  BY <1>1
<1>4. IsFiniteSet(A)
  BY HowManyType
<1>5. Cardinality(A \cup {n}) = Cardinality(A) + 1
  <2> HIDE DEF A, n
  <2> QED BY <1>3, <1>4, FS_AddElement
<1> QED BY <1>2, <1>5 DEF HowMany, t

(* A concatenation counts what its parts count.                            *)
LEMMA HowManyConcat ==
  ASSUME NEW S, NEW s \in Seq(S), NEW t \in Seq(S), NEW T
  PROVE  HowMany(s \o t, T) = HowMany(s, T) + HowMany(t, T)
<1> DEFINE good == {q \in Seq(S) : HowMany(s \o q, T) = HowMany(s, T) + HowMany(q, T)}
<1>1. <<>> \in good
  <2>1. s \o <<>> = s /\ <<>> \in Seq(S)
    OBVIOUS
  <2>2. HowMany(s, T) \in Nat
    BY HowManyType
  <2> QED BY <2>1, <2>2, HowManyNone
<1>2. ASSUME NEW q \in Seq(S), NEW x \in S, q \in good PROVE Append(q, x) \in good
  <2>1. s \o Append(q, x) = Append(s \o q, x) /\ s \o q \in Seq(S) /\ Append(q, x) \in Seq(S)
    OBVIOUS
  <2>2. HowMany(s \o q, T) = HowMany(s, T) + HowMany(q, T)
    BY <1>2
  <2>3. HowMany(s, T) \in Nat /\ HowMany(q, T) \in Nat
    BY HowManyType
  <2>4. HowMany(Append(q, x), T) = IF x \in T THEN HowMany(q, T) + 1 ELSE HowMany(q, T)
    BY HowManyAppend
  <2>5. HowMany(Append(s \o q, x), T)
          = IF x \in T THEN HowMany(s \o q, T) + 1 ELSE HowMany(s \o q, T)
    BY <2>1, HowManyAppend
  <2>6. HowMany(s \o Append(q, x), T) = HowMany(s, T) + HowMany(Append(q, x), T)
    <3>1. CASE x \in T
      BY <2>1, <2>2, <2>3, <2>4, <2>5, <3>1
    <3>2. CASE x \notin T
      BY <2>1, <2>2, <2>3, <2>4, <2>5, <3>2
    <3> QED BY <3>1, <3>2
  <2> QED BY <2>1, <2>6
<1> HIDE DEF good
<1>3. t \in good
  BY <1>1, <1>2, SeqInduction
<1> QED BY <1>3 DEF good

(* All of them, and none.                                                  *)
LEMMA HowManyAll ==
  ASSUME NEW S, NEW s \in Seq(S), NEW T
  PROVE  /\ (\A i \in 1..Len(s) : s[i] \in T) => HowMany(s, T) = Len(s)
         /\ (\A i \in 1..Len(s) : s[i] \notin T) => HowMany(s, T) = 0
<1>1. DOMAIN s = 1..Len(s) /\ Len(s) \in Nat
  OBVIOUS
<1>2. ASSUME \A i \in 1..Len(s) : s[i] \in T PROVE HowMany(s, T) = Len(s)
  <2>1. {i \in DOMAIN s : s[i] \in T} = 1..Len(s)
    BY <1>1, <1>2
  <2>2. 1 \in Int /\ Len(s) \in Int
    BY <1>1
  <2>3. Cardinality(1..Len(s)) = IF 1 > Len(s) THEN 0 ELSE Len(s) - 1 + 1
    BY <2>2, FS_Interval
  <2>4. Cardinality(1..Len(s)) = Len(s)
    BY <1>1, <2>3
  <2> QED BY <2>1, <2>4 DEF HowMany
<1>3. ASSUME \A i \in 1..Len(s) : s[i] \notin T PROVE HowMany(s, T) = 0
  <2>1. {i \in DOMAIN s : s[i] \in T} = {}
    BY <1>1, <1>3
  <2> QED BY <2>1, FS_EmptySet DEF HowMany
<1> QED BY <1>2, <1>3

(* Of a sequence without repetition they are as many as the members it has *)
(* in the set.                                                             *)
LEMMA HowManyOnce ==
  ASSUME NEW S, NEW s \in Seq(S), IsInjective(s), NEW T
  PROVE  IsFiniteSet(ToSet(s)) /\ HowMany(s, T) = Cardinality(ToSet(s) \cap T)
<1> DEFINE A == {i \in DOMAIN s : s[i] \in T}
           B == ToSet(s) \cap T
           f == [i \in A |-> s[i]]
<1>1. IsFiniteSet(A)
  BY HowManyType
<1>2. f \in Surjection(A, B)
  <2>1. f \in [A -> B]
    BY DEF ToSet
  <2>2. \A x \in B : \E i \in A : f[i] = x
    BY DEF ToSet
  <2> HIDE DEF f, A, B
  <2> QED BY <2>1, <2>2 DEF Surjection
<1>3. f \in Injection(A, B)
  <2>1. f \in [A -> B]
    BY DEF ToSet
  <2>2. \A i, j \in A : f[i] = f[j] => i = j
    BY DEF IsInjective
  <2> HIDE DEF f, A, B
  <2> QED BY <2>1, <2>2 DEF Injection, IsInjective
<1>4. Cardinality(B) = Cardinality(A)
  <2> HIDE DEF f, A, B
  <2> QED BY <1>1, <1>2, <1>3, FS_Surjection
<1>5. IsFiniteSet(ToSet(s))
  <2> DEFINE D == DOMAIN s
             R == ToSet(s)
  <2>1. D = 1..Len(s) /\ Len(s) \in Int /\ 1 \in Int
    OBVIOUS
  <2>2. IsFiniteSet(D)
    BY <2>1, FS_Interval
  <2>3. s \in [D -> R] /\ \A x \in R : \E i \in D : s[i] = x
    BY <2>1 DEF ToSet
  <2> HIDE DEF D, R
  <2>4. s \in Surjection(D, R)
    BY <2>3 DEF Surjection
  <2> QED BY <2>2, <2>4, FS_Surjection DEF R
<1> QED BY <1>4, <1>5 DEF HowMany

(* A selection is as long as there are places it selects.                  *)
LEMMA AmongLength ==
  ASSUME NEW S, NEW s \in Seq(S), NEW T
  PROVE  Among(s, T) \in Seq(S) /\ Len(Among(s, T)) = HowMany(s, T)
<1> DEFINE good == {q \in Seq(S) : Len(Among(q, T)) = HowMany(q, T)}
<1>1. <<>> \in good
  <2>1. <<>> \in Seq(S) /\ Len(<<>>) = 0
    OBVIOUS
  <2> QED BY <2>1, AmongNone, HowManyNone
<1>2. ASSUME NEW q \in Seq(S), NEW x \in S, q \in good PROVE Append(q, x) \in good
  <2>1. Among(Append(q, x), T) = IF x \in T THEN Append(Among(q, T), x) ELSE Among(q, T)
    BY AmongAppend
  <2>2. HowMany(Append(q, x), T) = IF x \in T THEN HowMany(q, T) + 1 ELSE HowMany(q, T)
    BY HowManyAppend
  <2>3. Among(q, T) \in Seq(S) /\ Append(q, x) \in Seq(S)
    BY AmongMembers
  <2>4. Len(Append(Among(q, T), x)) = Len(Among(q, T)) + 1
    BY <2>3
  <2> QED BY <1>2, <2>1, <2>2, <2>3, <2>4
<1> HIDE DEF good
<1>3. s \in good
  BY <1>1, <1>2, SeqInduction
<1> QED BY <1>3, AmongMembers DEF good


-----------------------------------------------------------------------------
(* The forest: what each step of the walk adds.                            *)

GraphOK(g) ==
  /\ g.nodes \in Seq(ToSet(g.nodes)) /\ IsInjective(g.nodes) /\ IsFiniteSet(g.edges)

FrameSet(g) == [id : ToSet(g.nodes), depth : Nat]
LineSet(g)  == [kind : {"node", "back", "edge"}, node : ToSet(g.nodes), depth : Nat]
NodeLines(g)  == {x \in LineSet(g) : x.kind = "node"}
LowerLines(g) == {x \in LineSet(g) : x.kind \in {"node", "back"} /\ x.depth > 0}
LowerFrames(g) == {x \in FrameSet(g) : x.depth > 0}

(* The pairs whose parent is one of some nodes.                            *)
Under(g, D) == {p \in Pairs(g) : p[1] \in D}

LEMMA PairsFinite ==
  ASSUME NEW g, GraphOK(g)
  PROVE  /\ IsFiniteSet(Pairs(g)) /\ Pairs(g) \subseteq ToSet(g.nodes) \X ToSet(g.nodes)
         /\ \A D : IsFiniteSet(Under(g, D)) /\ Cardinality(Under(g, D)) \in Nat
                   /\ Cardinality(Under(g, D)) <= Cardinality(Pairs(g))
         /\ Cardinality(Pairs(g)) \in Nat
<1> DEFINE E == {x \in g.edges : x.type \in Spawns /\ {x.source, x.target} \subseteq ToSet(g.nodes)}
           P == Pairs(g)
           f == [e \in E |-> <<e.source, e.target>>]
<1>1. IsFiniteSet(E)
  <2>1. E \in SUBSET g.edges /\ IsFiniteSet(g.edges)
    BY DEF GraphOK
  <2> HIDE DEF E
  <2> QED BY <2>1, FS_Subset
<1>2. P = {<<e.source, e.target>> : e \in E}
  BY DEF Pairs
<1>3. f \in [E -> P] /\ \A p \in P : \E e \in E : f[e] = p
  <2> HIDE DEF E, P
  <2> QED BY <1>2
<1>4. IsFiniteSet(P)
  <2> HIDE DEF E, P, f
  <2>1. f \in Surjection(E, P)
    BY <1>3 DEF Surjection
  <2> QED BY <1>1, <2>1, FS_Surjection
<1>5. P \subseteq ToSet(g.nodes) \X ToSet(g.nodes)
  <2> SUFFICES ASSUME NEW e \in E PROVE <<e.source, e.target>> \in ToSet(g.nodes) \X ToSet(g.nodes)
    <3> HIDE DEF E, P
    <3> QED BY <1>2
  <2> QED OBVIOUS
<1>6. ASSUME NEW D
      PROVE  IsFiniteSet(Under(g, D)) /\ Cardinality(Under(g, D)) \in Nat
             /\ Cardinality(Under(g, D)) <= Cardinality(P)
  <2>1. Under(g, D) \in SUBSET P
    BY DEF Under
  <2> HIDE DEF P
  <2> QED BY <1>4, <2>1, FS_Subset, FS_CardinalityType
<1>7. Cardinality(P) \in Nat
  <2> HIDE DEF P
  <2> QED BY <1>4, FS_CardinalityType
<1> QED BY <1>4, <1>5, <1>6, <1>7

(* A node has as many children to draw as pairs it is the parent of.       *)
LEMMA KidsLength ==
  ASSUME NEW g, GraphOK(g), NEW n \in ToSet(g.nodes)
  PROVE  /\ Kids(g, n) \in Seq(ToSet(g.nodes))
         /\ Len(Kids(g, n)) = Cardinality(Under(g, {n}))
<1> DEFINE N == ToSet(g.nodes)
           T == {k \in N : <<n, k>> \in Pairs(g)}
           U == Under(g, {n})
           f == [k \in T |-> <<n, k>>]
<1>1. Kids(g, n) = Among(g.nodes, T)
  BY DEF Kids
<1>2. g.nodes \in Seq(N) /\ IsInjective(g.nodes)
  BY DEF GraphOK
<1>3. Kids(g, n) \in Seq(N) /\ Len(Kids(g, n)) = HowMany(g.nodes, T)
  <2> HIDE DEF N, T
  <2> QED BY <1>1, <1>2, AmongLength
<1>4. IsFiniteSet(N) /\ HowMany(g.nodes, T) = Cardinality(N \cap T)
  <2> HIDE DEF T
  <2> QED BY <1>2, HowManyOnce
<1>5. N \cap T = T /\ T \in SUBSET N
  OBVIOUS
<1>6. IsFiniteSet(T)
  <2> HIDE DEF N, T
  <2> QED BY <1>4, <1>5, FS_Subset
<1>7. f \in [T -> U] /\ \A p \in U : \E k \in T : f[k] = p
  <2>1. \A k \in T : <<n, k>> \in U
    BY DEF Under
  <2>2. ASSUME NEW p \in U PROVE \E k \in T : p = <<n, k>>
    <3>1. p \in Pairs(g) /\ p[1] = n
      BY DEF Under
    <3>2. p \in N \X N
      BY <3>1, PairsFinite
    <3>3. p = <<n, p[2]>> /\ p[2] \in N
      BY <3>1, <3>2
    <3>4. p[2] \in T
      BY <3>1, <3>3
    <3> QED BY <3>3, <3>4
  <2> HIDE DEF T, U
  <2> QED BY <2>1, <2>2
<1>8. \A a, b \in T : f[a] = f[b] => a = b
  <2> HIDE DEF T
  <2> QED OBVIOUS
<1>9. Cardinality(U) = Cardinality(T)
  <2> HIDE DEF T, U, f
  <2>1. f \in Surjection(T, U) /\ f \in Injection(T, U)
    BY <1>7, <1>8 DEF Surjection, Injection, IsInjective
  <2> QED BY <1>6, <2>1, FS_Surjection
<1> QED BY <1>3, <1>4, <1>5, <1>9

(* Frames are as many as the nodes they are of, and as deep as asked.      *)
LEMMA FramesTyped ==
  ASSUME NEW g, NEW ids \in Seq(ToSet(g.nodes)), NEW d \in Nat
  PROVE  /\ Frames(ids, d) \in Seq(FrameSet(g)) /\ Len(Frames(ids, d)) = Len(ids)
         /\ d > 0 => HowMany(Frames(ids, d), LowerFrames(g)) = Len(ids)
         /\ d = 0 => HowMany(Frames(ids, d), LowerFrames(g)) = 0
         /\ \A i \in 1..Len(ids) : Frames(ids, d)[i].id = ids[i]
<1> DEFINE fr == Frames(ids, d)
<1>1. DOMAIN ids = 1..Len(ids) /\ Len(ids) \in Nat /\ \A i \in 1..Len(ids) : ids[i] \in ToSet(g.nodes)
  OBVIOUS
<1>2. fr = [i \in 1..Len(ids) |-> [id |-> ids[i], depth |-> d]]
  BY <1>1 DEF Frames
<1>3. fr \in [1..Len(ids) -> FrameSet(g)]
  BY <1>1, <1>2 DEF FrameSet
<1>4. \A i \in 1..Len(ids) : fr[i].id = ids[i] /\ fr[i].depth = d
  BY <1>2
<1> HIDE DEF fr
<1>5. fr \in Seq(FrameSet(g)) /\ Len(fr) = Len(ids)
  BY <1>1, <1>3, NumberedIsSeq
<1>6. ASSUME d > 0 PROVE HowMany(fr, LowerFrames(g)) = Len(ids)
  <2>1. \A i \in 1..Len(fr) : fr[i] \in LowerFrames(g)
    BY <1>3, <1>4, <1>5, <1>6 DEF LowerFrames
  <2> QED BY <1>5, <2>1, HowManyAll
<1>7. ASSUME d = 0 PROVE HowMany(fr, LowerFrames(g)) = 0
  <2>1. \A i \in 1..Len(fr) : fr[i] \notin LowerFrames(g)
    BY <1>3, <1>4, <1>5, <1>7 DEF LowerFrames
  <2> QED BY <1>5, <2>1, HowManyAll
<1> QED BY <1>4, <1>5, <1>6, <1>7 DEF fr

(* Lines of other edges are neither nodes nor references to one.           *)
LEMMA EdgeLinesTyped ==
  ASSUME NEW g, GraphOK(g), NEW f \in FrameSet(g)
  PROVE  /\ EdgeLines(g, f) \in Seq(LineSet(g))
         /\ \A i \in 1..Len(EdgeLines(g, f)) : EdgeLines(g, f)[i].kind = "edge"
         /\ HowMany(EdgeLines(g, f), NodeLines(g)) = 0
         /\ HowMany(EdgeLines(g, f), LowerLines(g)) = 0
<1> DEFINE S == SideEdges(g, f.id)
           n == IF Cardinality(S) < MaxEdgeLines THEN Cardinality(S) ELSE MaxEdgeLines
           l == Line("edge", f.id, f.depth + 1)
           q == EdgeLines(g, f)
<1>1. IsFiniteSet(S)
  <2>1. S \in SUBSET g.edges /\ IsFiniteSet(g.edges)
    BY DEF GraphOK, SideEdges
  <2> HIDE DEF S
  <2> QED BY <2>1, FS_Subset
<1>2. n \in Nat
  <2> HIDE DEF S
  <2> QED BY <1>1, FS_CardinalityType DEF MaxEdgeLines
<1>3. q = [i \in 1..n |-> l]
  BY DEF EdgeLines
<1>4. l \in LineSet(g) /\ l.kind = "edge"
  BY DEF Line, LineSet, FrameSet
<1> HIDE DEF q, n, l
<1>5. q \in Seq(LineSet(g)) /\ Len(q) = n
  BY <1>2, <1>3, <1>4, NumberedIsSeq
<1>6. \A i \in 1..Len(q) : q[i] = l
  BY <1>3, <1>5
<1>7. l \notin NodeLines(g) /\ l \notin LowerLines(g)
  BY <1>4 DEF NodeLines, LowerLines
<1>8. HowMany(q, NodeLines(g)) = 0 /\ HowMany(q, LowerLines(g)) = 0
  BY <1>5, <1>6, <1>7, HowManyAll
<1> QED BY <1>4, <1>5, <1>6, <1>8 DEF q


(* What a line more makes drawn.                                           *)
LEMMA DrawnAppend ==
  ASSUME NEW g, NEW out \in Seq(LineSet(g)), NEW l \in LineSet(g)
  PROVE  /\ Drawn(out) \subseteq ToSet(g.nodes)
         /\ Append(out, l) \in Seq(LineSet(g))
         /\ Drawn(Append(out, l)) = IF l.kind = "node" THEN Drawn(out) \cup {l.node} ELSE Drawn(out)
<1> DEFINE t == Append(out, l)
<1>1. /\ t \in Seq(LineSet(g)) /\ DOMAIN out = 1..Len(out) /\ DOMAIN t = 1..(Len(out) + 1)
      /\ Len(out) \in Nat /\ t[Len(out) + 1] = l
      /\ \A i \in 1..Len(out) : t[i] = out[i] /\ out[i] \in LineSet(g)
  OBVIOUS
<1> HIDE DEF t
<1>2. ASSUME NEW x PROVE x \in Drawn(t) <=> x \in Drawn(out) \/ (l.kind = "node" /\ x = l.node)
  <2>1. ASSUME x \in Drawn(t) PROVE x \in Drawn(out) \/ (l.kind = "node" /\ x = l.node)
    <3>1. PICK i \in 1..(Len(out) + 1) : t[i].kind = "node" /\ x = t[i].node
      BY <1>1, <2>1 DEF Drawn
    <3>2. CASE i = Len(out) + 1
      BY <1>1, <3>1, <3>2
    <3>3. CASE i # Len(out) + 1
      <4>1. i \in 1..Len(out)
        BY <1>1, <3>3
      <4> QED BY <1>1, <3>1, <4>1 DEF Drawn
    <3> QED BY <3>2, <3>3
  <2>2. ASSUME x \in Drawn(out) PROVE x \in Drawn(t)
    <3>1. PICK i \in 1..Len(out) : out[i].kind = "node" /\ x = out[i].node
      BY <1>1, <2>2 DEF Drawn
    <3>2. i \in 1..(Len(out) + 1) /\ t[i] = out[i]
      BY <1>1
    <3> QED BY <1>1, <3>1, <3>2 DEF Drawn
  <2>3. ASSUME l.kind = "node", x = l.node PROVE x \in Drawn(t)
    <3>1. Len(out) + 1 \in 1..(Len(out) + 1)
      BY <1>1
    <3> QED BY <1>1, <2>3, <3>1 DEF Drawn
  <2> QED BY <2>1, <2>2, <2>3
<1>3. Drawn(out) \subseteq ToSet(g.nodes)
  BY <1>1 DEF Drawn, LineSet
<1>4. Drawn(t) = IF l.kind = "node" THEN Drawn(out) \cup {l.node} ELSE Drawn(out)
  BY <1>2
<1> QED BY <1>1, <1>3, <1>4 DEF t

(* Lines without a node draw none.                                         *)
LEMMA DrawnConcat ==
  ASSUME NEW g, NEW out \in Seq(LineSet(g)), NEW es \in Seq(LineSet(g)),
         \A i \in 1..Len(es) : es[i].kind = "edge"
  PROVE  out \o es \in Seq(LineSet(g)) /\ Drawn(out \o es) = Drawn(out)
<1> DEFINE t == out \o es
<1>1. /\ t \in Seq(LineSet(g)) /\ DOMAIN out = 1..Len(out) /\ DOMAIN t = 1..(Len(out) + Len(es))
      /\ Len(out) \in Nat /\ Len(es) \in Nat
      /\ \A i \in 1..(Len(out) + Len(es)) : t[i] = IF i <= Len(out) THEN out[i] ELSE es[i - Len(out)]
  OBVIOUS
<1> HIDE DEF t
<1>2. ASSUME NEW x PROVE x \in Drawn(t) <=> x \in Drawn(out)
  <2>1. ASSUME x \in Drawn(t) PROVE x \in Drawn(out)
    <3>1. PICK i \in 1..(Len(out) + Len(es)) : t[i].kind = "node" /\ x = t[i].node
      BY <1>1, <2>1 DEF Drawn
    <3>2. CASE i <= Len(out)
      <4>1. i \in 1..Len(out) /\ t[i] = out[i]
        BY <1>1, <3>2
      <4> QED BY <1>1, <3>1, <4>1 DEF Drawn
    <3>3. CASE ~(i <= Len(out))
      <4>1. i - Len(out) \in 1..Len(es)
        BY <1>1, <3>3
      <4> QED BY <1>1, <3>1, <3>3, <4>1
    <3> QED BY <3>2, <3>3
  <2>2. ASSUME x \in Drawn(out) PROVE x \in Drawn(t)
    <3>1. PICK i \in 1..Len(out) : out[i].kind = "node" /\ x = out[i].node
      BY <1>1, <2>2 DEF Drawn
    <3>2. i \in 1..(Len(out) + Len(es)) /\ t[i] = out[i]
      BY <1>1
    <3> QED BY <1>1, <3>1, <3>2 DEF Drawn
  <2> QED BY <2>1, <2>2
<1> QED BY <1>1, <1>2 DEF t

(* A frame of a node under another counts once.                            *)
LEMMA FirstOfAll ==
  ASSUME NEW S, NEW s \in Seq(S), s # <<>>, NEW T
  PROVE  /\ Head(s) \in S /\ Tail(s) \in Seq(S) /\ Len(Tail(s)) = Len(s) - 1 /\ Len(s) > 0
         /\ s[1] = Head(s) /\ \A i \in 2..Len(s) : s[i] = Tail(s)[i - 1]
         /\ HowMany(s, T) = HowMany(Tail(s), T) + (IF Head(s) \in T THEN 1 ELSE 0)
<1>1. /\ Head(s) \in S /\ Tail(s) \in Seq(S) /\ Len(Tail(s)) = Len(s) - 1 /\ Len(s) > 0
      /\ s[1] = Head(s) /\ \A i \in 2..Len(s) : s[i] = Tail(s)[i - 1]
  OBVIOUS
<1> DEFINE h == Head(s)
           r == Tail(s)
<1>2. s = Append(<<>>, h) \o r /\ <<>> \in Seq(S) /\ Append(<<>>, h) \in Seq(S)
  BY <1>1
<1> HIDE DEF h, r
<1>3. HowMany(s, T) = HowMany(Append(<<>>, h), T) + HowMany(r, T)
  <2>1. r \in Seq(S)
    BY <1>1 DEF r
  <2> QED BY <1>2, <2>1, HowManyConcat
<1>4. HowMany(Append(<<>>, h), T) = IF h \in T THEN 1 ELSE 0
  <2>1. HowMany(Append(<<>>, h), T)
          = IF h \in T THEN HowMany(<<>>, T) + 1 ELSE HowMany(<<>>, T)
    <3> DEFINE none == <<>>
    <3>1. none \in Seq(S)
      OBVIOUS
    <3> HIDE DEF none
    <3>2. HowMany(Append(none, h), T) = IF h \in T THEN HowMany(none, T) + 1 ELSE HowMany(none, T)
      BY <3>1, HowManyAppend
    <3> QED BY <3>2, Zenon DEF none
  <2>2. HowMany(<<>>, T) = 0
    BY HowManyNone
  <2> QED BY <2>1, <2>2
<1>5. HowMany(r, T) \in Nat
  <2>1. r \in Seq(S)
    BY <1>1 DEF r
  <2> QED BY <2>1, HowManyType
<1>6. HowMany(s, T) = HowMany(r, T) + (IF h \in T THEN 1 ELSE 0)
  BY <1>3, <1>4, <1>5
<1> QED BY <1>1, <1>6 DEF h, r

-----------------------------------------------------------------------------
(* The walk: every node is drawn or on its way, and there is a line or a   *)
(* frame for every pair whose parent is drawn.                             *)

Awaited(w) == {w.todo[i].id : i \in 1..Len(w.todo)}
WalkStates(g) ==
  [todo : Seq(FrameSet(g)), left : Seq(ToSet(g.nodes)), out : Seq(LineSet(g))]
Walked(g, w) ==
  /\ w \in WalkStates(g)
  /\ HowMany(w.out, NodeLines(g)) = Cardinality(Drawn(w.out))
  /\ HowMany(w.out, LowerLines(g)) + HowMany(w.todo, LowerFrames(g))
       = Cardinality(Under(g, Drawn(w.out)))
  /\ ToSet(g.nodes) \subseteq Drawn(w.out) \cup ToSet(w.left) \cup Awaited(w)
Remains(g, w) ==
  Len(w.todo) + Cardinality(Under(g, ToSet(g.nodes) \ Drawn(w.out))) + 2 * Len(w.left)
Finished(w) == w.todo = <<>> /\ w.left = <<>>

LEMMA RemainsType ==
  ASSUME NEW g, GraphOK(g), NEW w, Walked(g, w)
  PROVE  Remains(g, w) \in Nat
<1>1. Len(w.todo) \in Nat /\ Len(w.left) \in Nat
  BY DEF Walked, WalkStates
<1>2. Cardinality(Under(g, ToSet(g.nodes) \ Drawn(w.out))) \in Nat
  BY PairsFinite
<1> QED BY <1>1, <1>2 DEF Remains


LEMMA UnderSplit ==
  ASSUME NEW g, GraphOK(g), NEW D, NEW E, D \cap E = {}
  PROVE  Cardinality(Under(g, D \cup E)) = Cardinality(Under(g, D)) + Cardinality(Under(g, E))
<1> DEFINE a == Under(g, D)
           b == Under(g, E)
<1>1. Under(g, D \cup E) = a \cup b /\ a \cap b = {}
  BY DEF Under
<1>2. IsFiniteSet(a) /\ IsFiniteSet(b) /\ Cardinality(a) \in Nat /\ Cardinality(b) \in Nat
  BY PairsFinite
<1> HIDE DEF a, b
<1>3. Cardinality(a \cup b) = Cardinality(a) + Cardinality(b) - Cardinality(a \cap b)
  BY <1>2, FS_Union
<1>4. Cardinality(a \cap b) = 0
  BY <1>1, FS_EmptySet
<1>5. Cardinality(a \cup b) = Cardinality(a) + Cardinality(b)
  BY <1>2, <1>3, <1>4
<1> QED BY <1>1, <1>5 DEF a, b

(* The places of a concatenation.                                          *)
LEMMA ConcatPlaces ==
  ASSUME NEW S, NEW s \in Seq(S), NEW t \in Seq(S)
  PROVE  /\ s \o t \in Seq(S) /\ Len(s \o t) = Len(s) + Len(t)
         /\ Len(s) \in Nat /\ Len(t) \in Nat
         /\ \A i \in 1..Len(s) : (s \o t)[i] = s[i]
         /\ \A i \in 1..Len(t) : (s \o t)[Len(s) + i] = t[i]
<1> DEFINE u == s \o t
<1>1. /\ u \in Seq(S) /\ Len(u) = Len(s) + Len(t) /\ Len(s) \in Nat /\ Len(t) \in Nat
      /\ \A i \in 1..(Len(s) + Len(t)) : u[i] = IF i <= Len(s) THEN s[i] ELSE t[i - Len(s)]
  OBVIOUS
<1> HIDE DEF u
<1>2. \A i \in 1..Len(s) : u[i] = s[i]
  BY <1>1
<1>3. ASSUME NEW i \in 1..Len(t) PROVE u[Len(s) + i] = t[i]
  <2>1. Len(s) + i \in 1..(Len(s) + Len(t)) /\ ~(Len(s) + i <= Len(s))
        /\ (Len(s) + i) - Len(s) = i
    BY <1>1
  <2> QED BY <1>1, <2>1
<1> QED BY <1>1, <1>2, <1>3 DEF u

(* A line back to a node that is drawn.                                    *)
LEMMA BackWalks ==
  ASSUME NEW g, GraphOK(g), NEW w, Walked(g, w), w.todo # <<>>, Head(w.todo).id \in Drawn(w.out)
  PROVE  LET v == DrawBack(Head(w.todo), w)
         IN  Walked(g, v) /\ Remains(g, v) < Remains(g, w)
<1> DEFINE f == Head(w.todo)
           l == Line("back", f.id, f.depth)
           v == DrawBack(f, w)
           N == ToSet(g.nodes)
<1>1. /\ w.todo \in Seq(FrameSet(g)) /\ w.left \in Seq(N) /\ w.out \in Seq(LineSet(g))
      /\ w = [todo |-> w.todo, left |-> w.left, out |-> w.out]
  BY DEF Walked, WalkStates
<1>2. v.todo = Tail(w.todo) /\ v.left = w.left /\ v.out = Append(w.out, l)
      /\ v = [todo |-> Tail(w.todo), left |-> w.left, out |-> Append(w.out, l)]
  BY DEF DrawBack
<1>3. /\ f \in FrameSet(g) /\ Tail(w.todo) \in Seq(FrameSet(g))
      /\ Len(Tail(w.todo)) = Len(w.todo) - 1 /\ Len(w.todo) > 0 /\ Len(w.todo) \in Nat
      /\ w.todo[1] = f /\ \A i \in 2..Len(w.todo) : w.todo[i] = Tail(w.todo)[i - 1]
      /\ HowMany(w.todo, LowerFrames(g))
           = HowMany(Tail(w.todo), LowerFrames(g)) + (IF f \in LowerFrames(g) THEN 1 ELSE 0)
  BY <1>1, FirstOfAll
<1>4. l \in LineSet(g) /\ l.kind = "back" /\ l \notin NodeLines(g)
      /\ (l \in LowerLines(g) <=> f \in LowerFrames(g))
  BY <1>3 DEF Line, LineSet, FrameSet, NodeLines, LowerLines, LowerFrames
<1>5. f.id \in Drawn(w.out)
  OBVIOUS
<1> HIDE DEF v, f, l, N
<1>6. v.out \in Seq(LineSet(g)) /\ Drawn(v.out) = Drawn(w.out)
  BY <1>1, <1>2, <1>4, DrawnAppend
<1>7. v \in WalkStates(g)
  BY <1>1, <1>2, <1>3, <1>6 DEF WalkStates, N
<1>8. HowMany(v.out, NodeLines(g)) = Cardinality(Drawn(v.out))
  <2>1. HowMany(Append(w.out, l), NodeLines(g)) = HowMany(w.out, NodeLines(g))
    BY <1>1, <1>4, HowManyAppend
  <2> QED BY <1>2, <1>6, <2>1 DEF Walked
<1>9. HowMany(v.out, LowerLines(g)) + HowMany(v.todo, LowerFrames(g))
        = Cardinality(Under(g, Drawn(v.out)))
  <2> DEFINE a == HowMany(w.out, LowerLines(g))
             b == HowMany(Tail(w.todo), LowerFrames(g))
             c == Cardinality(Under(g, Drawn(w.out)))
  <2>1. HowMany(Append(w.out, l), LowerLines(g)) = IF l \in LowerLines(g) THEN a + 1 ELSE a
    BY <1>1, HowManyAppend
  <2>2. a \in Nat /\ b \in Nat
    BY <1>1, <1>3, HowManyType
  <2>3. a + HowMany(w.todo, LowerFrames(g)) = c
    BY DEF Walked
  <2> HIDE DEF a, b, c
  <2>4. HowMany(Append(w.out, l), LowerLines(g)) + b = c
    BY <1>3, <1>4, <2>1, <2>2, <2>3 DEF b
  <2> QED BY <1>2, <1>6, <2>4 DEF b, c
<1>10. N \subseteq Drawn(v.out) \cup ToSet(v.left) \cup Awaited(v)
  <2> SUFFICES ASSUME NEW x \in N, x \notin Drawn(w.out), x \notin ToSet(w.left)
               PROVE  x \in Awaited(v)
    BY <1>2, <1>6
  <2>1. PICK i \in 1..Len(w.todo) : w.todo[i].id = x
    BY DEF Walked, Awaited, N
  <2>2. i # 1
    BY <1>3, <1>5, <2>1
  <2>3. i \in 2..Len(w.todo) /\ i - 1 \in 1..Len(v.todo)
    BY <1>2, <1>3, <2>2
  <2> QED BY <1>2, <1>3, <2>1, <2>3 DEF Awaited
<1>11. Remains(g, v) < Remains(g, w)
  <2>1. Cardinality(Under(g, N \ Drawn(w.out))) \in Nat /\ Len(w.left) \in Nat
    BY <1>1, PairsFinite
  <2> DEFINE a == Cardinality(Under(g, N \ Drawn(w.out)))
  <2>2. Remains(g, v) = (Len(w.todo) - 1) + a + 2 * Len(w.left)
    BY <1>2, <1>3, <1>6 DEF Remains, N
  <2>3. Remains(g, w) = Len(w.todo) + a + 2 * Len(w.left)
    BY DEF Remains, N
  <2> DEFINE t == Len(w.todo)
             e == Len(w.left)
  <2>4. a \in Nat /\ t \in Nat /\ e \in Nat
    BY <1>3, <2>1
  <2> HIDE DEF a, t, e
  <2>5. (t - 1) + a + 2 * e < t + a + 2 * e
    BY <2>4
  <2> QED BY <2>2, <2>3, <2>5 DEF a, t, e
<1>12. Walked(g, v)
  BY <1>7, <1>8, <1>9, <1>10 DEF Walked, N
<1> QED BY <1>11, <1>12 DEF v, f

(* A node's own line, after which its children are next.                   *)
LEMMA NodeWalks ==
  ASSUME NEW g, GraphOK(g), NEW w, Walked(g, w), w.todo # <<>>, Head(w.todo).id \notin Drawn(w.out)
  PROVE  LET v == DrawNode(g, Head(w.todo), w)
         IN  Walked(g, v) /\ Remains(g, v) < Remains(g, w)
<1> DEFINE f == Head(w.todo)
           l == Line("node", f.id, f.depth)
           v == DrawNode(g, f, w)
           N == ToSet(g.nodes)
           kids == Frames(Kids(g, f.id), f.depth + 1)
           es == EdgeLines(g, f)
           mid == Append(w.out, l)
           rest == Tail(w.todo)
           FS == LowerFrames(g)
           LS == LowerLines(g)
           NS == NodeLines(g)
<1>1. /\ w.todo \in Seq(FrameSet(g)) /\ w.left \in Seq(N) /\ w.out \in Seq(LineSet(g))
      /\ w = [todo |-> w.todo, left |-> w.left, out |-> w.out]
  BY DEF Walked, WalkStates
<1>2. v = [todo |-> kids \o rest, left |-> w.left, out |-> mid \o es]
  BY DEF DrawNode
<1>3. /\ f \in FrameSet(g) /\ rest \in Seq(FrameSet(g))
      /\ Len(rest) = Len(w.todo) - 1 /\ Len(w.todo) > 0 /\ Len(w.todo) \in Nat
      /\ w.todo[1] = f /\ \A i \in 2..Len(w.todo) : w.todo[i] = rest[i - 1]
      /\ HowMany(w.todo, FS) = HowMany(rest, FS) + (IF f \in FS THEN 1 ELSE 0)
  BY <1>1, FirstOfAll
<1>4. /\ l \in LineSet(g) /\ l.kind = "node" /\ l.node = f.id /\ l \in NS
      /\ (l \in LS <=> f \in FS) /\ f.id \in N /\ f.depth + 1 \in Nat /\ f.depth + 1 > 0
  BY <1>3 DEF Line, LineSet, FrameSet, NodeLines, LowerLines, LowerFrames
<1>5. f.id \notin Drawn(w.out)
  OBVIOUS
<1>6. /\ es \in Seq(LineSet(g)) /\ \A i \in 1..Len(es) : es[i].kind = "edge"
      /\ HowMany(es, NS) = 0 /\ HowMany(es, LS) = 0
  BY <1>3, EdgeLinesTyped
<1>7. /\ kids \in Seq(FrameSet(g)) /\ Len(kids) = Cardinality(Under(g, {f.id}))
      /\ HowMany(kids, FS) = Cardinality(Under(g, {f.id}))
  <2>1. Kids(g, f.id) \in Seq(N) /\ Len(Kids(g, f.id)) = Cardinality(Under(g, {f.id}))
    BY <1>4, KidsLength
  <2> QED BY <1>4, <2>1, FramesTyped
<1> HIDE DEF v, f, l, N, kids, es, FS, LS, NS
<1>8. /\ mid \in Seq(LineSet(g)) /\ Drawn(mid) = Drawn(w.out) \cup {f.id} /\ Drawn(w.out) \subseteq N
      /\ HowMany(mid, NS) = HowMany(w.out, NS) + 1
      /\ HowMany(mid, LS) = HowMany(w.out, LS) + (IF f \in FS THEN 1 ELSE 0)
  <2>1. mid \in Seq(LineSet(g)) /\ Drawn(mid) = Drawn(w.out) \cup {f.id} /\ Drawn(w.out) \subseteq N
    BY <1>1, <1>4, DrawnAppend DEF N
  <2>2. HowMany(mid, NS) = HowMany(w.out, NS) + 1
    BY <1>1, <1>4, HowManyAppend
  <2>3. HowMany(mid, LS) = IF l \in LS THEN HowMany(w.out, LS) + 1 ELSE HowMany(w.out, LS)
    BY <1>1, HowManyAppend
  <2>4. HowMany(w.out, LS) \in Nat
    BY <1>1, HowManyType
  <2> QED BY <1>4, <2>1, <2>2, <2>3, <2>4
<1> HIDE DEF mid, rest
<1>9. v.todo = kids \o rest /\ v.left = w.left /\ v.out = mid \o es
  BY <1>2
<1>10. /\ v.out \in Seq(LineSet(g)) /\ Drawn(v.out) = Drawn(w.out) \cup {f.id}
       /\ HowMany(v.out, NS) = HowMany(w.out, NS) + 1
       /\ HowMany(v.out, LS) = HowMany(w.out, LS) + (IF f \in FS THEN 1 ELSE 0)
  <2>1. mid \o es \in Seq(LineSet(g)) /\ Drawn(mid \o es) = Drawn(mid)
    BY <1>6, <1>8, DrawnConcat
  <2>2. HowMany(mid \o es, NS) = HowMany(mid, NS) + 0 /\ HowMany(mid \o es, LS) = HowMany(mid, LS) + 0
    BY <1>6, <1>8, HowManyConcat
  <2>3. HowMany(mid, NS) \in Nat /\ HowMany(mid, LS) \in Nat
    BY <1>8, HowManyType
  <2>4. HowMany(mid \o es, NS) = HowMany(mid, NS) /\ HowMany(mid \o es, LS) = HowMany(mid, LS)
    BY <2>2, <2>3
  <2> QED BY <1>8, <1>9, <2>1, <2>4
<1>11. /\ v.todo \in Seq(FrameSet(g)) /\ Len(v.todo) = Len(kids) + Len(rest)
       /\ HowMany(v.todo, FS) = HowMany(kids, FS) + HowMany(rest, FS)
       /\ \A i \in 1..Len(rest) : v.todo[Len(kids) + i] = rest[i]
  <2>1. /\ kids \o rest \in Seq(FrameSet(g)) /\ Len(kids \o rest) = Len(kids) + Len(rest)
        /\ \A i \in 1..Len(rest) : (kids \o rest)[Len(kids) + i] = rest[i]
    <3>1. kids \in Seq(FrameSet(g)) /\ rest \in Seq(FrameSet(g))
      BY <1>3, <1>7
    <3> QED BY <3>1, ConcatPlaces
  <2>2. HowMany(kids \o rest, FS) = HowMany(kids, FS) + HowMany(rest, FS)
    BY <1>3, <1>7, HowManyConcat
  <2> QED BY <1>9, <2>1, <2>2
<1>12. v \in WalkStates(g)
  BY <1>1, <1>2, <1>9, <1>10, <1>11 DEF WalkStates, N
<1>13. Cardinality(Drawn(v.out)) = Cardinality(Drawn(w.out)) + 1
  <2>1. IsFiniteSet(N)
    BY HowManyOnce DEF GraphOK, N
  <2>2. IsFiniteSet(Drawn(w.out))
    BY <1>8, <2>1, FS_Subset
  <2> QED BY <1>5, <1>10, <2>2, FS_AddElement
<1>14. Cardinality(Under(g, Drawn(v.out)))
         = Cardinality(Under(g, Drawn(w.out))) + Cardinality(Under(g, {f.id}))
  BY <1>5, <1>10, UnderSplit
<1>15. Cardinality(Under(g, N \ Drawn(w.out)))
         = Cardinality(Under(g, N \ Drawn(v.out))) + Cardinality(Under(g, {f.id}))
  <2>1. N \ Drawn(w.out) = (N \ Drawn(v.out)) \cup {f.id}
    BY <1>4, <1>5, <1>10
  <2>2. (N \ Drawn(v.out)) \cap {f.id} = {}
    BY <1>10
  <2> QED BY <2>1, <2>2, UnderSplit
<1>16. HowMany(v.out, NS) = Cardinality(Drawn(v.out))
  BY <1>10, <1>13 DEF Walked, NS
<1>17. HowMany(v.out, LS) + HowMany(v.todo, FS) = Cardinality(Under(g, Drawn(v.out)))
  <2> DEFINE a == HowMany(w.out, LS)
             b == HowMany(rest, FS)
             c == Cardinality(Under(g, Drawn(w.out)))
             k == Cardinality(Under(g, {f.id}))
  <2>1. a \in Nat /\ b \in Nat /\ c \in Nat /\ k \in Nat
    BY <1>1, <1>3, HowManyType, PairsFinite
  <2>2. a + HowMany(w.todo, FS) = c
    BY DEF Walked, FS, LS
  <2>3. HowMany(v.out, LS) = a + (IF f \in FS THEN 1 ELSE 0) /\ HowMany(v.todo, FS) = k + b
        /\ HowMany(w.todo, FS) = b + (IF f \in FS THEN 1 ELSE 0)
        /\ Cardinality(Under(g, Drawn(v.out))) = c + k
    BY <1>3, <1>7, <1>10, <1>11, <1>14
  <2> HIDE DEF a, b, c, k
  <2> QED BY <2>1, <2>2, <2>3
<1>18. N \subseteq Drawn(v.out) \cup ToSet(v.left) \cup Awaited(v)
  <2> SUFFICES ASSUME NEW x \in N, x \notin Drawn(v.out), x \notin ToSet(w.left)
               PROVE  x \in Awaited(v)
    BY <1>9
  <2>0. x \notin Drawn(w.out) /\ x # f.id
    BY <1>10
  <2>1. PICK i \in 1..Len(w.todo) : w.todo[i].id = x
    BY <2>0 DEF Walked, Awaited, N
  <2>2. i # 1
    BY <1>3, <2>0, <2>1
  <2>3. i \in 2..Len(w.todo) /\ i - 1 \in 1..Len(rest)
    BY <1>3, <2>2
  <2>4. v.todo[Len(kids) + (i - 1)] = w.todo[i]
    BY <1>3, <1>11, <2>3
  <2>5. Len(kids) + (i - 1) \in 1..Len(v.todo)
    <3>1. Len(kids) \in Nat /\ Len(rest) \in Nat
      BY <1>3, <1>7
    <3> QED BY <1>11, <2>3, <3>1
  <2> QED BY <2>1, <2>4, <2>5 DEF Awaited
<1>19. Remains(g, v) < Remains(g, w)
  <2> DEFINE a == Cardinality(Under(g, N \ Drawn(v.out)))
             k == Cardinality(Under(g, {f.id}))
  <2>1. a \in Nat /\ k \in Nat /\ Len(w.left) \in Nat
    BY <1>1, PairsFinite
  <2>2. Cardinality(Under(g, N \ Drawn(w.out))) = a + k /\ Len(v.todo) = k + (Len(w.todo) - 1)
    BY <1>3, <1>7, <1>11, <1>15
  <2>3. /\ Remains(g, v) = Len(v.todo) + a + 2 * Len(w.left)
        /\ Remains(g, w) = Len(w.todo) + Cardinality(Under(g, N \ Drawn(w.out))) + 2 * Len(w.left)
    BY <1>9 DEF Remains, N
  <2> DEFINE m == Len(w.todo)
           q == Len(w.left)
  <2>4. m \in Nat /\ q \in Nat
    BY <1>3, <2>1
  <2> HIDE DEF a, k, m, q
  <2>5. Remains(g, v) = (k + (m - 1)) + a + 2 * q /\ Remains(g, w) = m + (a + k) + 2 * q
    BY <2>2, <2>3 DEF m, q
  <2> QED BY <2>1, <2>4, <2>5
<1>20. Walked(g, v)
  BY <1>12, <1>16, <1>17, <1>18 DEF Walked, N, NS, LS, FS
<1> QED BY <1>19, <1>20 DEF v, f


(* The next node that is left.                                             *)
LEMMA LeftWalks ==
  ASSUME NEW g, GraphOK(g), NEW w, Walked(g, w), w.todo = <<>>, w.left # <<>>
  PROVE  Walked(g, TakeLeft(w)) /\ Remains(g, TakeLeft(w)) < Remains(g, w)
<1> DEFINE h == Head(w.left)
           v == TakeLeft(w)
           N == ToSet(g.nodes)
           rest == Tail(w.left)
           new == IF h \in Drawn(w.out) THEN <<>> ELSE Frames(<<h>>, 0)
           FS == LowerFrames(g)
<1>1. w.todo \in Seq(FrameSet(g)) /\ w.left \in Seq(N) /\ w.out \in Seq(LineSet(g))
  BY DEF Walked, WalkStates
<1>2. v = [todo |-> new, left |-> rest, out |-> w.out]
  BY DEF TakeLeft
<1>3. /\ h \in N /\ rest \in Seq(N) /\ Len(rest) = Len(w.left) - 1 /\ Len(w.left) \in Nat
      /\ w.left[1] = h /\ \A i \in 2..Len(w.left) : w.left[i] = rest[i - 1]
  <2> HIDE DEF N
  <2> QED BY <1>1
<1>4. /\ new \in Seq(FrameSet(g)) /\ Len(new) \in {0, 1} /\ HowMany(new, FS) = 0
      /\ h \in Drawn(w.out) \/ (Len(new) = 1 /\ new[1].id = h)
  <2>1. CASE h \in Drawn(w.out)
    <3>1. new = <<>> /\ <<>> \in Seq(FrameSet(g)) /\ Len(<<>>) = 0
      BY <2>1
    <3> QED BY <2>1, <3>1, HowManyNone
  <2>2. CASE h \notin Drawn(w.out)
    <3> DEFINE ids == <<h>>
    <3>1. ids \in Seq(N) /\ Len(ids) = 1 /\ ids[1] = h
      BY <1>3
    <3>2. new = Frames(ids, 0)
      BY <2>2
    <3> HIDE DEF ids, new, h, FS
    <3>3. /\ new \in Seq(FrameSet(g)) /\ Len(new) = 1 /\ HowMany(new, LowerFrames(g)) = 0
          /\ \A i \in 1..1 : new[i].id = ids[i]
      BY <3>1, <3>2, FramesTyped
    <3> QED BY <3>1, <3>3 DEF FS
  <2> QED BY <2>1, <2>2
<1> HIDE DEF v, new, N, FS, h, rest
<1>5. v.todo = new /\ v.left = rest /\ v.out = w.out
  BY <1>2
<1>6. v \in WalkStates(g)
  BY <1>1, <1>2, <1>3, <1>4 DEF WalkStates, N
<1>7. HowMany(w.todo, FS) = 0 /\ Len(w.todo) = 0
  BY HowManyNone
<1>8. N \subseteq Drawn(v.out) \cup ToSet(v.left) \cup Awaited(v)
  <2> SUFFICES ASSUME NEW x \in N, x \notin Drawn(w.out), x \notin ToSet(rest)
               PROVE  x \in Awaited(v)
    BY <1>5
  <2>1. x \in ToSet(w.left)
    BY <1>7 DEF Walked, Awaited, N
  <2>2. PICK i \in 1..Len(w.left) : w.left[i] = x
    <3>1. DOMAIN w.left = 1..Len(w.left)
      BY <1>1
    <3> QED BY <2>1, <3>1 DEF ToSet
  <2>3. CASE i = 1
    <3>1. x = h
      BY <1>3, <2>2, <2>3
    <3>2. Len(new) = 1 /\ new[1].id = h
      BY <1>4, <3>1
    <3> QED BY <1>5, <3>1, <3>2 DEF Awaited
  <2>4. CASE i # 1
    <3>1. i \in 2..Len(w.left) /\ i - 1 \in 1..Len(rest)
      BY <1>3, <2>2, <2>4
    <3>2. DOMAIN rest = 1..Len(rest) /\ rest[i - 1] = x
      BY <1>3, <2>2, <3>1
    <3> QED BY <3>1, <3>2 DEF ToSet
  <2> QED BY <2>3, <2>4
<1>9. Walked(g, v)
  BY <1>4, <1>5, <1>6, <1>7, <1>8 DEF Walked, N, FS
<1>10. Remains(g, v) < Remains(g, w)
  <2> DEFINE a == Cardinality(Under(g, N \ Drawn(w.out)))
             e == Len(w.left)
             t == Len(new)
  <2>1. Remains(g, v) = t + a + 2 * (e - 1)
    BY <1>3, <1>5 DEF Remains, N
  <2>2. Remains(g, w) = 0 + a + 2 * e
    BY <1>7 DEF Remains, N
  <2>3. a \in Nat /\ e \in Nat /\ t \in {0, 1}
    BY <1>3, <1>4, PairsFinite
  <2> HIDE DEF a, e, t
  <2> QED BY <2>1, <2>2, <2>3
<1> QED BY <1>9, <1>10 DEF v

(* Each step draws or takes something, until nothing is left.              *)
LEMMA StepWalks ==
  ASSUME NEW g, GraphOK(g), NEW w, Walked(g, w)
  PROVE  /\ Walked(g, Step(g, w))
         /\ Finished(w) => Step(g, w) = w
         /\ ~Finished(w) => Remains(g, Step(g, w)) < Remains(g, w)
<1>1. CASE w.todo # <<>> /\ Head(w.todo).id \in Drawn(w.out)
  <2>1. Step(g, w) = DrawBack(Head(w.todo), w)
    BY <1>1 DEF Step
  <2> QED BY <1>1, <2>1, BackWalks DEF Finished
<1>2. CASE w.todo # <<>> /\ Head(w.todo).id \notin Drawn(w.out)
  <2>1. Step(g, w) = DrawNode(g, Head(w.todo), w)
    BY <1>2 DEF Step
  <2> QED BY <1>2, <2>1, NodeWalks DEF Finished
<1>3. CASE w.todo = <<>> /\ w.left # <<>>
  <2>1. Step(g, w) = TakeLeft(w)
    BY <1>3 DEF Step
  <2> QED BY <1>3, <2>1, LeftWalks DEF Finished
<1>4. CASE w.todo = <<>> /\ w.left = <<>>
  <2>1. Step(g, w) = w
    BY <1>4 DEF Step
  <2> QED BY <1>4, <2>1 DEF Finished
<1> QED BY <1>1, <1>2, <1>3, <1>4

(* The start: the roots are awaited, everything is left, nothing is drawn. *)
Start(g) == [todo |-> Frames(Roots(g), 0), left |-> g.nodes, out |-> <<>>]

LEMMA StartWalks ==
  ASSUME NEW g, GraphOK(g)
  PROVE  Walked(g, Start(g)) /\ Enough(g) \in Nat /\ Remains(g, Start(g)) <= Enough(g)
<1> DEFINE N == ToSet(g.nodes)
           T == {k \in N : \A n \in N : <<n, k>> \notin Pairs(g)}
           r == Roots(g)
           fr == Frames(r, 0)
           w == Start(g)
<1>1. g.nodes \in Seq(N) /\ Len(g.nodes) \in Nat
  BY DEF GraphOK
<1>2. r = Among(g.nodes, T)
  BY DEF Roots
<1>3. r \in Seq(N) /\ Len(r) \in Nat /\ Len(r) <= Len(g.nodes)
  <2> HIDE DEF N, T, r
  <2>1. r \in Seq(N) /\ Len(r) = HowMany(g.nodes, T)
    BY <1>1, <1>2, AmongLength
  <2> DEFINE A == {i \in DOMAIN g.nodes : g.nodes[i] \in T}
  <2>2. A \in SUBSET (1..Len(g.nodes))
    BY <1>1
  <2>3. 1 \in Int /\ Len(g.nodes) \in Int
    BY <1>1
  <2>4. IsFiniteSet(1..Len(g.nodes))
        /\ Cardinality(1..Len(g.nodes)) = IF 1 > Len(g.nodes) THEN 0 ELSE Len(g.nodes) - 1 + 1
    BY <2>3, FS_Interval
  <2>5. Cardinality(A) <= Cardinality(1..Len(g.nodes))
    <3> HIDE DEF A
    <3> QED BY <2>2, <2>4, FS_Subset
  <2>6. HowMany(g.nodes, T) <= Len(g.nodes)
    BY <1>1, <2>4, <2>5 DEF HowMany
  <2> QED BY <1>1, <2>1, <2>6
<1> HIDE DEF r
<1>4. fr \in Seq(FrameSet(g)) /\ Len(fr) = Len(r) /\ HowMany(fr, LowerFrames(g)) = 0
  BY <1>3, FramesTyped
<1>5. w = [todo |-> fr, left |-> g.nodes, out |-> <<>>]
  BY DEF Start, r
<1> HIDE DEF w, fr, N
<1>6. w.todo = fr /\ w.left = g.nodes /\ w.out = <<>>
  BY <1>5
<1>7. w \in WalkStates(g)
  <2>1. <<>> \in Seq(LineSet(g))
    OBVIOUS
  <2> QED BY <1>1, <1>4, <1>5, <2>1 DEF WalkStates, N
<1>8. Drawn(<<>>) = {}
  BY DEF Drawn
<1>9. Cardinality(Drawn(<<>>)) = 0 /\ Cardinality(Under(g, {})) = 0
  <2>1. Under(g, {}) = {}
    BY DEF Under
  <2> QED BY <1>8, <2>1, FS_EmptySet
<1>10. Walked(g, w)
  <2>1. HowMany(w.out, NodeLines(g)) = Cardinality(Drawn(w.out))
    BY <1>6, <1>9, HowManyNone
  <2>2. HowMany(w.out, LowerLines(g)) + HowMany(w.todo, LowerFrames(g))
          = Cardinality(Under(g, Drawn(w.out)))
    <3>1. HowMany(<<>>, LowerLines(g)) = 0
      BY HowManyNone
    <3>2. HowMany(w.out, LowerLines(g)) = 0 /\ HowMany(w.todo, LowerFrames(g)) = 0
      BY <1>4, <1>6, <3>1
    <3>3. Cardinality(Under(g, Drawn(w.out))) = 0
      BY <1>6, <1>8, <1>9
    <3> QED BY <3>2, <3>3
  <2>3. ToSet(g.nodes) \subseteq Drawn(w.out) \cup ToSet(w.left) \cup Awaited(w)
    BY <1>6
  <2> QED BY <1>7, <2>1, <2>2, <2>3 DEF Walked
<1>11. Enough(g) \in Nat /\ Remains(g, w) <= Enough(g)
  <2> DEFINE a == Cardinality(Under(g, ToSet(g.nodes) \ {}))
             b == Cardinality(Pairs(g))
             e == Len(g.nodes)
             t == Len(r)
  <2>1. a \in Nat /\ b \in Nat /\ a <= b
    BY PairsFinite
  <2>2. Remains(g, w) = t + a + 2 * e /\ Enough(g) = 3 * e + b
    BY <1>4, <1>6, <1>8 DEF Remains, Enough
  <2>3. e \in Nat /\ t \in Nat /\ t <= e
    BY <1>1, <1>3
  <2> HIDE DEF a, b, e, t
  <2> QED BY <2>1, <2>2, <2>3
<1> QED BY <1>10, <1>11 DEF w


(* The equation of the walk.                                               *)
Walks(f, g) ==
  f = [n \in 0..Enough(g) |-> IF n = 0 THEN Start(g) ELSE Step(g, f[n - 1])]

(* However the walk is computed, it is finished when enough is done.       *)
LEMMA WalkEnds ==
  ASSUME NEW g, GraphOK(g), NEW f, NEW n \in Nat, n = Enough(g), f[0] = Start(g),
         \A i \in 1..n : f[i - 1] \in WalkStates(g) => f[i] = Step(g, f[i - 1])
  PROVE  /\ \A i \in 0..n : Walked(g, f[i])
         /\ Finished(f[n])
<1> DEFINE good == {i \in 0..n : Walked(g, f[i]) /\ (Finished(f[i]) \/ Remains(g, f[i]) <= n - i)}
<1>1. 0 \in good
  <2>1. Walked(g, f[0]) /\ Remains(g, f[0]) <= n
    BY StartWalks
  <2>2. n - 0 = n
    OBVIOUS
  <2> QED BY <2>1, <2>2
<1>2. ASSUME NEW i \in 1..n, i - 1 \in good PROVE i \in good
  <2> DEFINE w == f[i - 1]
             v == f[i]
  <2>1. Walked(g, w) /\ (Finished(w) \/ Remains(g, w) <= n - (i - 1))
    BY <1>2
  <2>2. v = Step(g, w)
    BY <2>1 DEF Walked
  <2> HIDE DEF v, w
  <2>3. Walked(g, v) /\ (Finished(w) => v = w) /\ (~Finished(w) => Remains(g, v) < Remains(g, w))
    BY <2>1, <2>2, StepWalks
  <2>4. Remains(g, v) \in Nat /\ Remains(g, w) \in Nat
    BY <2>1, <2>3, RemainsType
  <2>5. Finished(v) \/ Remains(g, v) <= n - i
    BY <2>1, <2>3, <2>4
  <2>6. Walked(g, f[i]) /\ (Finished(f[i]) \/ Remains(g, f[i]) <= n - i)
    BY <2>3, <2>5 DEF v
  <2> QED BY <2>6
<1>3. 0..n \subseteq good
  <2> HIDE DEF good
  <2> QED BY <1>1, <1>2, UpToBound
<1>4. \A i \in 0..n : Walked(g, f[i])
  BY <1>3
<1>5. Finished(f[n])
  <2>1. n \in 0..n
    OBVIOUS
  <2> DEFINE w == f[n]
  <2>2. Walked(g, w) /\ (Finished(w) \/ Remains(g, w) <= n - n)
    BY <1>3, <2>1
  <2> HIDE DEF w
  <2>3. ASSUME Remains(g, w) <= n - n PROVE Finished(w)
    <3>1. Len(w.todo) \in Nat /\ Len(w.left) \in Nat
      BY <2>2 DEF Walked, WalkStates
    <3>2. Cardinality(Under(g, ToSet(g.nodes) \ Drawn(w.out))) \in Nat
      BY PairsFinite
    <3> DEFINE c == Cardinality(Under(g, ToSet(g.nodes) \ Drawn(w.out)))
               t == Len(w.todo)
               e == Len(w.left)
    <3>3. t + c + 2 * e <= 0
      BY <2>3 DEF Remains
    <3>4. t \in Nat /\ c \in Nat /\ e \in Nat
      BY <3>1, <3>2
    <3> HIDE DEF c, t, e
    <3>5. t = 0 /\ e = 0
      BY <3>3, <3>4
    <3>6. w.todo \in Seq(FrameSet(g)) /\ w.left \in Seq(ToSet(g.nodes))
      BY <2>2 DEF Walked, WalkStates
    <3> QED BY <3>5, <3>6 DEF Finished, t, e
  <2> QED BY <2>2, <2>3 DEF w
<1> QED BY <1>4, <1>5

(* The lines of the pane are those of a walk that is finished.             *)
LEMMA FlattenWalked ==
  ASSUME NEW g, GraphOK(g)
  PROVE  \E w : Walked(g, w) /\ Finished(w) /\ FlattenGraph(g) = w.out
<1> DEFINE n == Enough(g)
           G == [p \in WalkStates(g) \X (1..n) |-> Step(g, p[1])]
<1>1. n \in Nat
  BY StartWalks
<1> HIDE DEF n
<1>2. PICK f : Ladder(f, Start(g), G, n)
  <2> HIDE DEF G
  <2> QED BY <1>1, LadderExists
<1>3. \A i \in 0..n : f[i] = IF i = 0 THEN Start(g) ELSE G[<<f[i - 1], i>>]
  BY <1>2 DEF Ladder
<1>4. \A i \in 1..n : f[i] = G[<<f[i - 1], i>>]
  <2> SUFFICES ASSUME NEW i \in 1..n PROVE f[i] = G[<<f[i - 1], i>>]
    OBVIOUS
  <2>1. i \in 0..n /\ i # 0
    BY <1>1
  <2> HIDE DEF G
  <2> QED BY <1>3, <2>1
<1>5. \A i \in 1..n : f[i - 1] \in WalkStates(g) => f[i] = Step(g, f[i - 1])
  <2> SUFFICES ASSUME NEW i \in 1..n, f[i - 1] \in WalkStates(g) PROVE f[i] = Step(g, f[i - 1])
    OBVIOUS
  <2> DEFINE w == f[i - 1]
  <2>1. w \in WalkStates(g) /\ f[i] = G[<<w, i>>]
    BY <1>4
  <2> HIDE DEF w
  <2>2. G[<<w, i>>] = Step(g, w)
    BY <2>1
  <2> QED BY <2>1, <2>2 DEF w
<1>6. f[0] = Start(g)
  <2>1. 0 \in 0..n
    BY <1>1
  <2> HIDE DEF G
  <2> QED BY <1>3, <2>1
<1>7. \A i \in 0..n : Walked(g, f[i])
  <2> HIDE DEF G
  <2> QED BY <1>1, <1>5, <1>6, WalkEnds DEF n
<1>8. \A i \in 0..n : f[i] = IF i = 0 THEN Start(g) ELSE Step(g, f[i - 1])
  <2> SUFFICES ASSUME NEW i \in 0..n, i # 0 PROVE f[i] = Step(g, f[i - 1])
    BY <1>6
  <2>1. i \in 1..n /\ i - 1 \in 0..n
    BY <1>1
  <2>2. f[i - 1] \in WalkStates(g)
    BY <1>7, <2>1 DEF Walked
  <2> QED BY <1>5, <2>1, <2>2
<1>9. f = [i \in 0..n |-> f[i]]
  BY <1>2 DEF Ladder
<1>10. Walks(f, g)
  <2>1. f = [i \in 0..n |-> IF i = 0 THEN Start(g) ELSE Step(g, f[i - 1])]
    BY <1>8, <1>9
  <2> QED BY <2>1 DEF Walks, n
<1> DEFINE h == CHOOSE q : Walks(q, g)
<1>11. Walks(h, g)
  BY <1>10
<1>12. FlattenGraph(g) = h[n].out
  BY DEF FlattenGraph, Walks, Start, n
<1> HIDE DEF h
<1>13. h[0] = Start(g) /\ \A i \in 1..n : h[i] = Step(g, h[i - 1])
  <2>1. 0 \in 0..n /\ \A i \in 1..n : i \in 0..n /\ i # 0
    BY <1>1
  <2>2. h = [i \in 0..n |-> IF i = 0 THEN Start(g) ELSE Step(g, h[i - 1])]
    BY <1>11 DEF Walks, n
  <2> QED BY <2>1, <2>2
<1>14. Walked(g, h[n]) /\ Finished(h[n])
  <2>1. /\ \A i \in 0..n : Walked(g, h[i])
        /\ Finished(h[n])
    BY <1>1, <1>13, WalkEnds DEF n
  <2> QED BY <1>1, <2>1
<1> QED BY <1>12, <1>14

(* flattenGraph of every graph, with whatever cycles, shows every node     *)
(* once and every pair of a parent and a child once: "nothing in the store *)
(* goes unpainted".                                                        *)
THEOREM GraphPainted ==
  ASSUME NEW g, GraphOK(g)
  PROVE  Painted(g, FlattenGraph(g)) /\ FlattenGraph(g) \in Seq(LineSet(g))
<1> DEFINE out == FlattenGraph(g)
           N == ToSet(g.nodes)
<1>1. PICK w : Walked(g, w) /\ Finished(w) /\ out = w.out
  BY FlattenWalked
<1> HIDE DEF out
<1>2. /\ out \in Seq(LineSet(g)) /\ w.todo = <<>> /\ w.left = <<>>
      /\ HowMany(out, NodeLines(g)) = Cardinality(Drawn(out))
      /\ HowMany(out, LowerLines(g)) + HowMany(<<>>, LowerFrames(g))
           = Cardinality(Under(g, Drawn(out)))
      /\ N \subseteq Drawn(out) \cup ToSet(<<>>) \cup Awaited(w)
  BY <1>1 DEF Walked, WalkStates, Finished
<1>3. /\ DOMAIN out = 1..Len(out) /\ \A i \in DOMAIN out : out[i] \in LineSet(g)
  BY <1>2
<1>4. Drawn(out) = N
  <2>1. Awaited(w) = {}
    <3>1. Len(w.todo) = 0
      BY <1>2
    <3> QED BY <3>1 DEF Awaited
  <2>2. Drawn(out) \subseteq N
    BY <1>3 DEF Drawn, LineSet
  <2> QED BY <1>2, <2>1, <2>2, ToSetNone
<1>5. Cardinality(N) = Len(g.nodes)
  <2>1. g.nodes \in Seq(N) /\ IsInjective(g.nodes) /\ \A i \in 1..Len(g.nodes) : g.nodes[i] \in N
    BY DEF GraphOK
  <2>2. HowMany(g.nodes, N) = Cardinality(N \cap N) /\ HowMany(g.nodes, N) = Len(g.nodes)
    <3> HIDE DEF N
    <3>1. HowMany(g.nodes, N) = Cardinality(ToSet(g.nodes) \cap N)
      BY <2>1, HowManyOnce
    <3>2. HowMany(g.nodes, N) = Len(g.nodes)
      BY <2>1, HowManyAll
    <3> QED BY <3>1, <3>2 DEF N
  <2>3. N \cap N = N
    OBVIOUS
  <2> QED BY <2>2, <2>3
<1>6. {i \in DOMAIN out : out[i].kind \in {"node"}} = {i \in DOMAIN out : out[i] \in NodeLines(g)}
  BY <1>3 DEF NodeLines
<1>7. {i \in {j \in DOMAIN out : out[j].kind \in {"node", "back"}} : out[i].depth > 0}
        = {i \in DOMAIN out : out[i] \in LowerLines(g)}
  BY <1>3 DEF LowerLines
<1>8. Under(g, N) = Pairs(g)
  BY PairsFinite DEF Under
<1>9. HowMany(out, LowerLines(g)) = Cardinality(Pairs(g))
  <2>1. HowMany(<<>>, LowerFrames(g)) = 0 /\ HowMany(out, LowerLines(g)) \in Nat
    BY <1>2, HowManyNone, HowManyType
  <2>2. HowMany(out, LowerLines(g)) + 0 = Cardinality(Pairs(g))
    BY <1>2, <1>4, <1>8, <2>1
  <2> QED BY <2>1, <2>2
<1>10. Painted(g, out)
  BY <1>2, <1>4, <1>5, <1>6, <1>7, <1>9 DEF Painted, HowMany
<1> QED BY <1>2, <1>10 DEF out


-----------------------------------------------------------------------------
(* The table: its lines are lines of rows or of the group.                 *)

TableLines == [key : Rows \cup {Group}, depth : Nat, kids : Nat]
Shapers == [folded : SUBSET (Rows \cup {Group}), filter : DOMAIN Matches \cup {0},
            sort : {"cpu", "name"}, reverse : BOOLEAN, showDone : BOOLEAN]
SnapOK(s) ==
  /\ s.rows \subseteq Rows /\ s.cpu \in [Rows -> Int] /\ IsInjective(s.cpu)
  /\ GraphOK(s.graph)

LEMMA SnapshotsOK == \A s \in Snapshots \cup {Empty} : SnapOK(s)
<1>1. \A s \in Snapshots : SnapOK(s)
  BY BoardAssumption DEF SnapOK, GraphOK
<1>2. SnapOK(Empty)
  <2>1. GraphOK(NoGraph)
    <3>1. NoGraph.nodes = <<>> /\ NoGraph.edges = {} /\ DOMAIN <<>> = {}
      BY DEF NoGraph
    <3>2. <<>> \in Seq(ToSet(<<>>)) /\ IsInjective(<<>>)
      BY <3>1 DEF IsInjective
    <3> QED BY <3>1, <3>2, FS_EmptySet DEF GraphOK
  <2>2. Empty.rows = {} /\ Empty.cpu = NameRank /\ Empty.graph = NoGraph
    BY DEF Empty
  <2> QED BY <2>1, <2>2, BoardAssumption DEF SnapOK
<1> QED BY <1>1, <1>2

(* A ranking lists the set.                                                *)
LEMMA RankedTyped ==
  ASSUME NEW set, set \subseteq Rows, NEW rank \in [Rows -> Int], IsInjective(rank)
  PROVE  Ranked(set, rank) \in Seq(set) /\ Cardinality(set) \in Nat
<1> DEFINE n == Cardinality(set)
           Lower(k) == {j \in set : rank[j] < rank[k]}
           spot == [k \in set |-> Cardinality(Lower(k)) + 1]
           P == 1..n
<1>1. IsFiniteSet(set) /\ n \in Nat
  BY BoardAssumption, FS_Subset, FS_CardinalityType
<1> HIDE DEF n
<1>2. \A a, b \in set : rank[a] \in Int /\ rank[b] \in Int /\ (rank[a] = rank[b] => a = b)
  BY DEF IsInjective
<1>3. ASSUME NEW k \in set
      PROVE  IsFiniteSet(Lower(k)) /\ Cardinality(Lower(k)) \in Nat /\ Cardinality(Lower(k)) + 1 <= n
  <2> DEFINE L == Lower(k)
  <2>1. L \in SUBSET set /\ k \notin L /\ L \cup {k} \in SUBSET set
    BY <1>2
  <2> HIDE DEF L
  <2>2. IsFiniteSet(L)
    BY <1>1, <2>1, FS_Subset
  <2>3. Cardinality(L) \in Nat /\ Cardinality(L \cup {k}) = Cardinality(L) + 1
    BY <2>1, <2>2, FS_AddElement, FS_CardinalityType
  <2>4. Cardinality(L \cup {k}) <= n
    BY <1>1, <2>1, FS_Subset DEF n
  <2> QED BY <2>2, <2>3, <2>4 DEF L
<1>4. spot \in [set -> P]
  <2>1. ASSUME NEW k \in set PROVE Cardinality(Lower(k)) + 1 \in P
    <3> DEFINE c == Cardinality(Lower(k))
    <3>1. c \in Nat /\ c + 1 <= n
      BY <1>3
    <3> HIDE DEF c
    <3>2. c + 1 \in P
      BY <1>1, <3>1 DEF P
    <3> QED BY <3>2 DEF c
  <2> HIDE DEF Lower, P
  <2> QED BY <2>1
<1>5. ASSUME NEW a \in set, NEW b \in set, rank[a] < rank[b]
      PROVE  Cardinality(Lower(a)) < Cardinality(Lower(b))
  <2> DEFINE L == Lower(a)
             M == Lower(b)
  <2>1. L \cup {a} \in SUBSET M /\ a \notin L
    BY <1>2, <1>5
  <2>2. IsFiniteSet(L) /\ IsFiniteSet(M) /\ Cardinality(L) \in Nat /\ Cardinality(M) \in Nat
    BY <1>3
  <2> HIDE DEF L, M
  <2>3. Cardinality(L \cup {a}) = Cardinality(L) + 1
    BY <2>1, <2>2, FS_AddElement
  <2>4. Cardinality(L \cup {a}) <= Cardinality(M)
    BY <2>1, <2>2, FS_Subset
  <2> QED BY <2>2, <2>3, <2>4 DEF L, M
<1>6. \A a, b \in set : spot[a] = spot[b] => a = b
  <2> SUFFICES ASSUME NEW a \in set, NEW b \in set, a # b PROVE spot[a] # spot[b]
    OBVIOUS
  <2>1. spot[a] = Cardinality(Lower(a)) + 1 /\ spot[b] = Cardinality(Lower(b)) + 1
    OBVIOUS
  <2>2. Cardinality(Lower(a)) \in Nat /\ Cardinality(Lower(b)) \in Nat
    BY <1>3
  <2>3. rank[a] < rank[b] \/ rank[b] < rank[a]
    BY <1>2
  <2>4. Cardinality(Lower(a)) # Cardinality(Lower(b))
    <3>1. CASE rank[a] < rank[b]
      BY <1>5, <2>2, <3>1
    <3>2. CASE rank[b] < rank[a]
      BY <1>5, <2>2, <3>2
    <3> QED BY <2>3, <3>1, <3>2
  <2> HIDE DEF Lower, spot
  <2> QED BY <2>1, <2>2, <2>4
<1>7. \A i \in P : \E k \in set : spot[k] = i
  <2>1. IsFiniteSet(P) /\ Cardinality(P) = n
    <3>1. 1 \in Int /\ n \in Int
      BY <1>1
    <3>2. IsFiniteSet(P) /\ Cardinality(P) = IF 1 > n THEN 0 ELSE n - 1 + 1
      BY <3>1, FS_Interval
    <3> QED BY <1>1, <3>2
  <2> HIDE DEF spot, P
  <2>2. spot \in Injection(set, P)
    BY <1>4, <1>6 DEF Injection, IsInjective
  <2>3. spot \in Surjection(set, P)
    BY <2>1, <2>2, FS_Injection DEF n
  <2> QED BY <2>3 DEF Surjection
<1>8. Ranked(set, rank) = [i \in P |-> CHOOSE k \in set : Cardinality(Lower(k)) + 1 = i]
  BY DEF Ranked, n
<1>9. \A i \in P : (CHOOSE k \in set : Cardinality(Lower(k)) + 1 = i) \in set
  <2> SUFFICES ASSUME NEW i \in P PROVE (CHOOSE k \in set : Cardinality(Lower(k)) + 1 = i) \in set
    OBVIOUS
  <2>1. PICK k \in set : spot[k] = i
    BY <1>7
  <2>2. Cardinality(Lower(k)) + 1 = i
    BY <2>1
  <2> HIDE DEF Lower, P, spot
  <2> QED BY <2>2
<1>10. Ranked(set, rank) \in [P -> set]
  <2> HIDE DEF Lower, P, spot
  <2> QED BY <1>8, <1>9
<1>11. Ranked(set, rank) \in Seq(set)
  BY <1>1, <1>10, NumberedIsSeq
<1> QED BY <1>1, <1>11 DEF n

(* Sequences of sequences flatten to a sequence.                           *)
FlattenOf(f, q) == f = [i \in 1..Len(q) |-> IF i = 1 THEN q[i] ELSE f[i - 1] \o q[i]]

LEMMA FlattenTyped ==
  ASSUME NEW S, NEW q \in Seq(Seq(S))
  PROVE  FlattenSeq(q) \in Seq(S)
<1> DEFINE n == Len(q)
           step(v, i) == IF i = 1 THEN q[1] ELSE v \o q[i]
           G == [p \in Seq(S) \X (1..n) |-> step(p[1], p[2])]
<1>0. n \in Nat /\ \A i \in 1..n : q[i] \in Seq(S)
  OBVIOUS
<1>1. CASE n = 0
  <2>1. q = <<>> /\ <<>> \in Seq(S)
    BY <1>1
  <2>2. FlattenSeq(q) = q
    BY <1>1 DEF FlattenSeq
  <2> QED BY <2>1, <2>2
<1>2. CASE n # 0
  <2>1. \A v \in Seq(S), i \in 1..n : step(v, i) \in Seq(S) /\ G[<<v, i>>] = step(v, i)
    BY <1>0
  <2> HIDE DEF G
  <2>2. PICK f : Ladder(f, <<>>, G, n)
    BY <1>0, LadderExists
  <2>3. f[0] = <<>> /\ \A i \in 1..n : f[i] = G[<<f[i - 1], i>>]
    <3>1. \A i \in 0..n : f[i] = IF i = 0 THEN <<>> ELSE G[<<f[i - 1], i>>]
      BY <2>2 DEF Ladder
    <3>2. 0 \in 0..n /\ \A i \in 1..n : i \in 0..n /\ i # 0
      BY <1>0
    <3> QED BY <3>1, <3>2
  <2> DEFINE good == {i \in 0..n : f[i] \in Seq(S)}
  <2>4. 0..n \subseteq good
    <3>1. 0 \in good
      <4>1. <<>> \in Seq(S) /\ 0 \in 0..n
        BY <1>0
      <4> QED BY <2>3, <4>1
    <3>2. ASSUME NEW i \in 1..n, i - 1 \in good PROVE i \in good
      <4>1. f[i - 1] \in Seq(S) /\ f[i] = G[<<f[i - 1], i>>] /\ i \in 0..n
        BY <1>0, <2>3, <3>2
      <4>2. f[i] \in Seq(S)
        <5> HIDE DEF step
        <5> QED BY <2>1, <4>1
      <4> QED BY <4>1, <4>2
    <3> HIDE DEF good
    <3> QED BY <1>0, <3>1, <3>2, UpToBound
  <2>5. \A i \in 1..n : i - 1 \in 0..n
    BY <1>0
  <2>6. \A i \in 1..n : f[i] = step(f[i - 1], i)
    <3> HIDE DEF step
    <3> QED BY <2>1, <2>3, <2>4, <2>5
  <2> DEFINE h == [i \in 1..n |-> f[i]]
  <2>7. \A i \in 1..n : h[i] = IF i = 1 THEN q[i] ELSE h[i - 1] \o q[i]
    <3> SUFFICES ASSUME NEW i \in 1..n PROVE h[i] = IF i = 1 THEN q[i] ELSE h[i - 1] \o q[i]
      OBVIOUS
    <3>1. CASE i = 1
      BY <2>6, <3>1
    <3>2. CASE i # 1
      <4>1. i - 1 \in 1..n
        BY <1>0, <3>2
      <4> QED BY <2>6, <3>2, <4>1
    <3> QED BY <3>1, <3>2
  <2>8. h = [i \in 1..n |-> h[i]]
    OBVIOUS
  <2>9. FlattenOf(h, q)
    <3> HIDE DEF h
    <3> QED BY <2>7, <2>8 DEF FlattenOf
  <2> DEFINE k == CHOOSE x : FlattenOf(x, q)
  <2>10. FlattenOf(k, q)
    <3> HIDE DEF h
    <3> QED BY <2>9
  <2>11. FlattenSeq(q) = k[n]
    BY <1>2 DEF FlattenSeq, FlattenOf
  <2> HIDE DEF k, h
  <2>12. \A i \in 1..n : k[i] = IF i = 1 THEN q[i] ELSE k[i - 1] \o q[i]
    BY <2>10 DEF FlattenOf
  <2> DEFINE fine == {i \in 0..n : i = 0 \/ k[i] \in Seq(S)}
  <2>13. 0..n \subseteq fine
    <3>1. 0 \in fine
      BY <1>0
    <3>2. ASSUME NEW i \in 1..n, i - 1 \in fine PROVE i \in fine
      <4>1. CASE i = 1
        BY <1>0, <2>12, <4>1
      <4>2. CASE i # 1
        <5>1. k[i - 1] \in Seq(S) /\ q[i] \in Seq(S)
          BY <1>0, <3>2, <4>2
        <5>2. k[i] = k[i - 1] \o q[i]
          BY <2>12, <4>2
        <5>3. k[i - 1] \o q[i] \in Seq(S)
          BY <5>1
        <5>4. k[i] \in Seq(S)
          BY <5>2, <5>3, Zenon
        <5>5. i \in 0..n
          BY <1>0
        <5> QED BY <5>4, <5>5
      <4> QED BY <4>1, <4>2
    <3> HIDE DEF fine
    <3> QED BY <1>0, <3>1, <3>2, UpToBound
  <2>14. n \in 0..n
    BY <1>0
  <2> QED BY <1>2, <2>11, <2>13, <2>14
<1> QED BY <1>1, <1>2


LEMMA OrderTyped ==
  ASSUME NEW s, SnapOK(s), NEW sh
  PROVE  Order(s, sh) \in [Rows -> Int] /\ IsInjective(Order(s, sh))
<1> DEFINE up == IF sh.sort = "cpu" THEN s.cpu ELSE NameRank
           down == [k \in Rows |-> 0 - up[k]]
<1>1. up \in [Rows -> Int] /\ IsInjective(up)
  BY BoardAssumption DEF SnapOK
<1>2. Order(s, sh) = IF sh.reverse THEN down ELSE up
  BY DEF Order
<1> HIDE DEF up
<1>3. \A a, b \in Rows : up[a] \in Int /\ up[b] \in Int /\ (up[a] = up[b] => a = b)
  BY <1>1 DEF IsInjective
<1>4. down \in [Rows -> Int]
  BY <1>3
<1>5. IsInjective(down)
  <2> SUFFICES ASSUME NEW a \in Rows, NEW b \in Rows, 0 - up[a] = 0 - up[b] PROVE a = b
    BY DEF IsInjective
  <2>1. up[a] = up[b]
    BY <1>3
  <2> QED BY <1>3, <2>1
<1> HIDE DEF down
<1> QED BY <1>1, <1>2, <1>4, <1>5

(* A row and what is under it are lines of the table.                      *)
LEMMA BranchTyped ==
  ASSUME NEW s, SnapOK(s), NEW sh, NEW k \in Rows, NEW d \in Nat
  PROVE  Branch(s, sh, k, d) \in Seq(TableLines)
<1> DEFINE under == {c \in s.rows : Class[c] = "child" /\ ParentOf[c] = k /\ Showable(s, sh, c)}
           kids == ChildrenOf(s, sh, k)
           below == [i \in DOMAIN kids |-> RowLine(kids[i], d + 1, 0)]
           top == RowLine(k, d, Len(kids))
           tail == IF k \in sh.folded THEN <<>> ELSE below
<1>1. under \subseteq Rows
  BY DEF SnapOK
<1>2. kids = Ranked(under, NameRank)
  BY DEF ChildrenOf
<1> HIDE DEF under, kids
<1>3. kids \in Seq(under)
  BY <1>1, <1>2, RankedTyped, BoardAssumption
<1>4. DOMAIN kids = 1..Len(kids) /\ Len(kids) \in Nat /\ \A i \in 1..Len(kids) : kids[i] \in Rows
  BY <1>1, <1>3
<1>5. \A i \in 1..Len(kids) : RowLine(kids[i], d + 1, 0) \in TableLines
  BY <1>4 DEF RowLine, TableLines
<1>6. below \in Seq(TableLines)
  <2>1. below \in [1..Len(kids) -> TableLines]
    BY <1>4, <1>5
  <2> HIDE DEF below
  <2> QED BY <1>4, <2>1, NumberedIsSeq
<1>7. top \in TableLines
  BY <1>4 DEF RowLine, TableLines
<1>8. Branch(s, sh, k, d) = <<top>> \o tail
  BY DEF Branch, kids
<1> HIDE DEF below, top
<1>9. tail \in Seq(TableLines)
  <2>1. <<>> \in Seq(TableLines)
    OBVIOUS
  <2> QED BY <1>6, <2>1
<1> HIDE DEF tail
<1>10. <<top>> \in Seq(TableLines)
  BY <1>7
<1>11. <<top>> \o tail \in Seq(TableLines)
  BY <1>9, <1>10, ToSetConcat
<1> QED BY <1>8, <1>11

LEMMA BranchesTyped ==
  ASSUME NEW s, SnapOK(s), NEW sh, NEW tops \in Seq(Rows), NEW d \in Nat
  PROVE  Branches(s, sh, tops, d) \in Seq(TableLines)
<1> DEFINE q == [i \in DOMAIN tops |-> Branch(s, sh, tops[i], d)]
<1>1. DOMAIN tops = 1..Len(tops) /\ Len(tops) \in Nat /\ \A i \in 1..Len(tops) : tops[i] \in Rows
  OBVIOUS
<1>2. \A i \in 1..Len(tops) : Branch(s, sh, tops[i], d) \in Seq(TableLines)
  BY <1>1, BranchTyped
<1>3. q \in [1..Len(tops) -> Seq(TableLines)]
  BY <1>1, <1>2
<1>4. Branches(s, sh, tops, d) = FlattenSeq(q)
  BY DEF Branches
<1> HIDE DEF q
<1>5. q \in Seq(Seq(TableLines))
  BY <1>1, <1>3, NumberedIsSeq
<1> QED BY <1>4, <1>5, FlattenTyped

LEMMA LinesTyped ==
  ASSUME NEW s, SnapOK(s), NEW sh
  PROVE  Lines(s, sh) \in Seq(TableLines)
<1> DEFINE agents == Agents(s, sh)
           locals == OfClass(s, "local")
           some == {k \in locals : Match(sh, k)}
           members == IF Match(sh, Group) THEN Sorted(s, sh, locals) ELSE Unsorted(some)
           head == RowLine(Group, 0, Cardinality(locals))
           body == IF Group \in sh.folded THEN <<>> ELSE Branches(s, sh, members, 1)
<1>1. locals \subseteq Rows /\ some \subseteq Rows /\ OfClass(s, "agent") \subseteq Rows
  BY DEF OfClass, SnapOK
<1>2. Order(s, sh) \in [Rows -> Int] /\ IsInjective(Order(s, sh))
      /\ NameRank \in [Rows -> Int] /\ IsInjective(NameRank)
  BY OrderTyped, BoardAssumption
<1>3. ASSUME NEW set, set \subseteq Rows, NEW rank \in [Rows -> Int], IsInjective(rank)
      PROVE  Ranked(set, rank) \in Seq(Rows)
  <2> DEFINE r == Ranked(set, rank)
  <2>1. r \in Seq(set)
    BY <1>3, RankedTyped
  <2> HIDE DEF r
  <2>2. Len(r) \in Nat /\ r \in [1..Len(r) -> Rows]
    BY <1>3, <2>1
  <2>3. r \in Seq(Rows)
    BY <2>2, NumberedIsSeq
  <2> QED BY <2>3 DEF r
<1>4. agents \in Seq(Rows)
  <2> DEFINE r == Sorted(s, sh, OfClass(s, "agent"))
  <2>1. r \in Seq(Rows)
    BY <1>1, <1>2, <1>3 DEF Sorted
  <2> HIDE DEF r
  <2> QED BY <2>1, AmongMembers DEF Agents, r
<1>5. members \in Seq(Rows)
  <2>1. Sorted(s, sh, locals) \in Seq(Rows) /\ Unsorted(some) \in Seq(Rows)
    <3> HIDE DEF locals, some
    <3> QED BY <1>1, <1>2, <1>3 DEF Sorted, Unsorted
  <2> HIDE DEF locals, some
  <2> QED BY <2>1
<1>6. head \in TableLines
  <2> HIDE DEF locals
  <2>1. Cardinality(locals) \in Nat
    BY <1>1, <1>2, RankedTyped
  <2> QED BY <2>1 DEF RowLine, TableLines
<1>7. GroupLines(s, sh) = IF members = <<>> THEN <<>> ELSE <<head>> \o body
  BY DEF GroupLines
<1> HIDE DEF members, head
<1>8. body \in Seq(TableLines)
  <2>1. <<>> \in Seq(TableLines) /\ 1 \in Nat
    OBVIOUS
  <2>2. Branches(s, sh, members, 1) \in Seq(TableLines)
    BY <1>5, <2>1, BranchesTyped
  <2> QED BY <2>1, <2>2
<1> HIDE DEF body
<1>9. GroupLines(s, sh) \in Seq(TableLines)
  <2>1. <<>> \in Seq(TableLines) /\ <<head>> \in Seq(TableLines)
    BY <1>6
  <2>2. <<head>> \o body \in Seq(TableLines)
    BY <1>8, <2>1, ToSetConcat
  <2> QED BY <1>7, <2>1, <2>2
<1>10. Branches(s, sh, agents, 0) \in Seq(TableLines)
  <2> HIDE DEF agents
  <2>1. 0 \in Nat
    OBVIOUS
  <2> QED BY <1>4, <2>1, BranchesTyped
<1>11. Lines(s, sh) = Branches(s, sh, agents, 0) \o GroupLines(s, sh)
  BY DEF Lines
<1> HIDE DEF agents
<1> QED BY <1>9, <1>10, <1>11, ToSetConcat


-----------------------------------------------------------------------------
(* The screen: heights and windows.                                        *)

LEMMA Heights ==
  ASSUME NEW g \in BOOLEAN, NEW d \in BOOLEAN, NEW h \in Nat
  PROVE  /\ RowsVisible(g, d, h) \in Nat /\ RowsVisible(g, d, h) >= 1
         /\ h >= MinHeight => RowsVisible(g, d, h) <= Body(g, d, h) /\ Body(g, d, h) \in Nat
         /\ h >= MinHeight => /\ HeaderH + TableH(d, h) + BoxH(d, h) = h
                              /\ d => BoxH(d, h) >= 3
<1>1. HeaderH = 4 /\ MinHeight = 12 /\ DetailH(h) \in {7, 10, 14}
      /\ (DetailH(h) = 14 => h >= 50) /\ (DetailH(h) = 10 => h >= 30)
  BY DEF HeaderH, MinHeight, DetailH
<1> DEFINE box == IF d THEN DetailH(h) ELSE 0
           t == h - 4 - box
<1>2. box \in {0, 7, 10, 14} /\ (box = 14 => h >= 50) /\ (box = 10 => h >= 30) /\ (box # 0 <=> d)
  BY <1>1
<1>3. TableH(d, h) = IF t < 5 THEN 5 ELSE t
  BY <1>1 DEF TableH
<1>4. BoxH(d, h) = IF d THEN h - 4 - TableH(d, h) ELSE 0
  BY <1>1 DEF BoxH
<1>5. RowsVisible(g, d, h) = IF g THEN AtLeastOne(h - 4 - 2) ELSE AtLeastOne(t - 3)
  BY <1>1 DEF RowsVisible
<1>6. Body(g, d, h) = AtLeastOne(IF g THEN h - 4 - 2 ELSE TableH(d, h) - 3)
  BY <1>1 DEF Body
<1> HIDE DEF box
<1>7. t \in Int /\ (TableH(d, h) = 5 \/ TableH(d, h) = t) /\ TableH(d, h) \in Int
  BY <1>2, <1>3
<1>8. \A n \in Int : AtLeastOne(n) \in Nat /\ AtLeastOne(n) >= 1 /\ AtLeastOne(n) >= n
  BY DEF AtLeastOne
<1>9. \A m, n \in Int : m <= n => AtLeastOne(m) <= AtLeastOne(n)
  BY DEF AtLeastOne
<1>10. RowsVisible(g, d, h) \in Nat /\ RowsVisible(g, d, h) >= 1
  BY <1>5, <1>7, <1>8
<1>11. ASSUME h >= MinHeight PROVE RowsVisible(g, d, h) <= Body(g, d, h) /\ Body(g, d, h) \in Nat
  <2>1. CASE g
    <3>1. RowsVisible(g, d, h) = AtLeastOne(h - 4 - 2) /\ Body(g, d, h) = AtLeastOne(h - 4 - 2)
      BY <1>5, <1>6, <2>1
    <3>2. h - 4 - 2 \in Int
      OBVIOUS
    <3> QED BY <1>8, <3>1, <3>2
  <2>2. CASE ~g
    <3>1. RowsVisible(g, d, h) = AtLeastOne(t - 3) /\ Body(g, d, h) = AtLeastOne(TableH(d, h) - 3)
      BY <1>5, <1>6, <2>2
    <3>2. t - 3 \in Int /\ TableH(d, h) - 3 \in Int /\ t - 3 <= TableH(d, h) - 3
      BY <1>3, <1>7
    <3> HIDE DEF t
    <3>3. AtLeastOne(t - 3) <= AtLeastOne(TableH(d, h) - 3) /\ AtLeastOne(TableH(d, h) - 3) \in Nat
      BY <1>8, <1>9, <3>2
    <3> QED BY <3>1, <3>3
  <2> QED BY <2>1, <2>2
<1>12. ASSUME h >= MinHeight
       PROVE  HeaderH + TableH(d, h) + BoxH(d, h) = h /\ (d => BoxH(d, h) >= 3)
  <2>1. CASE d
    <3>1. BoxH(d, h) = h - 4 - TableH(d, h)
      BY <1>4, <2>1
    <3>2. TableH(d, h) <= h - 7
      <4>1. h >= 12 /\ box \in {7, 10, 14}
        BY <1>1, <1>2, <1>12, <2>1
      <4>2. 5 <= h - 7 /\ t <= h - 7
        BY <4>1
      <4> QED BY <1>7, <4>2
    <3> QED BY <1>1, <1>7, <3>1, <3>2
  <2>2. CASE ~d
    <3>1. BoxH(d, h) = 0 /\ box = 0
      BY <1>2, <1>4, <2>2
    <3>2. TableH(d, h) = h - 4
      BY <1>1, <1>3, <1>12, <3>1
    <3> QED BY <1>1, <2>2, <3>1, <3>2
  <2> QED BY <2>1, <2>2
<1> QED BY <1>10, <1>11, <1>12

(* clampScroll puts the cursor inside the window.                          *)
LEMMA ScrollFollows ==
  ASSUME NEW c \in Nat, NEW from \in Nat, NEW vis \in Nat, vis >= 1
  PROVE  /\ ClampScroll(c, from, vis) \in Nat
         /\ ClampScroll(c, from, vis) <= c /\ c < ClampScroll(c, from, vis) + vis
<1> DEFINE up == IF c < from THEN c ELSE from
<1>1. ClampScroll(c, from, vis) = IF c >= up + vis THEN c - vis + 1 ELSE up
  BY DEF ClampScroll
<1>2. up \in Nat /\ up <= c
  OBVIOUS
<1> HIDE DEF up
<1>3. CASE c >= up + vis
  <2>1. c - vis + 1 \in Nat /\ c - vis + 1 <= c /\ c < (c - vis + 1) + vis
    BY <1>2, <1>3
  <2> QED BY <1>1, <1>3, <2>1
<1>4. CASE ~(c >= up + vis)
  <2>1. ClampScroll(c, from, vis) = up
    BY <1>1, <1>4
  <2> QED BY <1>2, <1>4, <2>1
<1> QED BY <1>3, <1>4


-----------------------------------------------------------------------------
(* The inductive invariant.                                                *)

(* The lists and the cursor have their types.                              *)
PlaceTyped ==
  /\ snap \in Snapshots \cup {Empty} /\ unseen \in BOOLEAN
  /\ shaper \in Shapers /\ lines \in Seq(TableLines) /\ Len(gl) \in Nat
  /\ graphView \in BOOLEAN /\ detail \in BOOLEAN /\ size \in Sizes
  /\ cursor \in Nat /\ scroll \in Nat /\ cursorKey \in Rows \cup {Group, Nobody}

(* The cursor is on a line, inside the window that clampScroll keeps, and  *)
(* in the table its key is that line's.                                    *)
Placed ==
  /\ IF Shown = 0 THEN cursor = 0 ELSE cursor < Shown
  /\ scroll <= cursor /\ cursor < scroll + RowsVisible(graphView, detail, size[2])
  /\ ~graphView /\ lines # <<>> => cursorKey = Here.key

(* The modes, and the rows of the split and of the confirmation.           *)
KeysTyped ==
  /\ filterMode \in BOOLEAN /\ sortPrefix \in BOOLEAN
  /\ promptMode \in Prompts \cup {""} /\ confirmOp \in {"", "kill", "restart", "merge"}
  /\ mode \in {"table", "pager", "split"}
SplitTyped ==
  /\ focus \in {0, 1}
  /\ markKey \in Rows \cup {Group, Nobody} /\ left \in Rows \cup {Group, Nobody}
  /\ right \in Rows \cup {Group, Nobody} /\ armedOn \in Rows \cup {Group, Nobody}
ModeTyped == KeysTyped /\ SplitTyped

(* While a row is armed, only the confirmation takes keys, and the cursor  *)
(* is on that row.                                                         *)
Armed ==
  armedOn # Nobody =>
    /\ confirmOp \in {"kill", "restart"} /\ ~filterMode /\ promptMode = "" /\ ~graphView
    /\ HasLine /\ Here.key = armedOn

BoardInv ==
  /\ PlaceTyped /\ Placed /\ ModeTyped /\ GraphReadOnly /\ MergeSound
  /\ Armed /\ ConfirmAimed /\ AllPainted


-----------------------------------------------------------------------------
(* What moves the cursor.                                                  *)

LEMMA SizeTyped ==
  ASSUME NEW s \in Sizes
  PROVE  s[1] \in Nat /\ s[2] \in Nat
BY BoardAssumption

LEMMA LineTyped ==
  ASSUME NEW ls \in Seq(TableLines), NEW c \in Nat, c < Len(ls)
  PROVE  /\ c + 1 \in DOMAIN ls /\ c + 1 \in 1..Len(ls) /\ ls[c + 1] \in TableLines
         /\ ls[c + 1].key \in Rows \cup {Group} /\ ls[c + 1].kids \in Nat
         /\ ls[c + 1].depth \in Nat /\ ls[c + 1].key \in Keys(ls) /\ ls # <<>>
<1>1. c + 1 \in 1..Len(ls) /\ DOMAIN ls = 1..Len(ls)
  OBVIOUS
<1>2. ls[c + 1] \in TableLines
  BY <1>1
<1>3. ls # <<>>
  OBVIOUS
<1>4. ls[c + 1].key \in Keys(ls)
  BY <1>1 DEF Keys
<1> QED BY <1>1, <1>2, <1>3, <1>4 DEF TableLines

(* clampCursor, over the list the pane will show.                          *)
LEMMA ClampPlaces ==
  ASSUME PlaceTyped, NEW ls \in Seq(TableLines), NEW g, Len(g) \in Nat, NEW c \in Int,
         NEW from \in Nat, NEW on \in BOOLEAN, Clamp(ls, g, c, from, on),
         lines' = ls, gl' = g, graphView' = on, detail' = detail, size' = size
  PROVE  /\ cursor' \in Nat /\ scroll' \in Nat /\ cursorKey' \in Rows \cup {Group, Nobody}
         /\ Placed'
         /\ ~on /\ c \in 0..(Len(ls) - 1) => cursor' = c /\ cursorKey' = ls[c + 1].key
<1> DEFINE n == IF on THEN Len(g) ELSE Len(ls)
           at == IF c < 0 \/ n = 0 THEN 0 ELSE IF c >= n THEN n - 1 ELSE c
           vis == RowsVisible(on, detail, size[2])
<1>1. /\ cursor' = at
      /\ cursorKey' = IF ~on /\ ls # <<>> THEN ls[at + 1].key ELSE cursorKey
      /\ scroll' = ClampScroll(at, from, vis)
  BY DEF Clamp
<1>2. n \in Nat /\ at \in Nat /\ (n = 0 => at = 0) /\ (n # 0 => at < n)
      /\ (c \in 0..(n - 1) => at = c)
  <2>1. Len(ls) \in Nat
    OBVIOUS
  <2>2. n \in Nat
    BY <2>1
  <2> HIDE DEF n
  <2> QED BY <2>2
<1>3. vis \in Nat /\ vis >= 1
  <2>1. size[2] \in Nat /\ detail \in BOOLEAN
    BY SizeTyped DEF PlaceTyped
  <2> QED BY <2>1, Heights
<1> HIDE DEF at, vis
<1>4. scroll' \in Nat /\ scroll' <= at /\ at < scroll' + vis
  BY <1>1, <1>2, <1>3, ScrollFollows
<1>5. ~on /\ ls # <<>> => n = Len(ls) /\ Len(ls) # 0 /\ ls[at + 1].key \in Rows \cup {Group}
  <2> SUFFICES ASSUME ~on, ls # <<>>
               PROVE  n = Len(ls) /\ Len(ls) # 0 /\ ls[at + 1].key \in Rows \cup {Group}
    OBVIOUS
  <2>1. n = Len(ls) /\ Len(ls) # 0
    OBVIOUS
  <2>2. at < Len(ls)
    BY <1>2, <2>1
  <2> HIDE DEF n
  <2> QED BY <1>2, <2>1, <2>2, LineTyped
<1>6. cursorKey' \in Rows \cup {Group, Nobody}
  BY <1>1, <1>5 DEF PlaceTyped
<1>7. Shown' = n
  BY DEF Shown
<1>8. Here' = ls[at + 1]
  BY <1>1 DEF Here
<1>9. RowsVisible(graphView, detail, size[2])' = vis
  BY DEF vis, RowsVisible, AtLeastOne, DetailH, HeaderH
<1>10. Placed'
  <2>1. IF Shown' = 0 THEN cursor' = 0 ELSE cursor' < Shown'
    BY <1>1, <1>2, <1>7
  <2>2. scroll' <= cursor' /\ cursor' < scroll' + RowsVisible(graphView, detail, size[2])'
    BY <1>1, <1>4, <1>9
  <2>3. ~graphView' /\ lines' # <<>> => cursorKey' = Here'.key
    BY <1>1, <1>8
  <2> QED BY <2>1, <2>2, <2>3 DEF Placed
<1>11. ~on /\ c \in 0..(Len(ls) - 1) => cursor' = c /\ cursorKey' = ls[c + 1].key
  <2> SUFFICES ASSUME ~on, c \in 0..(Len(ls) - 1) PROVE cursor' = c /\ cursorKey' = ls[c + 1].key
    OBVIOUS
  <2>1. n = Len(ls) /\ ls # <<>>
    OBVIOUS
  <2>2. at = c
    BY <1>2, <2>1
  <2> QED BY <1>1, <2>1, <2>2
<1> QED BY <1>1, <1>2, <1>4, <1>6, <1>10, <1>11

(* The first line of a key, when there is one.                             *)
LEMMA FirstLine ==
  ASSUME NEW ls \in Seq(TableLines), NEW k, k \in Keys(ls)
  PROVE  LET at == CHOOSE i \in Index(ls, k) : \A j \in Index(ls, k) : i <= j
         IN  /\ Index(ls, k) # {} /\ at \in Index(ls, k) /\ at - 1 \in 0..(Len(ls) - 1)
             /\ (at - 1) + 1 = at /\ ls[at].key = k
<1> DEFINE S == Index(ls, k)
           at == CHOOSE i \in S : \A j \in S : i <= j
<1>1. DOMAIN ls = 1..Len(ls) /\ Len(ls) \in Nat
  OBVIOUS
<1>2. S \subseteq 1..Len(ls) /\ S # {} /\ \A i \in S : ls[i].key = k
  BY <1>1 DEF Index, Keys
<1> HIDE DEF S
<1>3. \E i \in S : \A j \in S : i <= j
  <2>1. S \subseteq Nat
    BY <1>1, <1>2
  <2> QED BY <1>2, <2>1, LeastNumber
<1>4. at \in S
  BY <1>3
<1> HIDE DEF at
<1>5. at \in 1..Len(ls) /\ ls[at].key = k
  BY <1>2, <1>4
<1>6. at - 1 \in 0..(Len(ls) - 1) /\ (at - 1) + 1 = at
  BY <1>1, <1>5
<1> QED BY <1>2, <1>4, <1>5, <1>6 DEF at, S

(* reshape: the lists are those of the latest snapshot, the cursor is on a *)
(* line, and on the line of its row when there is one.                     *)
LEMMA ReshapePlaces ==
  ASSUME PlaceTyped, NEW sh \in Shapers, NEW c \in Int, Reshape(sh, c),
         snap' = snap, unseen' \in BOOLEAN, UNCHANGED screen
  PROVE  /\ PlaceTyped' /\ Placed' /\ Painted(snap.graph, gl')
         /\ ~graphView /\ cursorKey \in Keys(lines') =>
              cursorKey' = cursorKey /\ HasLine' /\ Here'.key = cursorKey
<1> DEFINE ls == Lines(snap, sh)
           g == Forests[snap.graph]
           to == Restored(ls, c)
<1>1. /\ shaper' = sh /\ lines' = ls /\ gl' = g
      /\ Clamp(ls, g, to, scroll, graphView)
  BY DEF Reshape
<1>2. SnapOK(snap)
  BY SnapshotsOK DEF PlaceTyped
<1>3. ls \in Seq(TableLines)
  BY <1>2, LinesTyped
<1>4. g = FlattenGraph(snap.graph)
  <2>1. snap.graph \in {s.graph : s \in Snapshots} \cup {NoGraph}
    <3>1. Empty.graph = NoGraph
      BY DEF Empty
    <3> QED BY <3>1 DEF PlaceTyped
  <2> DEFINE G == snap.graph
             D == {s.graph : s \in Snapshots} \cup {NoGraph}
  <2> HIDE DEF G, D
  <2>2. Forests = [x \in D |-> FlattenGraph(x)]
    BY DEF Forests, D
  <2>3. G \in D
    BY <2>1 DEF G, D
  <2>4. Forests[G] = FlattenGraph(G)
    BY <2>2, <2>3
  <2> QED BY <2>4 DEF G
<1>5. Painted(snap.graph, g) /\ Len(g) \in Nat
  <2> DEFINE out == FlattenGraph(snap.graph)
  <2>1. GraphOK(snap.graph)
    BY <1>2 DEF SnapOK
  <2>2. Painted(snap.graph, out) /\ out \in Seq(LineSet(snap.graph))
    BY <2>1, GraphPainted
  <2> HIDE DEF out
  <2>3. Len(out) \in Nat
    BY <2>2
  <2> QED BY <1>4, <2>2, <2>3 DEF out
<1> HIDE DEF ls, g
<1>6. ~graphView /\ cursorKey \in Keys(ls) =>
        to \in 0..(Len(ls) - 1) /\ ls[to + 1].key = cursorKey
  <2> SUFFICES ASSUME ~graphView, cursorKey \in Keys(ls)
               PROVE  to \in 0..(Len(ls) - 1) /\ ls[to + 1].key = cursorKey
    OBVIOUS
  <2> DEFINE at == CHOOSE i \in Index(ls, cursorKey) : \A j \in Index(ls, cursorKey) : i <= j
  <2>1. /\ Index(ls, cursorKey) # {} /\ at - 1 \in 0..(Len(ls) - 1)
        /\ (at - 1) + 1 = at /\ ls[at].key = cursorKey
    BY <1>3, FirstLine
  <2>2. to = at - 1
    BY <2>1 DEF Restored
  <2> HIDE DEF at, to
  <2> QED BY <2>1, <2>2
<1>7. to \in Int
  <2>1. CASE ~graphView /\ cursorKey \in Keys(ls)
    <3> HIDE DEF to
    <3>1. Len(ls) \in Nat
      BY <1>3
    <3> QED BY <1>6, <2>1, <3>1
  <2>2. CASE ~(~graphView /\ cursorKey \in Keys(ls))
    <3>1. cursorKey \notin Keys(ls) => Index(ls, cursorKey) = {}
      BY DEF Index, Keys
    <3>2. to = c
      BY <2>2, <3>1 DEF Restored
    <3> QED BY <3>2
  <2> QED BY <2>1, <2>2
<1> HIDE DEF to
<1>8. graphView' = graphView /\ detail' = detail /\ size' = size
  BY DEF screen
<1>9. graphView \in BOOLEAN /\ scroll \in Nat
  BY DEF PlaceTyped
<1>10. /\ cursor' \in Nat /\ scroll' \in Nat /\ cursorKey' \in Rows \cup {Group, Nobody}
       /\ Placed'
       /\ ~graphView /\ to \in 0..(Len(ls) - 1) => cursor' = to /\ cursorKey' = ls[to + 1].key
  BY <1>1, <1>3, <1>5, <1>7, <1>8, <1>9, ClampPlaces
<1>11. PlaceTyped'
  BY <1>1, <1>3, <1>5, <1>8, <1>10 DEF PlaceTyped
<1>12. ASSUME ~graphView, cursorKey \in Keys(lines')
       PROVE  cursorKey' = cursorKey /\ HasLine' /\ Here'.key = cursorKey
  <2>1. to \in 0..(Len(ls) - 1) /\ ls[to + 1].key = cursorKey
    BY <1>1, <1>6, <1>12
  <2>2. cursor' = to /\ cursorKey' = cursorKey
    BY <1>10, <1>12, <2>1
  <2>3. Len(ls) \in Nat
    BY <1>3
  <2>4. HasLine'
    BY <1>1, <2>1, <2>2, <2>3 DEF HasLine
  <2>5. Here' = ls[to + 1]
    BY <1>1, <2>2 DEF Here
  <2> QED BY <2>1, <2>2, <2>4, <2>5
<1> QED BY <1>1, <1>5, <1>10, <1>11, <1>12


-----------------------------------------------------------------------------
(* A step makes the lists anew, moves the cursor over them, moves the      *)
(* window, or leaves the place alone.                                      *)

Reshaped ==
  \E sh \in Shapers, c \in Int :
    Reshape(sh, c) /\ snap' = snap /\ unseen' \in BOOLEAN /\ UNCHANGED screen
Moved ==
  \E on \in BOOLEAN, c \in Int, from \in Nat :
    Clamp(lines, gl, c, from, on) /\ graphView' = on /\ UNCHANGED <<seen, table, detail, size>>
Scrolled ==
  /\ UNCHANGED <<seen, table, cursor, cursorKey, graphView>>
  /\ size' \in Sizes /\ detail' \in BOOLEAN
  /\ scroll' = ClampScroll(cursor, scroll, RowsVisible(graphView, detail', size'[2]))
Stayed ==
  /\ UNCHANGED <<table, place, screen>>
  /\ UNCHANGED seen \/ (snap' \in Snapshots /\ unseen' = TRUE)

LEMMA Settings ==
  ASSUME shaper \in Shapers
  PROVE  /\ \A f \in SUBSET (Rows \cup {Group}) : [shaper EXCEPT !.folded = f] \in Shapers
         /\ \A n \in DOMAIN Matches \cup {0} : [shaper EXCEPT !.filter = n] \in Shapers
         /\ \A b \in BOOLEAN : /\ [shaper EXCEPT !.reverse = b] \in Shapers
                               /\ [shaper EXCEPT !.showDone = b] \in Shapers
                               /\ \A s \in {"cpu", "name"} :
                                    [shaper EXCEPT !.sort = s, !.reverse = b] \in Shapers
         /\ shaper.folded \in SUBSET (Rows \cup {Group})
         /\ shaper.reverse \in BOOLEAN /\ shaper.showDone \in BOOLEAN
<1>1. \A f \in SUBSET (Rows \cup {Group}) : [shaper EXCEPT !.folded = f] \in Shapers
  BY DEF Shapers
<1>2. \A n \in DOMAIN Matches \cup {0} : [shaper EXCEPT !.filter = n] \in Shapers
  BY DEF Shapers
<1>3. \A b \in BOOLEAN : [shaper EXCEPT !.reverse = b] \in Shapers
  BY DEF Shapers
<1>4. \A b \in BOOLEAN : [shaper EXCEPT !.showDone = b] \in Shapers
  BY DEF Shapers
<1>5. \A b \in BOOLEAN, s \in {"cpu", "name"} : [shaper EXCEPT !.sort = s, !.reverse = b] \in Shapers
  <2> SUFFICES ASSUME NEW b \in BOOLEAN, NEW s \in {"cpu", "name"}
               PROVE  [shaper EXCEPT !.sort = s, !.reverse = b] \in Shapers
    OBVIOUS
  <2> DEFINE half == [shaper EXCEPT !.sort = s]
  <2>1. half \in Shapers
    BY DEF Shapers
  <2>2. [shaper EXCEPT !.sort = s, !.reverse = b] = [half EXCEPT !.reverse = b]
    OBVIOUS
  <2> HIDE DEF half
  <2>3. [half EXCEPT !.reverse = b] \in Shapers
    BY <2>1 DEF Shapers
  <2> QED BY <2>2, <2>3
<1>6. shaper.folded \in SUBSET (Rows \cup {Group}) /\ shaper.reverse \in BOOLEAN
      /\ shaper.showDone \in BOOLEAN
  BY DEF Shapers
<1> QED BY <1>1, <1>2, <1>3, <1>4, <1>5, <1>6

LEMMA NextPlaces ==
  ASSUME PlaceTyped, Next
  PROVE  Reshaped \/ Moved \/ Scrolled \/ Stayed
<1> DEFINE Folds(k) == [shaper EXCEPT !.folded = Toggle(@, k)]
<1>0. /\ cursor \in Nat /\ cursor \in Int /\ scroll \in Nat /\ shaper \in Shapers /\ size \in Sizes
      /\ graphView \in BOOLEAN /\ detail \in BOOLEAN /\ unseen \in BOOLEAN
      /\ lines \in Seq(TableLines)
  BY DEF PlaceTyped
<1>1. CASE \E s \in Snapshots : Publish(s)
  BY <1>1 DEF Publish, Stayed
<1>2. CASE Tick
  <2>1. Reshape(shaper, cursor) /\ snap' = snap /\ unseen' = FALSE /\ UNCHANGED screen
    BY <1>2 DEF Tick
  <2>2. unseen' \in BOOLEAN
    BY <2>1
  <2> QED BY <1>0, <2>1, <2>2 DEF Reshaped
<1>3. CASE \E s \in Sizes \ {size} : Resize(s)
  <2>1. PICK s \in Sizes \ {size} : Resize(s)
    BY <1>3
  <2> QED BY <1>0, <2>1 DEF Resize, Scrolled
<1>4. CASE \E to \in Moves : Move(to)
  <2>1. PICK to \in Moves : Move(to)
    BY <1>4
  <2>2. Shown \in Int /\ Half \in Int
    <3>1. Len(gl) \in Nat /\ Len(lines) \in Nat
      BY <1>0 DEF PlaceTyped
    <3>2. size[2] \in Nat
      BY <1>0, SizeTyped
    <3>3. RowsVisible(graphView, detail, size[2]) \in Nat
      BY <1>0, <3>2, Heights
    <3> DEFINE v == RowsVisible(graphView, detail, size[2])
    <3> HIDE DEF v
    <3>4. v \div 2 \in Int
      BY <3>3 DEF v
    <3> QED BY <3>1, <3>4 DEF Shown, Half, v
  <2>3. to \in Int
    BY <1>0, <2>1, <2>2 DEF Moves
  <2>4. Clamp(lines, gl, to, scroll, graphView) /\ UNCHANGED <<seen, table, screen>>
    BY <2>1 DEF Move, Quiet
  <2>5. graphView' = graphView /\ UNCHANGED <<seen, table, detail, size>>
    BY <2>4 DEF screen
  <2> QED BY <1>0, <2>3, <2>4, <2>5 DEF Moved
<1>5. CASE Unfold
  <2> DEFINE sh == [shaper EXCEPT !.folded = Toggle(@, Here.key)]
  <2>1. HasLine /\ Reshape(sh, cursor) /\ UNCHANGED <<seen, screen>>
    BY <1>5 DEF Unfold, Quiet
  <2>2. Here.key \in Rows \cup {Group}
    BY <1>0, <2>1, LineTyped DEF HasLine, Here
  <2>3. Toggle(shaper.folded, Here.key) \in SUBSET (Rows \cup {Group})
    BY <1>0, <2>2, Settings DEF Toggle
  <2>4. sh \in Shapers
    BY <1>0, <2>3, Settings
  <2>5. snap' = snap /\ unseen' \in BOOLEAN /\ UNCHANGED screen
    BY <1>0, <2>1 DEF seen
  <2> HIDE DEF sh
  <2> QED BY <1>0, <2>1, <2>4, <2>5 DEF Reshaped
<1>6. CASE Left
  <2> DEFINE folds == Here.kids > 0 /\ Here.key \notin shaper.folded
             to == IF ~folds /\ Here.depth > 0 /\ Above # {}
                   THEN (CHOOSE i \in Above : \A j \in Above : j <= i) - 1 ELSE cursor
             sh == IF folds THEN [shaper EXCEPT !.folded = @ \cup {Here.key}] ELSE shaper
  <2>1. HasLine /\ Reshape(sh, to) /\ UNCHANGED <<seen, screen>>
    BY <1>6 DEF Left, Quiet
  <2>2. Here.key \in Rows \cup {Group}
    BY <1>0, <2>1, LineTyped DEF HasLine, Here
  <2>3. sh \in Shapers
    <3>1. shaper.folded \cup {Here.key} \in SUBSET (Rows \cup {Group})
      BY <1>0, <2>2, Settings
    <3>2. [shaper EXCEPT !.folded = @ \cup {Here.key}] \in Shapers
      BY <1>0, <3>1, Settings
    <3> QED BY <1>0, <3>2
  <2>4. to \in Int
    <3> SUFFICES ASSUME Above # {} PROVE (CHOOSE i \in Above : \A j \in Above : j <= i) \in Int
      BY <1>0
    <3>1. Above \subseteq 1..cursor
      BY DEF Above
    <3> DEFINE A == Above
    <3> HIDE DEF A
    <3>2. Max(A) \in A /\ \A x \in A : x <= Max(A)
      BY <1>0, <3>1, GreatestNumber DEF A
    <3>3. (CHOOSE i \in A : \A j \in A : j <= i) \in A
      BY <3>2
    <3>4. A \subseteq 1..cursor
      BY <3>1 DEF A
    <3>5. (CHOOSE i \in A : \A j \in A : j <= i) \in Int
      <4>1. \A m \in A : m \in Int
        BY <1>0, <3>4
      <4> QED BY <3>3, <4>1
    <3> QED BY <3>5, Zenon DEF A
  <2>5. snap' = snap /\ unseen' \in BOOLEAN /\ UNCHANGED screen
    BY <1>0, <2>1 DEF seen
  <2> HIDE DEF sh, to
  <2> QED BY <2>1, <2>3, <2>4, <2>5 DEF Reshaped
<1>7. CASE Detail
  <2>1. /\ detail' = ~detail /\ UNCHANGED <<seen, table, cursor, cursorKey, graphView, size>>
        /\ scroll' = ClampScroll(cursor, scroll, RowsVisible(graphView, ~detail, size[2]))
    BY <1>7 DEF Detail, Quiet
  <2>2. size' = size /\ detail' \in BOOLEAN
    BY <1>0, <2>1
  <2> QED BY <1>0, <2>1, <2>2 DEF Scrolled
<1>8. CASE ShowDone
  <2>1. Reshape([shaper EXCEPT !.showDone = ~@], cursor) /\ UNCHANGED <<seen, screen>>
    BY <1>8 DEF ShowDone, Quiet
  <2>2. [shaper EXCEPT !.showDone = ~@] \in Shapers
    BY <1>0, Settings
  <2>3. snap' = snap /\ unseen' \in BOOLEAN /\ UNCHANGED screen
    BY <1>0, <2>1 DEF seen
  <2> QED BY <1>0, <2>1, <2>2, <2>3 DEF Reshaped
<1>9. CASE ReverseOrder
  <2>1. Reshape([shaper EXCEPT !.reverse = ~@], cursor) /\ UNCHANGED <<seen, screen>>
    BY <1>9 DEF ReverseOrder, Quiet
  <2>2. [shaper EXCEPT !.reverse = ~@] \in Shapers
    BY <1>0, Settings
  <2>3. snap' = snap /\ unseen' \in BOOLEAN /\ UNCHANGED screen
    BY <1>0, <2>1 DEF seen
  <2> QED BY <1>0, <2>1, <2>2, <2>3 DEF Reshaped
<1>10. CASE SortPrefix
  BY <1>10 DEF SortPrefix, Quiet, Stayed
<1>11. CASE \E by \in {"cpu", "name"} : SetSort(by)
  <2>1. PICK by \in {"cpu", "name"} : SetSort(by)
    BY <1>11
  <2> DEFINE sh == IF shaper.sort = by THEN [shaper EXCEPT !.reverse = ~@]
                   ELSE [shaper EXCEPT !.sort = by, !.reverse = FALSE]
  <2>2. Reshape(sh, cursor) /\ UNCHANGED <<seen, screen>>
    BY <2>1 DEF SetSort, Quiet
  <2>3. sh \in Shapers
    <3>1. [shaper EXCEPT !.reverse = ~@] \in Shapers
      BY <1>0, Settings
    <3>2. [shaper EXCEPT !.sort = by, !.reverse = FALSE] \in Shapers
      BY <1>0, Settings
    <3> QED BY <3>1, <3>2
  <2>4. snap' = snap /\ unseen' \in BOOLEAN /\ UNCHANGED screen
    BY <1>0, <2>2 DEF seen
  <2> HIDE DEF sh
  <2> QED BY <1>0, <2>2, <2>3, <2>4 DEF Reshaped
<1>12. CASE StartFilter
  BY <1>12 DEF StartFilter, Quiet, Stayed
<1>13. CASE TypeFilter
  <2>1. PICK n \in {shaper.filter + 1, shaper.filter - 1} \cap (DOMAIN Matches \cup {0}) :
          Reshape([shaper EXCEPT !.filter = n], cursor)
    BY <1>13 DEF TypeFilter
  <2>2. [shaper EXCEPT !.filter = n] \in Shapers
    BY <1>0, Settings
  <2>3. snap' = snap /\ unseen' \in BOOLEAN /\ UNCHANGED screen
    BY <1>0, <1>13 DEF seen, TypeFilter, Quiet
  <2> QED BY <1>0, <2>1, <2>2, <2>3 DEF Reshaped
<1>14. CASE EndFilter
  <2>1. UNCHANGED <<seen, screen>>
    BY <1>14 DEF EndFilter, Quiet
  <2>2. CASE Reshape([shaper EXCEPT !.filter = 0], cursor)
    <3>1. [shaper EXCEPT !.filter = 0] \in Shapers
      BY <1>0, Settings
    <3>2. snap' = snap /\ unseen' \in BOOLEAN /\ UNCHANGED screen
      BY <1>0, <2>1 DEF seen
    <3> QED BY <1>0, <2>2, <3>1, <3>2 DEF Reshaped
  <2>3. CASE UNCHANGED <<table, place>>
    BY <2>1, <2>3 DEF Stayed
  <2> QED BY <1>14, <2>2, <2>3 DEF EndFilter
<1>15. CASE ClearFilter
  <2>1. Reshape([shaper EXCEPT !.filter = 0], cursor) /\ UNCHANGED <<seen, screen>>
    BY <1>15 DEF ClearFilter, Quiet
  <2>2. [shaper EXCEPT !.filter = 0] \in Shapers
    BY <1>0, Settings
  <2>3. snap' = snap /\ unseen' \in BOOLEAN /\ UNCHANGED screen
    BY <1>0, <2>1 DEF seen
  <2> QED BY <1>0, <2>1, <2>2, <2>3 DEF Reshaped
<1>16. CASE Fork \/ (\E op \in {"kill", "restart"} : Arm(op)) \/ (\E p \in Prompts : Prompt(p))
            \/ Answer \/ Confirm \/ Deny
  BY <1>16 DEF Fork, Arm, Prompt, Answer, Confirm, Deny, Quiet, Stayed
<1>17. CASE Mark \/ Enter \/ ClosePane \/ (\E side \in {0, 1} : Focus(side)) \/ ArmMerge
  BY <1>17 DEF Mark, Enter, ClosePane, Focus, ArmMerge, Quiet, Stayed
<1>18. CASE \E on \in BOOLEAN : SetGraphView(on)
  <2>1. PICK on \in BOOLEAN : SetGraphView(on)
    BY <1>18
  <2>2. graphView' = on /\ Clamp(lines, gl, 0, 0, on) /\ UNCHANGED <<seen, table, detail, size>>
    BY <2>1 DEF SetGraphView, Quiet
  <2>3. 0 \in Int /\ 0 \in Nat
    OBVIOUS
  <2> QED BY <2>2, <2>3 DEF Moved
<1> QED BY <1>1, <1>2, <1>3, <1>4, <1>5, <1>6, <1>7, <1>8, <1>9, <1>10, <1>11, <1>12, <1>13,
           <1>14, <1>15, <1>16, <1>17, <1>18 DEF Next


-----------------------------------------------------------------------------
(* The parts of the invariant, kept by every step.                         *)

(* A pane that stays keeps the cursor where it is.                         *)
LEMMA PlacesKept ==
  ASSUME BoardInv, Next
  PROVE  PlaceTyped' /\ Placed' /\ AllPainted'
<1>1. PlaceTyped /\ Placed /\ AllPainted
  BY DEF BoardInv
<1>2. CASE Reshaped
  <2>1. PICK sh \in Shapers, c \in Int :
          Reshape(sh, c) /\ snap' = snap /\ unseen' \in BOOLEAN /\ UNCHANGED screen
    BY <1>2 DEF Reshaped
  <2>2. PlaceTyped' /\ Placed' /\ Painted(snap.graph, gl')
    BY <1>1, <2>1, ReshapePlaces
  <2> QED BY <2>1, <2>2 DEF AllPainted
<1>3. CASE Moved
  <2>1. PICK on \in BOOLEAN, c \in Int, from \in Nat :
          Clamp(lines, gl, c, from, on) /\ graphView' = on /\ UNCHANGED <<seen, table, detail, size>>
    BY <1>3 DEF Moved
  <2>2. /\ snap' = snap /\ unseen' = unseen /\ shaper' = shaper /\ lines' = lines /\ gl' = gl
        /\ detail' = detail /\ size' = size
    BY <2>1 DEF seen, table
  <2>3. lines \in Seq(TableLines) /\ Len(gl) \in Nat
    BY <1>1 DEF PlaceTyped
  <2>4. /\ cursor' \in Nat /\ scroll' \in Nat /\ cursorKey' \in Rows \cup {Group, Nobody}
        /\ Placed'
    BY <1>1, <2>1, <2>2, <2>3, ClampPlaces
  <2>5. PlaceTyped'
    BY <1>1, <2>1, <2>2, <2>4 DEF PlaceTyped
  <2> QED BY <1>1, <2>2, <2>4, <2>5 DEF AllPainted
<1>4. CASE Scrolled
  <2>1. /\ snap' = snap /\ unseen' = unseen /\ shaper' = shaper /\ lines' = lines /\ gl' = gl
        /\ cursor' = cursor /\ cursorKey' = cursorKey /\ graphView' = graphView
        /\ size' \in Sizes /\ detail' \in BOOLEAN
        /\ scroll' = ClampScroll(cursor, scroll, RowsVisible(graphView, detail', size'[2]))
    BY <1>4 DEF Scrolled, seen, table
  <2> DEFINE vis == RowsVisible(graphView, detail', size'[2])
  <2>2. vis \in Nat /\ vis >= 1
    <3>1. size'[2] \in Nat
      BY <2>1, SizeTyped
    <3> QED BY <1>1, <2>1, <3>1, Heights DEF PlaceTyped
  <2>3. RowsVisible(graphView, detail, size[2])' = vis
    BY <2>1 DEF RowsVisible, AtLeastOne, DetailH, HeaderH
  <2> HIDE DEF vis
  <2>4. cursor \in Nat /\ scroll \in Nat
    BY <1>1 DEF PlaceTyped
  <2>5. scroll' \in Nat /\ scroll' <= cursor /\ cursor < scroll' + vis
    <3>1. scroll' = ClampScroll(cursor, scroll, vis)
      BY <2>1 DEF vis
    <3> QED BY <2>2, <2>4, <3>1, ScrollFollows
  <2>6. PlaceTyped'
    BY <1>1, <2>1, <2>5 DEF PlaceTyped
  <2>7. Shown' = Shown /\ Here' = Here
    BY <2>1 DEF Shown, Here
  <2>8. Placed'
    <3>1. scroll' <= cursor' /\ cursor' < scroll' + RowsVisible(graphView, detail, size[2])'
      BY <2>1, <2>3, <2>5
    <3>2. IF Shown' = 0 THEN cursor' = 0 ELSE cursor' < Shown'
      BY <1>1, <2>1, <2>7 DEF Placed
    <3>3. ~graphView' /\ lines' # <<>> => cursorKey' = Here'.key
      BY <1>1, <2>1, <2>7 DEF Placed
    <3> QED BY <3>1, <3>2, <3>3 DEF Placed
  <2> QED BY <1>1, <2>1, <2>6, <2>8 DEF AllPainted
<1>5. CASE Stayed
  <2>1. /\ shaper' = shaper /\ lines' = lines /\ gl' = gl /\ cursor' = cursor
        /\ cursorKey' = cursorKey /\ scroll' = scroll /\ graphView' = graphView
        /\ detail' = detail /\ size' = size
    BY <1>5 DEF Stayed, table, place, screen
  <2>2. (snap' = snap /\ unseen' = unseen) \/ (snap' \in Snapshots /\ unseen' = TRUE)
    BY <1>5 DEF Stayed, seen
  <2>3. PlaceTyped'
    BY <1>1, <2>1, <2>2 DEF PlaceTyped
  <2>4. Shown' = Shown /\ Here' = Here
    BY <2>1 DEF Shown, Here
  <2>5. RowsVisible(graphView, detail, size[2])' = RowsVisible(graphView, detail, size[2])
    BY <2>1 DEF RowsVisible, AtLeastOne, DetailH, HeaderH
  <2>6. Placed'
    BY <1>1, <2>1, <2>4, <2>5 DEF Placed
  <2>7. AllPainted'
    BY <1>1, <2>1, <2>2 DEF AllPainted
  <2> QED BY <2>3, <2>6, <2>7
<1> QED BY <1>1, <1>2, <1>3, <1>4, <1>5, NextPlaces


(* What is in the split, while nothing is merged.                          *)
LEMMA CalmKeeps ==
  ASSUME MergeSound, UNCHANGED split, mode' = mode, sent'.op # "merge"
  PROVE  MergeSound'
<1>1. left' = left /\ right' = right
  BY DEF split
<1> QED BY <1>1 DEF MergeSound, SameAncestry, IsAncestor

LEMMA Ancestry ==
  ASSUME NEW a, NEW b
  PROVE  SameAncestry(a, b) <=> SameAncestry(b, a)
<1>1. {a, b} = {b, a}
  OBVIOUS
<1> QED BY <1>1 DEF SameAncestry

LEMMA Intents ==
  ASSUME NEW op, Intent(op)
  PROVE  /\ sent'.op \in {op, "none"}
         /\ sent'.op = op => op = "none" \/ (HasLine /\ sent'.key = Here.key /\ sent'.armed = armedOn)
<1>1. CASE HasLine
  <2> DEFINE k == Here.key
             s == [NoIntent EXCEPT !.op = op, !.key = k, !.armed = armedOn]
  <2>1. sent' = s
    BY <1>1 DEF Intent
  <2>2. s.op = op /\ s.key = k /\ s.armed = armedOn
    <3> HIDE DEF k
    <3> QED BY DEF NoIntent
  <2> HIDE DEF s
  <2> QED BY <1>1, <2>1, <2>2
<1>2. CASE ~HasLine
  BY <1>2 DEF Intent, NoIntent
<1> QED BY <1>1, <1>2

(* The rows of the split and of the confirmation stay, or one is armed.    *)
LEMMA SplitStays ==
  ASSUME SplitTyped, UNCHANGED split,
         armedOn' \in {armedOn, Nobody} \/ armedOn' \in Rows \cup {Group}
  PROVE  SplitTyped'
<1>1. markKey' = markKey /\ left' = left /\ right' = right /\ focus' = focus
  BY DEF split
<1>2. armedOn' \in Rows \cup {Group, Nobody}
  BY DEF SplitTyped
<1> QED BY <1>1, <1>2 DEF SplitTyped

LEMMA ModesKept ==
  ASSUME BoardInv, Next
  PROVE  ModeTyped' /\ GraphReadOnly' /\ MergeSound'
<1> USE DEF TableKey, InTable, InGraph, Plain, Paging, Typing, Prompting, Confirming, Quiet,
            OtherModes, screen, modes
<1>0. PlaceTyped /\ KeysTyped /\ SplitTyped /\ GraphReadOnly /\ MergeSound
  BY DEF BoardInv, ModeTyped
<1>a. NoIntent.op = "none"
  BY DEF NoIntent
<1>b. \A op \in Prompts : op \notin {"", "none", "kill", "restart", "merge"}
  BY BoardAssumption
<1>c. HasLine => Here.key \in Rows \cup {Group}
  BY <1>0, LineTyped DEF PlaceTyped, HasLine, Here
<1>1. CASE \E s \in Snapshots : Publish(s)
  <2>1. UNCHANGED <<screen, modes, split, armedOn>> /\ sent' = NoIntent
    BY <1>1 DEF Publish
  <2>2. MergeSound'
    BY <1>0, <1>a, <2>1, CalmKeeps
  <2>3. KeysTyped'
    BY <1>0, <2>1, <2>2 DEF KeysTyped
  <2>4. SplitTyped'
    BY <1>0, <2>1, <2>2, SplitStays
  <2>5. GraphReadOnly'
    BY <1>0, <2>1, <2>2 DEF GraphReadOnly
  <2> QED BY <2>2, <2>3, <2>4, <2>5 DEF ModeTyped
<1>2. CASE Tick
  <2>1. UNCHANGED <<screen, modes, split>> /\ sent' = NoIntent /\ armedOn' \in {armedOn, Nobody}
    BY <1>2 DEF Tick
  <2>2. MergeSound'
    BY <1>0, <1>a, <2>1, CalmKeeps
  <2>3. KeysTyped'
    BY <1>0, <2>1, <2>2 DEF KeysTyped
  <2>4. SplitTyped'
    BY <1>0, <2>1, <2>2, SplitStays
  <2>5. GraphReadOnly'
    BY <1>0, <2>1, <2>2 DEF GraphReadOnly
  <2> QED BY <2>2, <2>3, <2>4, <2>5 DEF ModeTyped
<1>3. CASE \E s \in Sizes \ {size} : Resize(s)
  <2>1. UNCHANGED <<graphView, modes, split, armedOn>> /\ sent' = NoIntent
    BY <1>3 DEF Resize
  <2>2. MergeSound'
    BY <1>0, <1>a, <2>1, CalmKeeps
  <2>3. KeysTyped'
    BY <1>0, <2>1, <2>2 DEF KeysTyped
  <2>4. SplitTyped'
    BY <1>0, <2>1, <2>2, SplitStays
  <2>5. GraphReadOnly'
    BY <1>0, <2>1, <2>2 DEF GraphReadOnly
  <2> QED BY <2>2, <2>3, <2>4, <2>5 DEF ModeTyped
<1>4. CASE (\E to \in Moves : Move(to)) \/ Unfold \/ Left \/ Detail \/ ShowDone \/ ReverseOrder
           \/ SortPrefix \/ (\E by \in {"cpu", "name"} : SetSort(by)) \/ StartFilter \/ TypeFilter
           \/ EndFilter \/ ClearFilter
  <2>1. /\ UNCHANGED <<split, armedOn, promptMode, confirmOp, mode>> /\ sent' = NoIntent
        /\ graphView' = graphView
    BY <1>4 DEF Move, Unfold, Left, Detail, ShowDone, ReverseOrder, SortPrefix, SetSort,
                StartFilter, TypeFilter, EndFilter, ClearFilter
  <2>2. MergeSound'
    BY <1>0, <1>a, <2>1, CalmKeeps
  <2>3. filterMode' \in BOOLEAN /\ sortPrefix' \in BOOLEAN
    BY <1>0, <1>4 DEF Move, Unfold, Left, Detail, ShowDone, ReverseOrder, SortPrefix, SetSort,
                      StartFilter, TypeFilter, EndFilter, ClearFilter, KeysTyped
  <2>4. graphView => ~filterMode' /\ ~sortPrefix'
    BY <1>0, <1>4 DEF Move, Unfold, Left, Detail, ShowDone, ReverseOrder, SortPrefix, SetSort,
                      StartFilter, TypeFilter, EndFilter, ClearFilter, GraphReadOnly
  <2>5. KeysTyped'
    BY <1>0, <2>1, <2>2, <2>3, <2>4 DEF KeysTyped
  <2>6. SplitTyped'
    BY <1>0, <2>1, <2>2, <2>3, <2>4, SplitStays
  <2>7. GraphReadOnly'
    BY <1>0, <2>1, <2>2, <2>3, <2>4 DEF GraphReadOnly
  <2> QED BY <2>2, <2>5, <2>6, <2>7 DEF ModeTyped
<1>5. CASE Fork
  <2>1. /\ UNCHANGED <<screen, split, armedOn, filterMode, promptMode, confirmOp, mode>>
        /\ sortPrefix' = FALSE /\ Intent("fork")
    BY <1>5 DEF Fork
  <2>2. sent'.op # "merge"
    BY <2>1, Intents
  <2>3. MergeSound'
    BY <1>0, <2>1, <2>2, CalmKeeps
  <2>4. KeysTyped'
    BY <1>0, <2>1, <2>3 DEF KeysTyped
  <2>5. SplitTyped'
    BY <1>0, <2>1, <2>3, SplitStays
  <2>6. GraphReadOnly'
    BY <1>0, <2>1, <2>3 DEF GraphReadOnly
  <2> QED BY <2>3, <2>4, <2>5, <2>6 DEF ModeTyped
<1>6. CASE \E op \in {"kill", "restart"} : Arm(op)
  <2>1. PICK op \in {"kill", "restart"} : Arm(op)
    BY <1>6
  <2>2. /\ UNCHANGED <<screen, split, filterMode, promptMode, mode>> /\ sent' = NoIntent
        /\ sortPrefix' = FALSE /\ confirmOp' = op /\ armedOn' = Here.key /\ HasLine /\ ~graphView
    BY <2>1 DEF Arm
  <2>3. MergeSound'
    BY <1>0, <1>a, <2>2, CalmKeeps
  <2>4. KeysTyped'
    BY <1>0, <1>c, <2>2, <2>3 DEF KeysTyped
  <2>5. SplitTyped'
    BY <1>0, <1>c, <2>2, <2>3, SplitStays
  <2>6. GraphReadOnly'
    BY <1>0, <1>c, <2>2, <2>3 DEF GraphReadOnly
  <2> QED BY <2>3, <2>4, <2>5, <2>6 DEF ModeTyped
<1>7. CASE \E p \in Prompts : Prompt(p)
  <2>1. PICK p \in Prompts : Prompt(p)
    BY <1>7
  <2>2. /\ UNCHANGED <<screen, split, armedOn, filterMode, confirmOp, mode>> /\ sent' = NoIntent
        /\ sortPrefix' = FALSE /\ promptMode' = p /\ ~graphView
    BY <2>1 DEF Prompt
  <2>3. MergeSound'
    BY <1>0, <1>a, <2>2, CalmKeeps
  <2>4. KeysTyped'
    BY <1>0, <2>2, <2>3 DEF KeysTyped
  <2>5. SplitTyped'
    BY <1>0, <2>2, <2>3, SplitStays
  <2>6. GraphReadOnly'
    BY <1>0, <2>2, <2>3 DEF GraphReadOnly
  <2> QED BY <2>3, <2>4, <2>5, <2>6 DEF ModeTyped
<1>8. CASE Answer
  <2>1. /\ UNCHANGED <<screen, split, armedOn, filterMode, sortPrefix, confirmOp, mode>>
        /\ promptMode' = "" /\ promptMode # "" /\ (Intent(promptMode) \/ sent' = NoIntent)
    BY <1>8 DEF Answer
  <2>2. sent'.op # "merge"
    <3>1. promptMode \in Prompts
      BY <1>0, <2>1 DEF KeysTyped
    <3>2. promptMode # "merge"
      BY <1>b, <3>1
    <3> QED BY <1>a, <2>1, <3>2, Intents
  <2>3. MergeSound'
    BY <1>0, <2>1, <2>2, CalmKeeps
  <2>4. KeysTyped'
    BY <1>0, <2>1, <2>3 DEF KeysTyped
  <2>5. SplitTyped'
    BY <1>0, <2>1, <2>3, SplitStays
  <2>6. GraphReadOnly'
    BY <1>0, <2>1, <2>3 DEF GraphReadOnly
  <2> QED BY <2>3, <2>4, <2>5, <2>6 DEF ModeTyped
<1>9. CASE Confirm
  <2>1. /\ UNCHANGED <<screen, split, filterMode, sortPrefix, promptMode, mode>>
        /\ confirmOp' = "" /\ armedOn' = Nobody /\ confirmOp # ""
        /\ IF confirmOp = "merge"
           THEN sent' = IF mode = "split" THEN MergeOf(left, right, focus) ELSE NoIntent
           ELSE Intent(confirmOp)
    BY <1>9 DEF Confirm
  <2>2. MergeSound'
    <3>1. CASE confirmOp # "merge"
      <4>1. sent'.op # "merge"
        BY <2>1, <3>1, Intents
      <4> QED BY <1>0, <2>1, <4>1, CalmKeeps
    <3>2. CASE confirmOp = "merge"
      <4>1. mode = "split" /\ sent' = MergeOf(left, right, focus)
        BY <1>0, <2>1, <3>2 DEF GraphReadOnly
      <4>2. left' = left /\ right' = right /\ mode' = mode
        BY <2>1 DEF split
      <4>3. left # right /\ SameAncestry(left, right)
        BY <1>0, <4>1 DEF MergeSound
      <4> DEFINE win == IF focus = 1 THEN right ELSE left
                 lose == IF focus = 1 THEN left ELSE right
                 told == IF IsAncestor(right, left) THEN right ELSE left
      <4>4. sent'.winner = win /\ sent'.loser = lose /\ sent'.key = told
        BY <4>1 DEF MergeOf
      <4>5. {win, lose} = {left, right} /\ told \in {left, right}
        OBVIOUS
      <4>6. ASSUME NEW k \in {left, right} PROVE IsAncestor(told, k) \/ ~IsAncestor(k, told)
        <5>1. CASE k = told
          BY <5>1
        <5>2. CASE k # told /\ IsAncestor(right, left)
          BY <5>2
        <5>3. CASE k # told /\ ~IsAncestor(right, left)
          BY <5>3
        <5> QED BY <5>1, <5>2, <5>3
      <4> HIDE DEF win, lose, told
      <4>7. /\ {sent'.winner, sent'.loser} = {left', right'} /\ sent'.key \in {left', right'}
            /\ \A k \in {left', right'} : IsAncestor(sent'.key, k) \/ ~IsAncestor(k, sent'.key)
        BY <4>2, <4>4, <4>5, <4>6
      <4>8. left' # right' /\ SameAncestry(left', right')
        BY <4>2, <4>3
      <4> QED BY <4>7, <4>8 DEF MergeSound, SameAncestry, IsAncestor
    <3> QED BY <3>1, <3>2
  <2>3. KeysTyped'
    BY <1>0, <2>1, <2>2 DEF KeysTyped
  <2>4. SplitTyped'
    BY <1>0, <2>1, <2>2, SplitStays
  <2>5. GraphReadOnly'
    BY <1>0, <2>1, <2>2 DEF GraphReadOnly
  <2> QED BY <2>2, <2>3, <2>4, <2>5 DEF ModeTyped
<1>10. CASE Deny
  <2>1. /\ UNCHANGED <<screen, split, filterMode, sortPrefix, promptMode, mode>>
        /\ confirmOp' = "" /\ armedOn' = Nobody /\ sent' = NoIntent
    BY <1>10 DEF Deny
  <2>2. MergeSound'
    BY <1>0, <1>a, <2>1, CalmKeeps
  <2>3. KeysTyped'
    BY <1>0, <2>1, <2>2 DEF KeysTyped
  <2>4. SplitTyped'
    BY <1>0, <2>1, <2>2, SplitStays
  <2>5. GraphReadOnly'
    BY <1>0, <2>1, <2>2 DEF GraphReadOnly
  <2> QED BY <2>2, <2>3, <2>4, <2>5 DEF ModeTyped
<1>11. CASE Mark
  <2>1. /\ UNCHANGED <<screen, left, right, focus, armedOn, filterMode, promptMode, confirmOp, mode>>
        /\ sortPrefix' = FALSE /\ markKey' \in {markKey, Here.key} /\ HasLine /\ sent' = NoIntent
    BY <1>11 DEF Mark
  <2>2. MergeSound'
    BY <1>0, <1>a, <2>1 DEF MergeSound, SameAncestry, IsAncestor
  <2>3. KeysTyped'
    BY <1>0, <1>c, <2>1, <2>2 DEF KeysTyped
  <2>4. SplitTyped'
    BY <1>0, <1>c, <2>1, <2>2 DEF SplitTyped
  <2>5. GraphReadOnly'
    BY <1>0, <1>c, <2>1, <2>2 DEF GraphReadOnly
  <2> QED BY <2>2, <2>3, <2>4, <2>5 DEF ModeTyped
<1>12. CASE Enter
  <2>1. /\ UNCHANGED <<screen, filterMode, promptMode, confirmOp, markKey, armedOn>>
        /\ sortPrefix' = FALSE /\ HasLine /\ sent' = NoIntent /\ confirmOp = "" /\ ~graphView
    BY <1>12 DEF Enter
  <2>2. CASE Marked(Here.key) /\ OpenSplit(markKey, Here.key)
    <3>1. markKey # Here.key /\ SameAncestry(markKey, Here.key)
      BY <2>2 DEF Marked
    <3>2. mode' = "split" /\ focus' = 1 /\ {left', right'} = {markKey, Here.key}
          /\ left' # right' /\ left' \in {markKey, Here.key} /\ right' \in {markKey, Here.key}
          /\ ((left' = markKey /\ right' = Here.key) \/ (left' = Here.key /\ right' = markKey))
      BY <2>2, <3>1 DEF OpenSplit
    <3>3. SameAncestry(left', right')
      BY <3>1, <3>2, Ancestry
    <3>4. MergeSound'
      BY <1>a, <2>1, <3>2, <3>3 DEF MergeSound, SameAncestry, IsAncestor
    <3>5. KeysTyped'
      BY <1>0, <1>c, <2>1, <3>2, <3>4 DEF KeysTyped
    <3>6. SplitTyped'
      BY <1>0, <1>c, <2>1, <3>2, <3>4 DEF SplitTyped
    <3>7. GraphReadOnly'
      BY <1>0, <1>c, <2>1, <3>2, <3>4 DEF GraphReadOnly
    <3> QED BY <3>4, <3>5, <3>6, <3>7 DEF ModeTyped
  <2>3. CASE OpenPager
    <3>1. mode' = "pager" /\ left' = left /\ right' = right /\ focus' = focus
      BY <2>3 DEF OpenPager
    <3>2. MergeSound'
      BY <1>a, <2>1, <3>1 DEF MergeSound
    <3>3. KeysTyped'
      BY <1>0, <2>1, <3>1, <3>2 DEF KeysTyped
    <3>4. SplitTyped'
      BY <1>0, <2>1, <3>1, <3>2 DEF SplitTyped
    <3>5. GraphReadOnly'
      BY <1>0, <2>1, <3>1, <3>2 DEF GraphReadOnly
    <3> QED BY <3>2, <3>3, <3>4, <3>5 DEF ModeTyped
  <2> QED BY <1>12, <2>2, <2>3 DEF Enter
<1>13. CASE ClosePane
  <2>1. /\ UNCHANGED <<screen, markKey, armedOn, filterMode, sortPrefix, promptMode, confirmOp>>
        /\ mode' = "table" /\ left' = Nobody /\ right' = Nobody /\ focus' = 0 /\ sent' = NoIntent
        /\ confirmOp = "" /\ mode # "table"
    BY <1>13 DEF ClosePane
  <2>2. MergeSound'
    BY <1>a, <2>1 DEF MergeSound
  <2>3. KeysTyped'
    BY <1>0, <2>1, <2>2 DEF KeysTyped
  <2>4. SplitTyped'
    BY <1>0, <2>1, <2>2 DEF SplitTyped
  <2>5. GraphReadOnly'
    BY <1>0, <2>1, <2>2 DEF GraphReadOnly
  <2> QED BY <2>2, <2>3, <2>4, <2>5 DEF ModeTyped
<1>14. CASE \E side \in {0, 1} : Focus(side)
  <2>1. PICK side \in {0, 1} : Focus(side)
    BY <1>14
  <2>2. /\ UNCHANGED <<screen, modes, markKey, left, right, armedOn>> /\ focus' = side
        /\ sent' = NoIntent
    BY <2>1 DEF Focus
  <2>3. MergeSound'
    BY <1>0, <1>a, <2>2 DEF MergeSound, SameAncestry, IsAncestor
  <2>4. KeysTyped'
    BY <1>0, <2>2, <2>3 DEF KeysTyped
  <2>5. SplitTyped'
    BY <1>0, <2>2, <2>3 DEF SplitTyped
  <2>6. GraphReadOnly'
    BY <1>0, <2>2, <2>3 DEF GraphReadOnly
  <2> QED BY <2>3, <2>4, <2>5, <2>6 DEF ModeTyped
<1>15. CASE ArmMerge
  <2>1. /\ UNCHANGED <<screen, split, armedOn, filterMode, sortPrefix, promptMode, mode>>
        /\ confirmOp' = "merge" /\ mode = "split" /\ sent' = NoIntent
    BY <1>15 DEF ArmMerge
  <2>2. MergeSound'
    BY <1>0, <1>a, <2>1, CalmKeeps
  <2>3. KeysTyped'
    BY <1>0, <2>1, <2>2 DEF KeysTyped
  <2>4. SplitTyped'
    BY <1>0, <2>1, <2>2, SplitStays
  <2>5. GraphReadOnly'
    BY <1>0, <2>1, <2>2 DEF GraphReadOnly
  <2> QED BY <2>2, <2>3, <2>4, <2>5 DEF ModeTyped
<1>16. CASE \E on \in BOOLEAN : SetGraphView(on)
  <2>1. PICK on \in BOOLEAN : SetGraphView(on)
    BY <1>16
  <2>2. /\ UNCHANGED <<split, armedOn, filterMode, promptMode, confirmOp, mode>>
        /\ graphView' = on /\ sortPrefix' = (sortPrefix /\ graphView) /\ sent' = NoIntent
        /\ mode = "table" /\ ~filterMode /\ promptMode = "" /\ confirmOp = ""
    BY <2>1 DEF SetGraphView
  <2>3. MergeSound'
    BY <1>0, <1>a, <2>2, CalmKeeps
  <2>4. ~sortPrefix'
    BY <1>0, <2>2 DEF GraphReadOnly
  <2>5. KeysTyped'
    BY <1>0, <2>2, <2>3, <2>4 DEF KeysTyped
  <2>6. SplitTyped'
    BY <1>0, <2>2, <2>3, <2>4, SplitStays
  <2>7. GraphReadOnly'
    BY <1>0, <2>2, <2>3, <2>4 DEF GraphReadOnly
  <2> QED BY <2>3, <2>5, <2>6, <2>7 DEF ModeTyped
<1> QED BY <1>1, <1>2, <1>3, <1>4, <1>5, <1>6, <1>7, <1>8, <1>9, <1>10, <1>11, <1>12, <1>13,
           <1>14, <1>15, <1>16 DEF Next

(* A confirmation is asked on the row the cursor is on, and answered there. *)
LEMMA ArmedKept ==
  ASSUME BoardInv, Next
  PROVE  Armed' /\ ConfirmAimed'
<1>0. PlaceTyped /\ Placed /\ ModeTyped /\ Armed
  BY DEF BoardInv
<1>a. NoIntent.op = "none"
  BY DEF NoIntent
<1>b. sent' = NoIntent => ConfirmAimed'
  BY <1>a DEF ConfirmAimed
<1>c. armedOn' = Nobody => Armed'
  BY DEF Armed
<1>d. armedOn = Nobody \/ (~filterMode /\ promptMode = "" /\ confirmOp # "")
  BY <1>0 DEF Armed
<1>e. /\ TableKey => armedOn = Nobody
      /\ InTable \/ InGraph => armedOn = Nobody
      /\ Paging => armedOn = Nobody
      /\ Typing => armedOn = Nobody
      /\ Prompting => armedOn = Nobody
  BY <1>d DEF TableKey, InTable, InGraph, Plain, Paging, Typing, Prompting
<1>1. CASE \E s \in Snapshots : Publish(s)
  <2>1. UNCHANGED <<table, place, screen, modes, armedOn>> /\ sent' = NoIntent
    BY <1>1 DEF Publish
  <2>2. /\ lines' = lines /\ cursor' = cursor /\ graphView' = graphView
        /\ filterMode' = filterMode /\ promptMode' = promptMode /\ confirmOp' = confirmOp
        /\ armedOn' = armedOn
    BY <2>1 DEF table, place, screen, modes
  <2>3. Armed'
    BY <1>0, <2>2 DEF Armed, HasLine, Here
  <2> QED BY <1>b, <2>1, <2>3
<1>2. CASE Tick
  <2>1. /\ Reshape(shaper, cursor) /\ unseen' = FALSE /\ UNCHANGED <<snap, screen, modes>>
        /\ armedOn' = IF armedOn \in Keys(lines') THEN armedOn ELSE Nobody
        /\ sent' = NoIntent
    BY <1>2 DEF Tick
  <2>2. shaper \in Shapers /\ cursor \in Int
    BY <1>0 DEF PlaceTyped
  <2>3. ~graphView /\ cursorKey \in Keys(lines') => HasLine' /\ Here'.key = cursorKey
    BY <1>0, <2>1, <2>2, ReshapePlaces
  <2>4. /\ graphView' = graphView /\ filterMode' = filterMode
        /\ promptMode' = promptMode /\ confirmOp' = confirmOp
    BY <2>1 DEF screen, modes
  <2>5. ASSUME armedOn' # Nobody PROVE HasLine' /\ Here'.key = armedOn' /\ Armed'
    <3>1. armedOn' = armedOn /\ armedOn # Nobody /\ armedOn \in Keys(lines')
      BY <2>1, <2>5
    <3>2. /\ confirmOp \in {"kill", "restart"} /\ ~filterMode /\ promptMode = "" /\ ~graphView
          /\ HasLine /\ Here.key = armedOn
      BY <1>0, <3>1 DEF Armed
    <3>3. lines # <<>>
      BY <1>0, <3>2, LineTyped DEF PlaceTyped, HasLine
    <3>4. cursorKey = armedOn
      BY <1>0, <3>2, <3>3 DEF Placed
    <3>5. HasLine' /\ Here'.key = armedOn'
      BY <2>3, <3>1, <3>2, <3>4
    <3> QED BY <2>4, <3>1, <3>2, <3>5 DEF Armed
  <2> QED BY <1>b, <1>c, <2>1, <2>5
<1>3. CASE \E s \in Sizes \ {size} : Resize(s)
  <2>1. UNCHANGED <<table, cursor, graphView, modes, armedOn>> /\ sent' = NoIntent
    BY <1>3 DEF Resize
  <2>2. /\ lines' = lines /\ cursor' = cursor /\ graphView' = graphView
        /\ filterMode' = filterMode /\ promptMode' = promptMode /\ confirmOp' = confirmOp
        /\ armedOn' = armedOn
    BY <2>1 DEF table, modes
  <2>3. Armed'
    BY <1>0, <2>2 DEF Armed, HasLine, Here
  <2> QED BY <1>b, <2>1, <2>3
<1>4. CASE (\E to \in Moves : Move(to)) \/ Unfold \/ Left \/ Detail \/ ShowDone \/ ReverseOrder
           \/ SortPrefix \/ (\E by \in {"cpu", "name"} : SetSort(by)) \/ StartFilter \/ ClearFilter
           \/ (\E p \in Prompts : Prompt(p)) \/ (\E on \in BOOLEAN : SetGraphView(on))
  <2>1. (InTable \/ InGraph) /\ Quiet
    BY <1>4 DEF Move, Unfold, Left, Detail, ShowDone, ReverseOrder, SortPrefix, SetSort,
                StartFilter, ClearFilter, Prompt, SetGraphView, TableKey
  <2> QED BY <1>b, <1>c, <1>e, <2>1 DEF Quiet
<1>5. CASE TypeFilter \/ EndFilter
  <2>1. Typing /\ Quiet
    BY <1>5 DEF TypeFilter, EndFilter
  <2> QED BY <1>b, <1>c, <1>e, <2>1 DEF Quiet
<1>6. CASE Mark \/ Enter
  <2>1. TableKey /\ sent' = NoIntent /\ armedOn' = armedOn
    BY <1>6 DEF Mark, Enter
  <2> QED BY <1>b, <1>c, <1>e, <2>1
<1>7. CASE ClosePane \/ (\E side \in {0, 1} : Focus(side)) \/ ArmMerge
  <2>1. Paging /\ sent' = NoIntent /\ armedOn' = armedOn
    BY <1>7 DEF ClosePane, Focus, ArmMerge, Quiet
  <2> QED BY <1>b, <1>c, <1>e, <2>1
<1>8. CASE Deny
  <2>1. armedOn' = Nobody /\ sent' = NoIntent
    BY <1>8 DEF Deny
  <2> QED BY <1>b, <1>c, <2>1
<1>9. CASE Fork
  <2>1. TableKey /\ Intent("fork") /\ armedOn' = armedOn
    BY <1>9 DEF Fork
  <2>2. sent'.op \in {"fork", "none"}
    BY <2>1, Intents
  <2> QED BY <1>c, <1>e, <2>1, <2>2 DEF ConfirmAimed
<1>10. CASE Answer
  <2>1. /\ Prompting /\ promptMode # "" /\ armedOn' = armedOn
        /\ Intent(promptMode) \/ sent' = NoIntent
    BY <1>10 DEF Answer, Prompting
  <2>2. promptMode \notin {"kill", "restart"}
    <3>1. promptMode \in Prompts
      BY <1>0, <2>1 DEF ModeTyped, KeysTyped
    <3>2. \A op \in Prompts : op \notin {"kill", "restart"}
      BY BoardAssumption
    <3> QED BY <3>1, <3>2
  <2>3. sent'.op \in {promptMode, "none"}
    BY <1>a, <2>1, Intents
  <2> QED BY <1>c, <1>e, <2>1, <2>2, <2>3 DEF ConfirmAimed
<1>11. CASE \E op \in {"kill", "restart"} : Arm(op)
  <2>1. PICK op \in {"kill", "restart"} : Arm(op)
    BY <1>11
  <2>2. /\ InTable /\ HasLine /\ confirmOp' = op /\ armedOn' = Here.key /\ sent' = NoIntent
        /\ UNCHANGED <<table, place, screen, filterMode, promptMode>>
    BY <2>1 DEF Arm, TableKey
  <2>3. /\ ~graphView /\ ~filterMode /\ promptMode = ""
        /\ lines' = lines /\ cursor' = cursor /\ graphView' = graphView
        /\ filterMode' = filterMode /\ promptMode' = promptMode
    BY <2>2 DEF InTable, Plain, table, place, screen
  <2>4. HasLine' /\ Here' = Here
    BY <2>2, <2>3 DEF HasLine, Here
  <2>5. Armed'
    <3>1. confirmOp' \in {"kill", "restart"}
      BY <2>2
    <3>2. Here'.key = armedOn'
      BY <2>2, <2>4
    <3>3. ~filterMode' /\ promptMode' = "" /\ ~graphView'
      BY <2>3
    <3> QED BY <2>4, <3>1, <3>2, <3>3 DEF Armed
  <2> QED BY <1>b, <2>2, <2>5
<1>12. CASE Confirm
  <2>1. /\ armedOn' = Nobody
        /\ IF confirmOp = "merge"
           THEN sent' = IF mode = "split" THEN MergeOf(left, right, focus) ELSE NoIntent
           ELSE Intent(confirmOp)
    BY <1>12 DEF Confirm
  <2>2. CASE confirmOp = "merge"
    <3>1. MergeOf(left, right, focus).op = "merge"
      BY DEF MergeOf
    <3>2. sent'.op \in {"merge", "none"}
      BY <1>a, <2>1, <2>2, <3>1
    <3> QED BY <1>c, <2>1, <3>2 DEF ConfirmAimed
  <2>3. CASE confirmOp # "merge"
    <3>1. /\ sent'.op \in {confirmOp, "none"}
          /\ sent'.op = confirmOp =>
               confirmOp = "none" \/ (HasLine /\ sent'.key = Here.key /\ sent'.armed = armedOn)
      BY <2>1, <2>3, Intents
    <3>2. ASSUME sent'.op \in {"kill", "restart"} PROVE sent'.armed \in {sent'.key, Nobody}
      <4>1. sent'.key = Here.key /\ sent'.armed = armedOn
        BY <3>1, <3>2
      <4>2. armedOn = Nobody \/ Here.key = armedOn
        BY <1>0 DEF Armed
      <4> QED BY <4>1, <4>2
    <3> QED BY <1>c, <2>1, <3>2 DEF ConfirmAimed
  <2> QED BY <2>2, <2>3
<1> QED BY <1>1, <1>2, <1>3, <1>4, <1>5, <1>6, <1>7, <1>8, <1>9, <1>10, <1>11, <1>12 DEF Next

(* The screen as it starts.                                                *)
LEMMA InitBoard == Init => BoardInv
<1> SUFFICES ASSUME Init PROVE BoardInv
  OBVIOUS
<1>1. /\ snap = Empty /\ unseen = FALSE /\ shaper = AtStart /\ lines = <<>> /\ gl = <<>>
      /\ cursor = 0 /\ cursorKey = Nobody /\ scroll = 0 /\ graphView = FALSE /\ size \in Sizes
      /\ detail = (size[2] >= AutoDetailHeight)
  BY DEF Init
<1>2. /\ filterMode = FALSE /\ sortPrefix = FALSE /\ promptMode = "" /\ confirmOp = ""
      /\ mode = "table" /\ markKey = Nobody /\ left = Nobody /\ right = Nobody /\ focus = 0
      /\ armedOn = Nobody /\ sent = NoIntent
  BY DEF Init
<1>3. NoIntent.op = "none"
  BY DEF NoIntent
<1>4. Len(lines) = 0 /\ Len(gl) = 0 /\ lines \in Seq(TableLines)
  BY <1>1
<1>5. AtStart \in Shapers
  BY BoardAssumption DEF AtStart, Shapers
<1>6. detail \in BOOLEAN
  BY <1>1
<1>7. PlaceTyped
  BY <1>1, <1>4, <1>5, <1>6 DEF PlaceTyped
<1>8. Placed
  <2>1. Shown = 0
    BY <1>1, <1>4 DEF Shown
  <2>2. size[2] \in Nat
    BY <1>1, SizeTyped
  <2>3. RowsVisible(graphView, detail, size[2]) \in Nat
        /\ RowsVisible(graphView, detail, size[2]) >= 1
    BY <1>7, <2>2, Heights DEF PlaceTyped
  <2> QED BY <1>1, <2>1, <2>3 DEF Placed
<1>9. ModeTyped
  BY <1>2 DEF ModeTyped, KeysTyped, SplitTyped
<1>10. GraphReadOnly /\ Armed /\ ConfirmAimed
  BY <1>1, <1>2, <1>3 DEF GraphReadOnly, Armed, ConfirmAimed
<1>11. MergeSound
  BY <1>2, <1>3 DEF MergeSound
<1>12. AllPainted
  <2>1. snap.graph = NoGraph
    BY <1>1 DEF Empty
  <2>2. Painted(NoGraph, <<>>)
    <3>1. NoGraph.nodes = <<>> /\ NoGraph.edges = {} /\ DOMAIN <<>> = {}
      BY DEF NoGraph
    <3>2. Pairs(NoGraph) = {} /\ ToSet(NoGraph.nodes) = {} /\ Len(NoGraph.nodes) = 0
      BY <3>1, ToSetNone DEF Pairs
    <3>3. Drawn(<<>>) = {}
      BY <3>1 DEF Drawn
    <3>4. Cardinality({}) = 0
      BY FS_EmptySet
    <3>5. \A kinds : {i \in DOMAIN <<>> : <<>>[i].kind \in kinds} = {}
      OBVIOUS
    <3>6. {i \in {j \in DOMAIN <<>> : <<>>[j].kind \in {"node", "back"}} : <<>>[i].depth > 0} = {}
      OBVIOUS
    <3> QED BY <3>2, <3>3, <3>4, <3>5, <3>6 DEF Painted
  <2> QED BY <1>1, <2>1, <2>2 DEF AllPainted
<1> QED BY <1>7, <1>8, <1>9, <1>10, <1>11, <1>12 DEF BoardInv

(* A step that changes nothing.                                            *)
LEMMA StillBoard == BoardInv /\ UNCHANGED boardVars => BoardInv'
<1> SUFFICES ASSUME BoardInv, UNCHANGED boardVars PROVE BoardInv'
  OBVIOUS
<1>1. /\ snap' = snap /\ unseen' = unseen /\ shaper' = shaper /\ lines' = lines /\ gl' = gl
      /\ cursor' = cursor /\ cursorKey' = cursorKey /\ scroll' = scroll
      /\ graphView' = graphView /\ detail' = detail /\ size' = size
  BY DEF boardVars, seen, table, place, screen
<1>2. /\ filterMode' = filterMode /\ sortPrefix' = sortPrefix /\ promptMode' = promptMode
      /\ confirmOp' = confirmOp /\ mode' = mode /\ markKey' = markKey /\ left' = left
      /\ right' = right /\ focus' = focus /\ armedOn' = armedOn /\ sent' = sent
  BY DEF boardVars, modes, split
<1>3. PlaceTyped'
  BY <1>1 DEF BoardInv, PlaceTyped
<1>4. Placed'
  <2>1. Shown' = Shown /\ Here' = Here
    BY <1>1 DEF Shown, Here
  <2>2. RowsVisible(graphView, detail, size[2])' = RowsVisible(graphView, detail, size[2])
    BY <1>1 DEF RowsVisible, AtLeastOne, DetailH, HeaderH
  <2> QED BY <1>1, <2>1, <2>2 DEF BoardInv, Placed
<1>5. ModeTyped'
  <2>1. KeysTyped'
    BY <1>2 DEF BoardInv, ModeTyped, KeysTyped
  <2>2. SplitTyped'
    BY <1>2 DEF BoardInv, ModeTyped, SplitTyped
  <2> QED BY <2>1, <2>2 DEF ModeTyped
<1>6. GraphReadOnly' /\ ConfirmAimed'
  BY <1>1, <1>2 DEF BoardInv, GraphReadOnly, ConfirmAimed
<1>7. Armed'
  BY <1>1, <1>2 DEF BoardInv, Armed, HasLine, Here
<1>8. MergeSound'
  BY <1>2 DEF BoardInv, MergeSound, SameAncestry, IsAncestor
<1>9. AllPainted'
  BY <1>1 DEF BoardInv, AllPainted
<1> QED BY <1>3, <1>4, <1>5, <1>6, <1>7, <1>8, <1>9 DEF BoardInv

(* The inductive invariant of the terminal interface.                      *)
THEOREM BoardInductive == BoardSpec => []BoardInv
<1>1. Init => BoardInv
  BY InitBoard
<1>2. BoardInv /\ [Next]_boardVars => BoardInv'
  <2>1. ASSUME BoardInv, Next PROVE BoardInv'
    <3>1. PlaceTyped' /\ Placed' /\ AllPainted'
      BY <2>1, PlacesKept DEF BoardInv
    <3>2. ModeTyped' /\ GraphReadOnly' /\ MergeSound'
      BY <2>1, ModesKept
    <3>3. Armed' /\ ConfirmAimed'
      BY <2>1, ArmedKept
    <3> QED BY <3>1, <3>2, <3>3 DEF BoardInv
  <2> QED BY <2>1, StillBoard
<1> QED BY <1>1, <1>2, PTL DEF BoardSpec

-----------------------------------------------------------------------------
(* What it implies.                                                        *)

(* The cursor is on a line, and View paints it.                            *)
LEMMA PlacedInView == BoardInv => CursorInView
<1> SUFFICES ASSUME BoardInv PROVE CursorInView
  OBVIOUS
<1>1. PlaceTyped /\ Placed
  BY DEF BoardInv
<1>2. /\ graphView \in BOOLEAN /\ detail \in BOOLEAN /\ size[2] \in Nat
      /\ cursor \in Nat /\ scroll \in Nat
  BY <1>1, SizeTyped DEF PlaceTyped
<1> DEFINE h == size[2]
           vis == RowsVisible(graphView, detail, h)
           body == Body(graphView, detail, h)
<1>3. /\ vis \in Nat
      /\ h >= MinHeight => vis <= body /\ body \in Nat
      /\ h >= MinHeight => HeaderH + TableH(detail, h) + BoxH(detail, h) = h
                           /\ (detail => BoxH(detail, h) >= 3)
  BY <1>2, Heights
<1>4. Shown \in Nat
  <2>1. Len(lines) \in Nat /\ Len(gl) \in Nat
    BY <1>1 DEF PlaceTyped
  <2> QED BY <2>1 DEF Shown
<1>5. /\ IF Shown = 0 THEN cursor = 0 ELSE cursor < Shown
      /\ scroll <= cursor /\ cursor < scroll + vis
      /\ ~graphView /\ lines # <<>> => cursorKey = Here.key
  BY <1>1 DEF Placed
<1> HIDE DEF vis, body
<1>6. ASSUME Shown # 0 PROVE h >= MinHeight => cursor + 1 \in Window(scroll, Shown, body)
  <2>1. SUFFICES ASSUME h >= MinHeight PROVE cursor + 1 \in Window(scroll, Shown, body)
    OBVIOUS
  <2>2. cursor < scroll + body /\ body \in Nat
    BY <1>2, <1>3, <1>5, <2>1
  <2> DEFINE n == Shown
  <2>3. n \in Nat /\ cursor < n
    BY <1>4, <1>5, <1>6
  <2> HIDE DEF n
  <2>4. cursor + 1 \in Window(scroll, n, body)
    BY <1>2, <1>5, <2>2, <2>3 DEF Window
  <2> QED BY <2>4 DEF n
<1>7. ASSUME Shown # 0, ~graphView PROVE cursorKey = Here.key
  <2>1. lines # <<>>
    <3>1. Len(lines) # 0
      BY <1>7 DEF Shown
    <3> QED BY <3>1
  <2> QED BY <1>5, <1>7, <2>1
<1>8. IF Shown = 0 THEN cursor = 0
      ELSE /\ h >= MinHeight => cursor + 1 \in Window(scroll, Shown, body)
           /\ cursor < Shown /\ scroll <= cursor
           /\ ~graphView => cursorKey = Here.key
  BY <1>5, <1>6, <1>7
<1> QED BY <1>3, <1>8 DEF CursorInView, body

LEMMA PlacedTyped == BoardInv => BoardTypeOK
<1> SUFFICES ASSUME BoardInv PROVE BoardTypeOK
  OBVIOUS
<1>1. PlaceTyped /\ ModeTyped
  BY DEF BoardInv
<1>2. snap.rows \subseteq Rows
  BY <1>1, SnapshotsOK DEF PlaceTyped, SnapOK
<1>3. shaper.folded \subseteq Rows \cup {Group} /\ shaper.filter \in DOMAIN Matches \cup {0}
  BY <1>1 DEF PlaceTyped, Shapers
<1>4. Keys(lines) \subseteq Rows \cup {Group}
  <2>1. DOMAIN lines = 1..Len(lines) /\ lines \in Seq(TableLines)
    BY <1>1 DEF PlaceTyped
  <2>2. \A i \in DOMAIN lines : lines[i] \in TableLines
    BY <2>1
  <2> QED BY <2>2 DEF Keys, TableLines
<1> QED BY <1>1, <1>2, <1>3, <1>4 DEF BoardTypeOK, PlaceTyped, ModeTyped, KeysTyped, SplitTyped

(* Whatever snapshots, keys and resizes come, the cursor is on a line of   *)
(* the list on the screen and View paints that line, for any rows, any     *)
(* graphs and any sizes of the terminal.                                   *)
THEOREM BoardCursor == BoardSpec => []CursorInOrder
<1>1. BoardInv => CursorInOrder
  BY PlacedInView, PlacedTyped DEF CursorInOrder
<1> QED BY <1>1, BoardInductive, PTL

(* A stop or a restart that is confirmed goes to the row it was asked on,  *)
(* unless a snapshot took that row away in between.                        *)
THEOREM BoardConfirm == BoardSpec => []ConfirmAimed
<1>1. BoardInv => ConfirmAimed
  BY DEF BoardInv
<1> QED BY <1>1, BoardInductive, PTL

(* No key of the table acts in the graph pane, a merge is of the two       *)
(* related rows of the split, and the graph pane shows all of the graph.   *)
THEOREM BoardPanes == BoardSpec => []PanesInOrder
<1>1. BoardInv => PanesInOrder
  BY DEF BoardInv, PanesInOrder
<1> QED BY <1>1, BoardInductive, PTL

(* A step that makes the table anew leaves the cursor on its row, unless   *)
(* the row is gone.                                                        *)
THEOREM BoardKept == BoardSpec => CursorKept
<1> DEFINE Kept == ~graphView /\ lines' # lines =>
                     cursorKey' = cursorKey \/ cursorKey \notin Keys(lines')
<1>1. BoardInv /\ [Next]_boardVars => [Kept]_boardVars
  <2> SUFFICES ASSUME BoardInv, Next PROVE Kept
    OBVIOUS
  <2>1. PlaceTyped
    BY DEF BoardInv
  <2>2. CASE Reshaped
    <3>1. PICK sh \in Shapers, c \in Int :
            Reshape(sh, c) /\ snap' = snap /\ unseen' \in BOOLEAN /\ UNCHANGED screen
      BY <2>2 DEF Reshaped
    <3>2. ~graphView /\ cursorKey \in Keys(lines') => cursorKey' = cursorKey
      BY <2>1, <3>1, ReshapePlaces
    <3> QED BY <3>2
  <2>3. CASE Moved \/ Scrolled \/ Stayed
    <3>1. lines' = lines
      BY <2>3 DEF Moved, Scrolled, Stayed, table
    <3> QED BY <3>1
  <2> QED BY <2>1, <2>2, <2>3, NextPlaces
<1>2. BoardSpec => [][Kept]_boardVars
  BY <1>1, BoardInductive, PTL DEF BoardSpec
<1> QED BY <1>2 DEF CursorKept


================================================================================
