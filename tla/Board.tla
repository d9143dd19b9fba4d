-------------------------------- MODULE Board --------------------------------
(* The terminal interface, internal/ui: one goroutine that turns ticks and  *)
(* keys into a cursor over the lines of the latest snapshot and into the    *)
(* intents it enqueues. The engine publishes snapshots in between.          *)
EXTENDS Integers, Sequences, FiniteSets, SequencesExt, Functions, Selections, Forest

CONSTANTS
  Rows,        (* rows, by their key                                       *)
  Class,       (* agent, local, or child of another row                    *)
  ParentOf,    (* the row a child hangs under; its ParentSession           *)
  ForkOf,      (* the row whose session a row was forked from              *)
  NameRank,    (* the order of the rows by name                            *)
  Matches,     (* what each filter text shows: rows, and the group's name  *)
  Snapshots,   (* rows, those that finished, their CPU order, the graph    *)
  Sizes,       (* widths and heights of the terminal                       *)
  Folded,      (* what is collapsed at the start                           *)
  Prompts,     (* what asks for a text: message, promote, budget           *)
  MaxTuned,    (* bound: settings of the table changed from the start      *)
  Nobody

Group == "group:locals"

(* Children hang under rows that are not children, for join nests them      *)
(* once; a list has one order, for sortLines breaks ties by runtime and     *)
(* pid; a graph has each node once.                                         *)
ASSUME BoardAssumption ==
  /\ IsFiniteSet(Rows) /\ Group \notin Rows /\ Nobody \notin Rows \cup {Group}
  /\ Class \in [Rows -> {"agent", "local", "child"}]
  /\ ParentOf \in [Rows -> Rows \cup {Nobody}] /\ ForkOf \in [Rows -> Rows \cup {Nobody}]
  /\ \A k, c \in Rows : Class[c] = "child" /\ ParentOf[c] = k => Class[k] # "child"
  /\ NameRank \in [Rows -> Int] /\ IsInjective(NameRank)
  /\ Matches \in Seq(SUBSET (Rows \cup {Group}))
  /\ \A s \in Snapshots :
       /\ s.rows \subseteq Rows /\ s.done \subseteq Rows
       /\ s.cpu \in [Rows -> Int] /\ IsInjective(s.cpu)
       /\ s.graph.nodes \in Seq(ToSet(s.graph.nodes)) /\ IsInjective(s.graph.nodes)
       /\ IsFiniteSet(s.graph.edges)
  /\ Sizes \subseteq Nat \X Nat
  /\ Folded \subseteq Rows \cup {Group}
  /\ Prompts \cap {"", "none", "kill", "restart", "merge"} = {}

VARIABLES
  snap, unseen,     (* the latest snapshot; not yet absorbed               *)
  shaper,           (* what is collapsed, filter, order, finished rows     *)
  lines, gl,        (* the lines of the table and of the graph             *)
  cursor, cursorKey, scroll,
  graphView, detail, size,
  filterMode, sortPrefix, promptMode, confirmOp, mode,
  markKey,
  left, right, focus,  (* the rows of the split and the focused one, in it *)
  armedOn,          (* the row the confirmation was asked on, while shown  *)
  sent              (* what this step enqueued                             *)

seen   == <<snap, unseen>>
table  == <<shaper, lines, gl>>
place  == <<cursor, cursorKey, scroll>>
screen == <<graphView, detail, size>>
modes  == <<filterMode, sortPrefix, promptMode, confirmOp, mode>>
split  == <<markKey, left, right, focus>>
boardVars == <<seen, table, place, screen, modes, split, armedOn, sent>>

NoIntent == [op |-> "none", key |-> Nobody, armed |-> Nobody,
             winner |-> Nobody, loser |-> Nobody]
NoGraph  == [nodes |-> <<>>, edges |-> {}]
AtStart  == [folded |-> Folded, filter |-> 0, sort |-> "cpu", reverse |-> FALSE,
             showDone |-> FALSE]
Empty    == [rows |-> {}, done |-> {}, cpu |-> NameRank, graph |-> NoGraph]

-----------------------------------------------------------------------------
(* shaper.shape: the lines of a snapshot.                                   *)

(* The members of a set from the one of the least rank to the greatest.     *)
Ranked(set, rank) ==
  LET Place(k) == Cardinality({j \in set : rank[j] < rank[k]}) + 1
  IN  [i \in 1..Cardinality(set) |-> CHOOSE k \in set : Place(k) = i]

Showable(s, sh, c) == sh.showDone \/ c \notin s.done
ChildrenOf(s, sh, k) ==
  Ranked({c \in s.rows : Class[c] = "child" /\ ParentOf[c] = k /\ Showable(s, sh, c)}, NameRank)
Match(sh, k) == sh.filter = 0 \/ k \in Matches[sh.filter]

Order(s, sh) ==
  LET up == IF sh.sort = "cpu" THEN s.cpu ELSE NameRank
  IN  IF sh.reverse THEN [k \in Rows |-> 0 - up[k]] ELSE up
Sorted(s, sh, set) == Ranked(set, Order(s, sh))
Unsorted(set) == Ranked(set, NameRank)

(* A row and what is under it, unless it is collapsed. What is under a      *)
(* child is nothing: join hangs children under rows of processes only.      *)
RowLine(k, depth, kids) == [key |-> k, depth |-> depth, kids |-> kids]
Branch(s, sh, k, depth) ==
  LET kids == ChildrenOf(s, sh, k)
  IN  <<RowLine(k, depth, Len(kids))>> \o
      IF k \in sh.folded THEN <<>>
      ELSE [i \in DOMAIN kids |-> RowLine(kids[i], depth + 1, 0)]
Branches(s, sh, tops, depth) ==
  FlattenSeq([i \in DOMAIN tops |-> Branch(s, sh, tops[i], depth)])

OfClass(s, c) == {k \in s.rows : Class[k] = c}
Agents(s, sh) == Among(Sorted(s, sh, OfClass(s, "agent")), {k \in s.rows : Match(sh, k)})

(* The group of the local servers: a text that does not match its name      *)
(* leaves the members that match, and no group without one.                 *)
GroupLines(s, sh) ==
  LET all     == OfClass(s, "local")
      members == IF Match(sh, Group) THEN Sorted(s, sh, all)
                 ELSE Unsorted({k \in all : Match(sh, k)})
  IN  IF members = <<>> THEN <<>>
      ELSE <<RowLine(Group, 0, Cardinality(all))>> \o
           IF Group \in sh.folded THEN <<>> ELSE Branches(s, sh, members, 1)

Lines(s, sh) == Branches(s, sh, Agents(s, sh), 0) \o GroupLines(s, sh)

-----------------------------------------------------------------------------
(* Cursor and scroll.                                                       *)

HeaderH == 4
DetailH(h) == IF h >= 50 THEN 14 ELSE IF h >= 30 THEN 10 ELSE 7
AtLeastOne(n) == IF n < 1 THEN 1 ELSE n
RowsVisible(g, d, h) ==
  IF g THEN AtLeastOne(h - HeaderH - 2)
  ELSE AtLeastOne(h - HeaderH - (IF d THEN DetailH(h) ELSE 0) - 3)

(* View: below the least size it only says so; a table of less than five    *)
(* lines takes them from the detail box.                                    *)
MinHeight == 12
AutoDetailHeight == 36
TableH(d, h) == LET t == h - HeaderH - (IF d THEN DetailH(h) ELSE 0)
                IN  IF t < 5 THEN 5 ELSE t
BoxH(d, h) == IF d THEN h - HeaderH - TableH(d, h) ELSE 0
Body(g, d, h) == AtLeastOne(IF g THEN h - HeaderH - 2 ELSE TableH(d, h) - 3)
Window(from, n, body) == (from + 1)..(IF from + body < n THEN from + body ELSE n)

(* Mutant: the window only follows the cursor upwards.                     *)
ClampScrollUp(c, from, vis) == IF c < from THEN c ELSE from
ClampScroll(c, from, vis) ==
  LET up == IF c < from THEN c ELSE from
  IN  IF c >= up + vis THEN c - vis + 1 ELSE up

Index(ls, key) == {i \in DOMAIN ls : ls[i].key = key}
Keys(ls) == {ls[i].key : i \in DOMAIN ls}

(* clampCursor, over whichever list the pane shows.                         *)
Clamp(ls, g, c, from, inGraph) ==
  LET n  == IF inGraph THEN Len(g) ELSE Len(ls)
      at == IF c < 0 \/ n = 0 THEN 0 ELSE IF c >= n THEN n - 1 ELSE c
  IN  /\ cursor' = at
      /\ cursorKey' = IF ~inGraph /\ ls # <<>> THEN ls[at + 1].key ELSE cursorKey
      /\ scroll' = ClampScroll(at, from, RowsVisible(inGraph, detail, size[2]))

(* Mutant: the cursor keeps its number, not its row.                       *)
NotRestored(ls, c) == c
(* reshape: the cursor stays on its row, when the row is still there.       *)
Restored(ls, c) ==
  IF ~graphView /\ Index(ls, cursorKey) # {}
  THEN (CHOOSE i \in Index(ls, cursorKey) : \A j \in Index(ls, cursorKey) : i <= j) - 1
  ELSE c
Tuned(sh) == Cardinality(sh.folded \ Folded) + Cardinality(Folded \ sh.folded)
               + Cardinality({f \in {"filter", "sort", "reverse", "showDone"} :
                                sh[f] # AtStart[f]})
Forests == [g \in {s.graph : s \in Snapshots} \cup {NoGraph} |-> FlattenGraph(g)]
Reshape(sh, c) ==
  /\ Tuned(sh) <= MaxTuned
  /\ LET ls == Lines(snap, sh)
         g  == Forests[snap.graph]
     IN  /\ shaper' = sh /\ lines' = ls /\ gl' = g
         /\ Clamp(ls, g, Restored(ls, c), scroll, graphView)

Init ==
  /\ snap = Empty /\ unseen = FALSE
  /\ shaper = AtStart
  /\ lines = <<>> /\ gl = <<>>
  /\ cursor = 0 /\ cursorKey = Nobody /\ scroll = 0
  /\ graphView = FALSE /\ size \in Sizes /\ detail = (size[2] >= AutoDetailHeight)
  /\ filterMode = FALSE /\ sortPrefix = FALSE /\ promptMode = "" /\ confirmOp = ""
  /\ mode = "table"
  /\ markKey = Nobody /\ left = Nobody /\ right = Nobody /\ focus = 0
  /\ armedOn = Nobody /\ sent = NoIntent

-----------------------------------------------------------------------------
(* The engine publishes; Update of a tick absorbs; the terminal is resized. *)

Publish(s) ==
  /\ snap # s /\ snap' = s /\ unseen' = TRUE /\ sent' = NoIntent
  /\ UNCHANGED <<table, place, screen, modes, split, armedOn>>

Tick ==
  /\ unseen /\ unseen' = FALSE
  /\ Reshape(shaper, cursor)
  /\ armedOn' = IF armedOn \in Keys(lines') THEN armedOn ELSE Nobody
  /\ sent' = NoIntent /\ UNCHANGED <<snap, screen, modes, split>>

Resize(s) ==
  /\ size' = s
  /\ scroll' = ClampScroll(cursor, scroll, RowsVisible(graphView, detail, s[2]))
  /\ sent' = NoIntent
  /\ UNCHANGED <<seen, table, cursor, cursorKey, graphView, detail, modes, split, armedOn>>

-----------------------------------------------------------------------------
(* Update hands a key to the innermost mode that is on.                     *)

Typing     == filterMode
Prompting  == ~filterMode /\ promptMode # ""
Confirming == ~filterMode /\ promptMode = "" /\ confirmOp # ""
Plain      == ~filterMode /\ promptMode = "" /\ confirmOp = ""
Paging     == Plain /\ mode # "table"
InGraph    == Plain /\ mode = "table" /\ graphView
InTable    == Plain /\ mode = "table" /\ ~graphView

Quiet == sent' = NoIntent /\ UNCHANGED <<seen, split, armedOn>>
(* A key of the table: whatever follows s ends the prefix.                  *)
TableKey == InTable /\ sortPrefix' = FALSE
OtherModes == UNCHANGED <<filterMode, promptMode, confirmOp, mode>>

(* j, arrows, g, G, page keys, in the table and in the graph.               *)
Half == RowsVisible(graphView, detail, size[2]) \div 2
Shown == IF graphView THEN Len(gl) ELSE Len(lines)
Move(to) ==
  /\ InTable \/ InGraph
  /\ sortPrefix' = (sortPrefix /\ graphView)
  /\ Clamp(lines, gl, to, scroll, graphView)
  /\ Quiet /\ OtherModes /\ UNCHANGED <<table, screen>>
Moves == {cursor + 1, cursor - 1, 0, Shown - 1, cursor + Half, cursor - Half}

HasLine == cursor < Len(lines)
Here == lines[cursor + 1]

(* Enter, l, right, space on a line with children.                          *)
Toggle(set, k) == IF k \in set THEN set \ {k} ELSE set \cup {k}
Unfold ==
  /\ TableKey /\ HasLine /\ Here.kids > 0
  /\ Reshape([shaper EXCEPT !.folded = Toggle(@, Here.key)], cursor)
  /\ Quiet /\ OtherModes /\ UNCHANGED screen

(* h, left: the parent is where the cursor goes before the lines are made   *)
(* anew, which puts the cursor back.                                        *)
Above == {i \in 1..cursor : lines[i].depth < Here.depth}
Left ==
  /\ TableKey /\ HasLine
  /\ LET folds == Here.kids > 0 /\ Here.key \notin shaper.folded
         to    == IF ~folds /\ Here.depth > 0 /\ Above # {}
                  THEN (CHOOSE i \in Above : \A j \in Above : j <= i) - 1 ELSE cursor
     IN  Reshape(IF folds THEN [shaper EXCEPT !.folded = @ \cup {Here.key}] ELSE shaper, to)
  /\ Quiet /\ OtherModes /\ UNCHANGED screen

Detail ==
  /\ TableKey /\ detail' = ~detail
  /\ scroll' = ClampScroll(cursor, scroll, RowsVisible(graphView, ~detail, size[2]))
  /\ Quiet /\ OtherModes
  /\ UNCHANGED <<table, cursor, cursorKey, graphView, size>>

ShowDone ==
  /\ TableKey /\ Reshape([shaper EXCEPT !.showDone = ~@], cursor)
  /\ Quiet /\ OtherModes /\ UNCHANGED screen

ReverseOrder ==
  /\ TableKey /\ Reshape([shaper EXCEPT !.reverse = ~@], cursor)
  /\ Quiet /\ OtherModes /\ UNCHANGED screen

(* s, then a letter.                                                        *)
SortPrefix ==
  /\ InTable /\ sortPrefix' = TRUE
  /\ Quiet /\ OtherModes /\ UNCHANGED <<table, place, screen>>
SetSort(by) ==
  /\ InTable /\ sortPrefix /\ sortPrefix' = FALSE
  /\ Reshape(IF shaper.sort = by THEN [shaper EXCEPT !.reverse = ~@]
             ELSE [shaper EXCEPT !.sort = by, !.reverse = FALSE], cursor)
  /\ Quiet /\ OtherModes /\ UNCHANGED screen

(* The filter: / starts it, what is typed narrows it at once.               *)
StartFilter ==
  /\ TableKey /\ filterMode' = TRUE
  /\ Quiet /\ UNCHANGED <<table, place, screen, promptMode, confirmOp, mode>>
TypeFilter ==
  /\ Typing
  /\ \E n \in {shaper.filter + 1, shaper.filter - 1} \cap (DOMAIN Matches \cup {0}) :
       Reshape([shaper EXCEPT !.filter = n], cursor)
  /\ Quiet /\ UNCHANGED <<screen, modes>>
EndFilter ==
  /\ Typing /\ filterMode' = FALSE
  /\ \/ Reshape([shaper EXCEPT !.filter = 0], cursor)
     \/ UNCHANGED <<table, place>>
  /\ Quiet /\ UNCHANGED <<screen, sortPrefix, promptMode, confirmOp, mode>>
ClearFilter ==
  /\ TableKey /\ shaper.filter # 0 /\ Reshape([shaper EXCEPT !.filter = 0], cursor)
  /\ Quiet /\ OtherModes /\ UNCHANGED screen

-----------------------------------------------------------------------------
(* Intents. The target is the line under the cursor when the key comes.     *)

Intent(op) ==
  sent' = IF HasLine THEN [NoIntent EXCEPT !.op = op, !.key = Here.key, !.armed = armedOn]
          ELSE NoIntent

(* f and c act at once.                                                     *)
Fork ==
  /\ TableKey /\ Intent("fork")
  /\ OtherModes /\ UNCHANGED <<seen, table, place, screen, split, armedOn>>

(* k and r ask first; after s, r is a sort key.                             *)
Arm(op) ==
  /\ TableKey /\ HasLine /\ (op = "restart" => ~sortPrefix)
  /\ confirmOp' = op /\ armedOn' = Here.key /\ sent' = NoIntent
  /\ UNCHANGED <<seen, table, place, screen, split, filterMode, promptMode, mode>>

(* m, p and b ask for a text.                                               *)
Prompt(p) ==
  /\ TableKey /\ promptMode' = p
  /\ Quiet /\ UNCHANGED <<table, place, screen, filterMode, confirmOp, mode>>
Answer ==
  /\ Prompting /\ promptMode' = ""
  /\ \/ Intent(promptMode)
     \/ sent' = NoIntent
  /\ UNCHANGED <<seen, table, place, screen, split, armedOn, filterMode, sortPrefix,
                 confirmOp, mode>>

IsAncestor(p, c) == {p, c} \subseteq Rows /\ (ForkOf[c] = p \/ ParentOf[c] = p)
SameAncestry(a, b) ==
  \/ {a, b} \subseteq Rows /\ ForkOf[a] # Nobody /\ ForkOf[a] = ForkOf[b]
  \/ IsAncestor(a, b) \/ IsAncestor(b, a)

(* pushMerge: the focused pane wins, and the ancestor is told.              *)
MergeOf(l, r, f) ==
  [op |-> "merge", key |-> IF IsAncestor(r, l) THEN r ELSE l, armed |-> Nobody,
   winner |-> IF f = 1 THEN r ELSE l, loser |-> IF f = 1 THEN l ELSE r]
Confirm ==
  /\ Confirming /\ confirmOp' = "" /\ armedOn' = Nobody
  /\ IF confirmOp = "merge"
     THEN sent' = IF mode = "split" THEN MergeOf(left, right, focus) ELSE NoIntent
     ELSE Intent(confirmOp)
  /\ UNCHANGED <<seen, table, place, screen, split, filterMode, sortPrefix,
                 promptMode, mode>>
Deny ==
  /\ Confirming /\ confirmOp' = "" /\ armedOn' = Nobody /\ sent' = NoIntent
  /\ UNCHANGED <<seen, split, table, place, screen, filterMode, sortPrefix, promptMode, mode>>

-----------------------------------------------------------------------------
(* Marks, the log pane and the split of two related rows.                   *)

(* Mutant: any two rows may be merged.                                     *)
MarkedUnrelated(k) == markKey # Nobody /\ markKey # k /\ markKey \in Keys(lines)
Marked(k) == markKey # Nobody /\ markKey # k /\ markKey \in Keys(lines)
               /\ SameAncestry(markKey, k)

Mark ==
  /\ TableKey /\ HasLine
  /\ markKey' = IF Marked(Here.key) THEN markKey ELSE Here.key
  /\ sent' = NoIntent /\ OtherModes
  /\ UNCHANGED <<seen, table, place, screen, left, right, focus, armedOn>>

OpenSplit(a, b) ==
  /\ mode' = "split" /\ focus' = 1
  /\ IF IsAncestor(b, a) THEN left' = b /\ right' = a ELSE left' = a /\ right' = b
OpenPager ==
  /\ mode' = "pager" /\ UNCHANGED <<left, right, focus>>
Enter ==
  /\ TableKey /\ HasLine
  /\ \/ Marked(Here.key) /\ size[1] >= 120 /\ OpenSplit(markKey, Here.key)
     \/ Marked(Here.key) /\ size[1] < 120 /\ OpenPager
     \/ ~Marked(Here.key) /\ Here.kids = 0 /\ OpenPager
  /\ sent' = NoIntent
  /\ UNCHANGED <<seen, table, place, screen, filterMode, promptMode, confirmOp, markKey,
                 armedOn>>

ClosePane ==
  /\ Paging /\ mode' = "table" /\ sent' = NoIntent
  /\ left' = Nobody /\ right' = Nobody /\ focus' = 0
  /\ UNCHANGED <<seen, markKey, armedOn, table, place, screen, filterMode, sortPrefix, promptMode, confirmOp>>
Focus(side) ==
  /\ Paging /\ mode = "split" /\ focus' = side /\ sent' = NoIntent
  /\ UNCHANGED <<seen, table, place, screen, modes, markKey, left, right, armedOn>>
ArmMerge ==
  /\ Paging /\ mode = "split" /\ confirmOp' = "merge"
  /\ Quiet /\ UNCHANGED <<table, place, screen, filterMode, sortPrefix, promptMode, mode>>

(* 1, 2 and tab: the other pane starts at its top.                          *)
SetGraphView(on) ==
  /\ InTable \/ InGraph
  /\ graphView # on /\ graphView' = on
  /\ sortPrefix' = (sortPrefix /\ graphView)
  /\ Clamp(lines, gl, 0, 0, on)
  /\ Quiet /\ OtherModes /\ UNCHANGED <<table, detail, size>>

Next ==
  \/ \E s \in Snapshots : Publish(s)
  \/ Tick \/ \E s \in Sizes \ {size} : Resize(s)
  \/ \E to \in Moves : Move(to)
  \/ Unfold \/ Left \/ Detail \/ ShowDone \/ ReverseOrder
  \/ SortPrefix \/ \E by \in {"cpu", "name"} : SetSort(by)
  \/ StartFilter \/ TypeFilter \/ EndFilter \/ ClearFilter
  \/ Fork \/ \E op \in {"kill", "restart"} : Arm(op)
  \/ \E p \in Prompts : Prompt(p)
  \/ Answer \/ Confirm \/ Deny
  \/ Mark \/ Enter \/ ClosePane \/ \E side \in {0, 1} : Focus(side)
  \/ ArmMerge \/ \E on \in BOOLEAN : SetGraphView(on)

BoardSpec == Init /\ [][Next]_boardVars

-----------------------------------------------------------------------------

BoardTypeOK ==
  /\ snap.rows \subseteq Rows /\ unseen \in BOOLEAN
  /\ shaper.folded \subseteq Rows \cup {Group} /\ shaper.filter \in DOMAIN Matches \cup {0}
  /\ Keys(lines) \subseteq Rows \cup {Group}
  /\ cursor \in Nat /\ scroll \in Nat /\ cursorKey \in Rows \cup {Group, Nobody}
  /\ {graphView, detail, filterMode, sortPrefix} \subseteq BOOLEAN /\ size \in Sizes
  /\ promptMode \in Prompts \cup {""} /\ confirmOp \in {"", "kill", "restart", "merge"}
  /\ mode \in {"table", "pager", "split"} /\ focus \in {0, 1}
  /\ {markKey, left, right, armedOn} \subseteq Rows \cup {Group, Nobody}

(* Whatever snapshots, sort keys, filters, folds, resizes and changes of   *)
(* pane do to the lists, the cursor is on a line of the list on the        *)
(* screen, View paints that line (its window is computed apart from the    *)
(* one clampScroll follows, and the boxes fill the terminal), and the row  *)
(* remembered for the next reshape is the one the next action would take.  *)
CursorInView ==
  /\ IF Shown = 0 THEN cursor = 0
     ELSE /\ size[2] >= MinHeight =>
               cursor + 1 \in Window(scroll, Shown, Body(graphView, detail, size[2]))
          /\ cursor < Shown /\ scroll <= cursor
          /\ ~graphView => cursorKey = Here.key
  /\ size[2] >= MinHeight /\ ~graphView =>
       /\ HeaderH + TableH(detail, size[2]) + BoxH(detail, size[2]) = size[2]
       /\ detail => BoxH(detail, size[2]) >= 3

(* "Keep the cursor on the same row across re-sorts" (reshape): a step that *)
(* makes the table anew leaves the cursor on its row, unless the row is    *)
(* gone.                                                                   *)
CursorKept ==
  [][~graphView /\ lines' # lines =>
       cursorKey' = cursorKey \/ cursorKey \notin Keys(lines')]_boardVars

(* A stop or restart that is confirmed goes to the row it was asked on,    *)
(* however many snapshots moved the rows in between. Only when a snapshot  *)
(* took that row away does it go to the row the cursor fell to.            *)
ConfirmAimed == sent.op \in {"kill", "restart"} => sent.armed \in {sent.key, Nobody}

(* "The graph is read-only" (docs/reference.md): in the graph pane no      *)
(* prompt, confirmation, filter or log pane is on, so that no key left     *)
(* over from the table can act; and a merge is only ever asked in a split  *)
(* of two different related rows, about those two, and tells the ancestor. *)
GraphReadOnly ==
  /\ graphView => /\ ~filterMode /\ ~sortPrefix /\ promptMode = "" /\ confirmOp = ""
                  /\ mode = "table"
  /\ confirmOp = "merge" => mode = "split"
MergeSound ==
  /\ mode = "split" => left # right /\ SameAncestry(left, right)
  /\ sent.op = "merge" =>
       /\ {sent.winner, sent.loser} = {left, right} /\ sent.key \in {left, right}
       /\ \A k \in {left, right} : IsAncestor(sent.key, k) \/ ~IsAncestor(k, sent.key)

(* "Nothing in the store goes unpainted": the graph pane shows all of the  *)
(* graph of the snapshot it absorbed last.                                 *)
AllPainted == ~unseen => Painted(snap.graph, gl)

(* The cursor and everything else has its type, and is on the screen.      *)
CursorInOrder == BoardTypeOK /\ CursorInView

(* What is on the screen: panes, splits and the whole graph.               *)
PanesInOrder == GraphReadOnly /\ MergeSound /\ AllPainted
=============================================================================
