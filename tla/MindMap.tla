------------------------------- MODULE MindMap -------------------------------
(***************************************************************************)
(* The mind map over its document: mindmap-host.js with mindmap-adapter.js *)
(* and what the home page wires to it.  The library (external) edits its   *)
(* own tree first and reports the operation; the host finds the lines that *)
(* the ids of the nodes stand for and edits the text.  An id m-<line> is   *)
(* the line a node was built from, any other id is looked up in            *)
(* pendingFresh.  Neither follows the lines that later edits shift.        *)
(***************************************************************************)
EXTENDS MindmapEdit, TLC

CONSTANTS
    Topics,     \* what the lines may say
    Renames,    \* what a node may be renamed to
    Start,      \* documents on show, each with the gestures that follow
    Pulled      \* what a sync run may write over the document

VARIABLES
    text,           \* the draft of the open document
    shown,          \* the library's tree in preorder, [id, depth, topic]; or
                    \* None: guidance, or a library not loaded
    pendingFresh,   \* fresh library id -> line
    signature,      \* parseMindmap at the last refresh
    booting,        \* the text a host under way was given, or None
    left            \* bound: gestures to come; nothing is rebuilt after the last

vars == <<text, shown, pendingFresh, signature, booting, left>>

m(line) == <<"m", line>>
IsFresh(id) == id[1] = "fresh"
Id == {"m", "fresh"} \X Nat
NoIds == [id \in {} |-> 0]

\* lineOfNodeId, then the table; 0 for null.
resolveLine(id) ==
    CASE ~ IsFresh(id) -> id[2]
      [] IsFresh(id) /\ id \in DOMAIN pendingFresh -> pendingFresh[id]
      [] OTHER -> 0

mindmapSignature(t) == LET depth == Depths(t) IN [k \in Items(t) |-> <<depth[k], t[k].topic>>]

\* The depth is the level.
buildMindmapTreeBug(t) ==
    LET lines == InOrder(Items(t), t)
        depth == Depths(t)
    IN  [k \in DOMAIN lines |-> [id |-> m(lines[k]), depth |-> depth[lines[k]], topic |-> t[lines[k]].topic]]
\* buildMindmapTree and toMindElixirData.  The first item is the root; what
\* nothing shallower comes before hangs from it.
buildMindmapTree(t) ==
    LET lines == InOrder(Items(t), t)
        depth == Depths(t)
        level[k \in DOMAIN lines] ==
            LET above == {j \in 1 .. k - 1 : depth[lines[j]] < depth[lines[k]]}
            IN  CASE k = 1 -> 0
                  [] k > 1 /\ above = {} -> 1
                  [] OTHER -> level[Max(above)] + 1
    IN  [k \in DOMAIN lines |-> [id |-> m(lines[k]), depth |-> level[k], topic |-> t[lines[k]].topic]]

(***************************************************************************)
(* The library's own tree.                                                 *)
(***************************************************************************)
Nodes == IF shown = None THEN {} ELSE DOMAIN shown
Branch(tree, k) == {k} \cup {j \in k + 1 .. Len(tree) : \A i \in k + 1 .. j : tree[i].depth > tree[k].depth}
End(tree, k) == Max(Branch(tree, k))
NextId == <<"fresh", 1 + Cardinality({shown[k].id : k \in Nodes} \cup DOMAIN pendingFresh)>>
Node(depth) == [id |-> NextId, depth |-> depth, topic |-> NewTopic]
\* The branch of k, its top at the given depth.
Lifted(tree, k, depth) ==
    [j \in 1 .. Cardinality(Branch(tree, k)) |->
        [tree[k + j - 1] EXCEPT !.depth = @ - tree[k].depth + depth]]
Kept(tree, gone) ==
    LET stay == InOrder(DOMAIN tree \ gone, tree) IN [j \in DOMAIN stay |-> tree[stay[j]]]

Added(k) == Splice(shown, End(shown, k), 0, <<Node(shown[k].depth + 1)>>)
Beside(k, position) ==
    Splice(shown, IF position = "before" THEN k - 1 ELSE End(shown, k), 0, <<Node(shown[k].depth)>>)
Above(k) ==
    Splice(shown, k - 1, Cardinality(Branch(shown, k)),
           <<Node(shown[k].depth)>> \o Lifted(shown, k, shown[k].depth + 1))
Removed(gone) == Kept(shown, UNION {Branch(shown, k) : k \in gone})
Where(tree, id) == CHOOSE j \in DOMAIN tree : tree[j].id = id
\* One node after the other, each right before or after the target or below it.
Moved(from, to, position) ==
    LET Move(tree, id) ==
            LET top == Where(tree, id)
                rest == Kept(tree, Branch(tree, top))
                target == Where(rest, shown[to].id)
                at == IF position = "before" THEN target - 1 ELSE End(rest, target)
                depth == rest[target].depth + (IF position = "inside" THEN 1 ELSE 0)
            IN  Splice(rest, at, 0, Lifted(tree, top, depth))
        tops == InOrder(from, shown)
        ids == [j \in DOMAIN tops |-> shown[tops[j]].id]
    IN  FoldLeft(Move, shown, IF position = "after" THEN Reverse(ids) ELSE ids)
\* A copy has fresh ids.
Copied(k) ==
    LET branch == Lifted(shown, k, 0)
    IN  [j \in DOMAIN branch |-> [branch[j] EXCEPT !.id = <<"fresh", NextId[2] + j - 1>>]]
Pasted(k, to) ==
    LET copy == Copied(k)
    IN  Splice(shown, End(shown, to), 0,
               [j \in DOMAIN copy |-> [copy[j] EXCEPT !.depth = @ + shown[to].depth + 1]])

(***************************************************************************)
(* applyDescribed.  An outcome without a text changes nothing.  What then  *)
(* follows, and follows a removal or a move, is a call of `refresh`, which *)
(* names nothing in the scope of the host: it throws, and both handlers    *)
(* drop the error, so that the map stays as it is.                         *)
(***************************************************************************)
Gesture == shown # None /\ left > 0 /\ left' = left - 1 /\ UNCHANGED <<signature, booting>>
Rewrite(t) == text' = IF t = None THEN text ELSE t
Line(k) == resolveLine(shown[k].id)
recordFresh(id, line) == pendingFresh' = (id :> line) @@ pendingFresh
\* An insertion of one node: t is [text, line] or None.
Insert(t) ==
    /\ text' = IF t = None THEN text ELSE t.text
    /\ IF t = None THEN UNCHANGED pendingFresh ELSE recordFresh(NextId, t.line)

rename(k, topic) ==
    /\ Gesture /\ UNCHANGED pendingFresh
    /\ shown' = [shown EXCEPT ![k].topic = topic]
    /\ Rewrite(renameNodeLine(text, Line(k), topic))
add(k) ==
    Gesture /\ shown' = Added(k) /\ Insert(insertChildLine(text, Line(k)))
\* siblingReference names the node the new one was put beside.
sibling(k, position) ==
    Gesture /\ k # 1 /\ shown' = Beside(k, position) /\ Insert(insertSiblingLine(text, Line(k), position))
parent(k) ==
    Gesture /\ k # 1 /\ shown' = Above(k) /\ Insert(insertParentLine(text, Line(k)))
\* Nodes other than the root, none below another.
Apart(S) == S # {} /\ 1 \notin S /\ \A k \in S : S \cap Branch(shown, k) = {k}
remove(gone) ==
    /\ Gesture /\ Apart(gone) /\ UNCHANGED pendingFresh
    /\ shown' = Removed(gone)
    /\ Rewrite(removeNodeLines(text, {Line(k) : k \in gone}))
\* Neither before or after the root nor into what moves.
Movable(from, to, position) ==
    Apart(from) /\ (\A k \in from : to \notin Branch(shown, k)) /\ (to = 1 => position = "inside")
move(k, to, position) ==
    /\ Gesture /\ Movable({k}, to, position) /\ UNCHANGED pendingFresh
    /\ shown' = Moved({k}, to, position)
    /\ Rewrite(moveNodeLines(text, Line(k), Line(to), position))
\* describeOperation knows no drag of several nodes: the text is not edited,
\* and the library has moved them already.
drag(from, to, position) ==
    /\ Gesture /\ Movable(from, to, position) /\ UNCHANGED <<text, pendingFresh>>
    /\ shown' = Moved(from, to, position)
paste(k, to) ==
    /\ Gesture /\ shown' = Pasted(k, to)
    /\ LET copy == Copied(k)
           t == pasteSubtreeLines(text, Line(to), copy)
       IN  /\ text' = IF t = None THEN text ELSE t.text
           /\ pendingFresh' = IF t = None THEN pendingFresh
                              ELSE [id \in {copy[j].id : j \in DOMAIN copy} |->
                                       t.line - 1 + CHOOSE j \in DOMAIN copy : copy[j].id = id] @@ pendingFresh

Edit ==
    \/ \E k \in Nodes, topic \in Renames : rename(k, topic)
    \/ \E k \in Nodes : add(k) \/ parent(k)
    \/ \E k \in Nodes, position \in {"before", "after"} : sibling(k, position)
    \/ \E j, k \in Nodes : remove({j, k})
    \/ \E k, to \in Nodes, position \in {"before", "after", "inside"} :
          \/ move(k, to, position)
          \/ \E j \in Nodes : j < k /\ drag({j, k}, to, position)
    \/ \E j, k \in Nodes : paste(j, k)

(***************************************************************************)
(* What builds the tree anew.                                              *)
(***************************************************************************)
Build(t) == shown' = buildMindmapTree(t) /\ pendingFresh' = NoIds
Guide == shown' = None

\* refresh of the controller: the page's chrome was refreshed.
refresh ==
    /\ booting = None /\ left > 0 /\ UNCHANGED <<text, booting, left>>
    /\ ~ (shown # None /\ signature = mindmapSignature(text))
    /\ signature' = mindmapSignature(text)
    /\ IF isListOnlyDocument(text) THEN Build(text) ELSE Guide /\ UNCHANGED pendingFresh

\* A font has loaded.
healFonts ==
    /\ shown # None /\ left > 0 /\ isListOnlyDocument(text)
    /\ signature' = mindmapSignature(text) /\ Build(text)
    /\ UNCHANGED <<text, booting, left>>

\* Whatever the document is.
applyLayout ==
    /\ shown # None /\ left > 0
    /\ IF Items(text) = {} THEN Guide /\ UNCHANGED pendingFresh ELSE Build(text)
    /\ UNCHANGED <<text, signature, booting, left>>

\* The page renders: a new host, which loads the library.
boot ==
    /\ left > 0 /\ shown' = None /\ pendingFresh' = NoIds
    /\ signature' = mindmapSignature(text)
    /\ booting' = IF isListOnlyDocument(text) THEN text ELSE None
    /\ UNCHANGED <<text, left>>
ensureInstance ==
    /\ booting # None
    /\ shown' = buildMindmapTree(booting) /\ booting' = None
    /\ UNCHANGED <<text, pendingFresh, signature, left>>

\* A sync run has pulled the open document; the map is told nothing.
reloadLibrary ==
    /\ left > 0 /\ text \notin Pulled /\ text' \in Pulled
    /\ UNCHANGED <<shown, pendingFresh, signature, booting, left>>

Init ==
    /\ \E s \in Start : text = s.text /\ left = s.left
    /\ shown = buildMindmapTree(text) /\ pendingFresh = NoIds
    /\ signature = mindmapSignature(text) /\ booting = None
Next == Edit \/ refresh \/ healFonts \/ applyLayout \/ boot \/ ensureInstance \/ reloadLibrary
Spec == Init /\ [][Next]_vars
-----------------------------------------------------------------------------
(***************************************************************************)
(* Correctness.                                                            *)
(***************************************************************************)
IsText(t) ==
    \A k \in DOMAIN t : /\ t[k].indent \in Seq({Tab, Pair}) /\ t[k].number \in 0 .. Len(t) + 9
                        /\ t[k].box \in {"", "open", "done"} /\ t[k].topic \in Topics \cup {NewTopic, None}
\* The text is made of list lines, the tree on show is a tree (one root, no
\* level left out, no id twice) and the fresh ids stand for lines.
TypeOK ==
    /\ IsText(text) /\ left \in Nat
    /\ shown # None =>
          /\ shown[1].depth = 0 /\ \A k \in Nodes \ {1} : shown[k].depth \in 1 .. shown[k - 1].depth + 1
          /\ \A k \in Nodes : shown[k].id \in Id /\ shown[k].topic \in Topics \cup {NewTopic}
          /\ \A j, k \in Nodes : shown[j].id = shown[k].id => j = k
    /\ \A id \in DOMAIN pendingFresh : IsFresh(id) /\ pendingFresh[id] > 0
    /\ booting # None => isListOnlyDocument(booting)

Shape(tree) == [k \in DOMAIN tree |-> <<tree[k].depth, tree[k].topic>>]
\* The map shows the text, and every node's id stands for the node's line.
Proven ==
    /\ shown # None
    /\ LET of == buildMindmapTree(text)
       IN  Shape(shown) = Shape(of) /\ \A k \in Nodes : m(Line(k)) = of[k].id

\* The root's branches, in any order.
Branches(tree) ==
    {Shape([j \in 1 .. Cardinality(Branch(tree, k)) |-> tree[k + j - 1]]) :
        k \in {j \in DOMAIN tree : tree[j].depth = 1}}
OneTop(t) == subtreeEnd(t, Min(Items(t))) = Max(Items(t))
SameMap(t, tree) ==
    LET of == buildMindmapTree(t)
    IN  IF OneTop(text) THEN Shape(of) = Shape(tree)
        ELSE Len(of) = Len(tree) /\ Branches(of) = Branches(tree)

\* Every line says something.
Plain(t) == isListOnlyDocument(t) /\ Items(t) = DOMAIN t
OneKind(t) == \A j, k \in DOMAIN t : Ordered(t[j]) = Ordered(t[k])
Edits == left' # left
\* The same topics in another shape, on the map or in the text.
Sayings(shape) == {shape[k][2] : k \in DOMAIN shape}
Turned(was, is) ==
    DOMAIN was = DOMAIN is /\ Sayings(was) = Sayings(is) /\ was # is
Lines(t) == [k \in DOMAIN t |-> <<t[k].indent, t[k].topic>>]
Moves == \/ Turned(Lines(text), Lines(text'))
         \/ Turned(Shape(shown), Shape(shown'))
\* Where bullets and numbers are mixed, a move may leave a number behind that
\* the parser does not take for the start of a list.
Sound == Edits /\ Plain(text) /\ (OneKind(text) \/ ~ Moves)

\* One step of indent per level.
By(t, step) ==
    LET depth == Depths(t) IN \A k \in DOMAIN t : t[k].indent = [x \in 1 .. depth[k] |-> step]
Tabbed(t) == \E k \in DOMAIN t : Tab \in Range(t[k].indent)
PutsBelow ==
    /\ Tabbed(text')
    /\ \E k, to \in Nodes :
          \/ shown' \in {Added(to), Above(to), Pasted(k, to)}
          \/ Movable({k}, to, "inside") /\ shown' = Moved({k}, to, "inside")
\* The edits put a tab in front of what comes to hang below a node, whatever
\* the list is indented with.
LevelsAreTabs == By(text, Tab) \/ ~ PutsBelow
DragsSeveral ==
    \E j, k, to \in Nodes, position \in {"before", "after", "inside"} :
        j < k /\ drag({j, k}, to, position)

\* As long as the ids stand for their lines, an edit does to the text what the
\* library did to its tree: the text' is the one the map shows.  Two edits are
\* left out, in which the code does not do so.  What is put below a node of a
\* list indented by spaces, as the page's own MINDMAP_TEMPLATE is, may come to
\* hang from another node.  And a drag of several nodes is never written: the
\* map has it and the text stays.  (Where the document has several items at the
\* top, a new child of the root comes before them in the text and after them in
\* the map.)
EditsAreTheMaps ==
    [][(Sound /\ Proven /\ (By(text, Tab) \/ By(text, Pair)) /\ LevelsAreTabs) =>
          SameMap(text', shown') \/ (text' = text /\ DragsSeveral)]_vars

\* A document that maps still maps after an edit, on whatever line it falls;
\* again but for what is put below a node of a list indented by spaces, which
\* may no longer be an item at all.
StaysAMap == (Sound /\ LevelsAreTabs) => isListOnlyDocument(text')

\* Each numbered item after a numbered one that hangs from the same line is
\* the next; below the top the first is 1.
Counted(t) ==
    LET nesting == Nesting(t) IN \A k \in DOMAIN t :
        LET before == {j \in 1 .. k - 1 : nesting[j].open \ {j} = nesting[k].open \ {k}}
        IN  Ordered(t[k]) =>
                CASE before = {} -> nesting[k].open # {k} => t[k].number = 1
                  [] OTHER -> Ordered(t[Max(before)]) => t[k].number = t[Max(before)].number + 1
\* Numbered items stay counted, on whatever line an edit falls, as long as all
\* lines are and stay numbered (the code counts on within unbroken lines only).
NumbersFollow ==
    (Sound /\ Counted(text) /\ OneKind(text) /\ OneKind(text')) => Counted(text')

\* s is what is left of t when some lines are taken out, up to indent and number.
Bare(t) == [k \in DOMAIN t |-> <<t[k].topic, t[k].box>>]
PartOf(s, t) ==
    FoldLeft(LAMBDA n, l : IF n < Len(s) /\ s[n + 1] = l THEN n + 1 ELSE n, 0, t) = Len(s)
\* No edit, on whatever line it falls, costs another line than those it takes
\* out: insertions keep all lines in order, removals what is left; the others
\* change the topic of one line, or the order of all.
NothingElseIsLost ==
    Edits =>
       LET was == Bare(text)  is == Bare(text')
       IN  CASE Len(shown') > Len(shown) -> PartOf(was, is)
             [] Len(shown') < Len(shown) -> PartOf(is, was)
             [] OTHER -> \/ Cardinality({k \in DOMAIN is : is[k] # was[k]}) <= 1
                         \/ ToBag(is) = ToBag(was)

\* On whatever line an edit of the map falls, stale or not, the document stays
\* a list that maps, counted as it was, and costs no other line.
EditsKeepTheList == [][StaysAMap /\ NumbersFollow /\ NothingElseIsLost]_vars
=============================================================================
