----------------------------- MODULE MindmapEdit -----------------------------
(***************************************************************************)
(* mindmap-edit.js and mindmap.js: the edits of a list-only document that  *)
(* stand for operations of the mind map, on lines numbered from 1.  A line *)
(* is [indent, number, box, topic]; indent is the blank text in front of   *)
(* the marker, in Tabs and Pairs of spaces, number is 0 after a bullet,    *)
(* topic is None on a line that is only a marker.  An edit that cannot     *)
(* apply yields None.                                                      *)
(***************************************************************************)
EXTENDS OrderedLists, SequencesExt

CONSTANTS None, NewTopic, Tab, Pair
Bullet(indent, topic) == [indent |-> indent, number |-> 0, box |-> "", topic |-> topic]

\* The members of a set of line numbers of s, in order.
InOrder(S, s) == SelectSeq([k \in DOMAIN s |-> k], LAMBDA k : k \in S)

(***************************************************************************)
(* parseMindmap: what the Markdown parser makes of the lines.              *)
(***************************************************************************)
\* A tab goes to the next stop, of four columns.
Column(indent) ==
    LET after[n \in 0 .. Len(indent)] ==
            CASE n = 0 -> 0
              [] n > 0 /\ indent[n] = Tab -> 4 + 4 * (after[n - 1] \div 4)
              [] OTHER -> after[n - 1] + 2
    IN  after[Len(indent)]
\* Where the text of an item starts: what is below it has to reach so far.
Content(line) == Column(line.indent) + (IF Ordered(line) THEN 3 ELSE 2)

\* A line opens an item unless it is four columns too deep for the open items
\* it reaches.  One that would interrupt the paragraph of the last open item
\* needs a text and the number 1, unless a list of its kind is open.
OpensIn(text, k, base, open) ==
    /\ Column(text[k].indent) < 4 + base
    /\ \/ open = {} \/ text[Max(open)].topic = None
       \/ \E h \in open : Ordered(text[h]) = Ordered(text[k])
       \/ text[k].topic # None /\ text[k].number \in {0, 1}
\* What the lines leave open: each one, if it opens an item, with the items it
\* reaches, if not, the items before; and where its own text starts.
Nesting(text) ==
    LET after[k \in 0 .. Len(text)] ==
            IF k = 0 THEN <<>>
            ELSE LET done == after[k - 1]
                     open == IF k = 1 THEN {} ELSE done[k - 1].open
                     column == Column(text[k].indent)
                     around == {h \in open : done[h].content <= column}
                     base == Max({0} \cup {done[h].content : h \in around})
                 IN  Append(done, [open |-> IF OpensIn(text, k, base, open) THEN around \cup {k} ELSE open,
                                   content |-> Content(text[k])])
    IN  after[Len(text)]

\* The depth of each line that opens an item.
DepthsIn(nesting) ==
    [k \in {j \in DOMAIN nesting : j \in nesting[j].open} |-> Cardinality(nesting[k].open) - 1]
Depths(text) == DepthsIn(Nesting(text))

Items(text) == {k \in DOMAIN Depths(text) : text[k].topic # None}
isListOnlyDocument(text) ==
    DOMAIN Depths(text) = DOMAIN text /\ \E k \in DOMAIN text : text[k].topic # None

EndIn(text, depth, line) ==
    LET items == {k \in DOMAIN depth : text[k].topic # None}
    IN  Max({line} \cup {k \in items : /\ k > line
                                       /\ \A j \in items : j \in line + 1 .. k => depth[j] > depth[line]})
subtreeEnd(text, line) == EndIn(text, Depths(text), line)

(***************************************************************************)
(* The edits.                                                              *)
(***************************************************************************)
\* lines.splice(at, del, ...new): at counts the lines that stay before.
Splice(text, at, del, new) == SubSeq(text, 1, at) \o new \o SubSeq(text, at + del + 1, Len(text))
\* The lines from .. to, of which the outermost is indented by base,
\* indented by indent instead: base is cut from those that start with it.
Rebase(text, from, to, base, indent) ==
    [k \in DOMAIN text |->
        IF k \in from .. to
        THEN [text[k] EXCEPT !.indent =
                 indent \o (IF IsPrefix(base, @) THEN SubSeq(@, Len(base) + 1, Len(@)) ELSE @)]
        ELSE text[k]]

\* The level of a counter is the length of the indent.
Characters(indent) == Len(indent) + Cardinality({k \in DOMAIN indent : indent[k] = Pair})
\* Nothing is counted anew.
resequenceTouchedBug(text, k, touched, moved) == text
\* The run around line k, of which the lines touched were written.
resequenceTouched(text, k, touched, moved) ==
    IF k \notin DOMAIN text \/ ~ Ordered(text[k]) THEN text
    ELSE LET first == RunFirst(text, k)
             wide == [j \in DOMAIN text |-> [text[j] EXCEPT !.indent = Characters(@)]]
             counted == computeNumbers(wide, first, RunLast(text, k), first \in touched \cup moved)
         IN  [j \in DOMAIN text |-> [text[j] EXCEPT !.number = counted[j].number]]
Clip(text, k) == IF k > Len(text) THEN Len(text) ELSE k

renameNodeLine(text, line, topic) ==
    IF line \notin DOMAIN text THEN None ELSE [text EXCEPT ![line].topic = topic]

\* In front of what is below the parent.
insertChildLineBug(text, parent) ==
    IF parent \notin Items(text) THEN None
    ELSE [text |-> Splice(text, parent, 0, <<Bullet(Append(text[parent].indent, Tab), NewTopic)>>),
          line |-> parent + 1]
insertChildLine(text, parent) ==
    IF parent \notin Items(text) THEN None
    ELSE LET end == subtreeEnd(text, parent)
         IN  [text |-> Splice(text, end, 0, <<Bullet(Append(text[parent].indent, Tab), NewTopic)>>),
              line |-> end + 1]

\* The new line takes the place of the one that was there.
insertSiblingLineBug(text, line, position) ==
    IF line \notin Items(text) THEN None
    ELSE LET at == IF position = "before" THEN line - 1 ELSE subtreeEnd(text, line)
         IN  [text |-> Splice(text, at, 1, <<Bullet(text[line].indent, NewTopic)>>), line |-> at + 1]
insertSiblingLine(text, line, position) ==
    IF line \notin Items(text) THEN None
    ELSE LET ref == text[line]
             at == IF position = "before" THEN line - 1 ELSE subtreeEnd(text, line)
             new == [indent |-> ref.indent, number |-> IF Ordered(ref) THEN 1 ELSE 0,
                     box |-> IF ref.box = "" THEN "" ELSE "open", topic |-> NewTopic]
             text1 == Splice(text, at, 0, <<new>>)
         IN  [text |-> resequenceTouched(text1, at + 1, {at + 1}, {}), line |-> at + 1]

insertParentLine(text, line) ==
    IF line \notin Items(text) THEN None
    ELSE LET end == subtreeEnd(text, line)
             text1 == Splice(text, line - 1, 0, <<Bullet(text[line].indent, NewTopic)>>)
             text2 == Rebase(text1, line + 1, end + 1, text[line].indent, Append(text[line].indent, Tab))
         IN  [text |-> resequenceTouched(text2, line + 1, {line + 1}, {}), line |-> line]

\* From the last to the first, so that the lines before keep their numbers;
\* each with the lines that were below it.
removeNodeLines(text, targets) ==
    IF targets = {} \/ ~ targets \subseteq Items(text) THEN None
    ELSE LET Drop(left, from) ==
                 LET size == subtreeEnd(text, from) - from + 1
                     left1 == Splice(left, from - 1, size, <<>>)
                 IN  resequenceTouched(left1, Clip(left1, from), from .. from + size - 1, {})
         IN  FoldLeft(Drop, text, Reverse(InOrder(targets, text)))

moveNodeLines(text, from, to, position) ==
    IF ~ {from, to} \subseteq Items(text) \/ to \in from .. subtreeEnd(text, from) THEN None
    ELSE LET end == subtreeEnd(text, from)
             size == end - from + 1
             indent == text[to].indent \o (IF position = "inside" THEN <<Tab>> ELSE <<>>)
             block == SubSeq(Rebase(text, from, end, text[from].indent, indent), from, end)
             rest == Splice(text, from - 1, size, <<>>)
             target == IF to > end THEN to - size ELSE to
             at == IF position = "before" THEN target - 1 ELSE subtreeEnd(rest, target)
             text1 == Splice(rest, at, 0, block)
             moved == at + 1 .. at + size
             text2 == resequenceTouched(text1, Clip(text1, from), from .. end, {})
         IN  IF position # "before" /\ target \notin Items(rest) THEN None
             ELSE resequenceTouched(text2, at + 1, moved, moved)

\* nodes: the pasted nodes in order, [depth, topic], depths from 0.
pasteSubtreeLines(text, target, nodes) ==
    IF target \notin Items(text) THEN None
    ELSE LET end == subtreeEnd(text, target)
         IN  [text |-> Splice(text, end, 0, [k \in DOMAIN nodes |->
                           Bullet(text[target].indent \o [j \in 1 .. 1 + nodes[k].depth |-> Tab], nodes[k].topic)]),
              line |-> end + 1]
=============================================================================
