------------------------------- MODULE ListEdit -------------------------------
(***************************************************************************)
(* The list commands of the editor, as functions of the lines of a         *)
(* document (list-continue.js, toggle-mark.js, task-list.js).              *)
(*                                                                         *)
(* A line is its indent in tab stops, its head, the markers in front of    *)
(* the text one after the other, and its text, None when nothing follows.  *)
(* Every marker is followed by one space.  Digits are ASCII, delimiters    *)
(* and heading levels are one, and spaces as indent are left out.          *)
(***************************************************************************)
EXTENDS OrderedLists, SequencesExt

CONSTANT None

Mark(kind) == [kind |-> kind, number |-> 0]
Number(n) == [kind |-> "ordered", number |-> n]
Marks == {Mark(kind) : kind \in {"bullet", "open", "done", "quote", "heading", "fence"}}
Marker(m) == m.kind \in {"bullet", "ordered"}
Box(m) == m.kind \in {"open", "done"}

Line(indent, head, text) == [indent |-> indent, head |-> head, text |-> text]
Blank == Line(0, <<>>, None)
Begins(l, kind) == l.head # <<>> /\ l.head[1].kind = kind
\* Whether more than the first n markers stands on the line.
More(l, n) == Len(l.head) > n \/ l.text # None
IsTask(l) == Len(l.head) > 1 /\ Marker(l.head[1]) /\ Box(l.head[2])

\* The line as the numbering sees it, and lines given back their numbers.
parseOrderedLine(l) == [indent |-> l.indent, number |-> IF Begins(l, "ordered") THEN l.head[1].number ELSE 0]
Parsed(lines) == [k \in DOMAIN lines |-> parseOrderedLine(lines[k])]
buildPrefixChanges(lines, levels) ==
    [k \in DOMAIN lines |->
        IF Begins(lines[k], "ordered")
        THEN [lines[k] EXCEPT !.indent = levels[k].indent, !.head[1].number = levels[k].number]
        ELSE lines[k]]

inFencedCode(lines, k) == Cardinality({j \in 1 .. k - 1 : Begins(lines[j], "fence")}) % 2 = 1

-------------------------------------------------------------------------------
(* Enter at the end of line k: FALSE where the default newline runs. *)

continues(l) == \E kind \in {"bullet", "ordered", "quote"} : Begins(l, kind)
QuoteRun(l) == SelectInSeq(Append(l.head, Mark("none")), LAMBDA m : m.kind # "quote") - 1
MarkerOnly(l) ==
    /\ l.text = None
    /\ \/ Len(l.head) = 1 /\ Marker(l.head[1])
       \/ Len(l.head) = 2 /\ IsTask(l)
       \/ Begins(l, "quote") /\ QuoteRun(l) = Len(l.head)
\* The head of the next line: a task reopens unchecked with its own number,
\* an ordered item counts on from its own.
NextHead(l) ==
    CASE IsTask(l) -> <<l.head[1], Mark("open")>>
      [] ~IsTask(l) /\ Begins(l, "bullet") -> <<l.head[1]>>
      [] ~IsTask(l) /\ Begins(l, "ordered") -> <<Number(l.head[1].number + 1)>>
      [] OTHER -> SubSeq(l.head, 1, QuoteRun(l))
continueList(lines, k) ==
    IF MarkerOnly(lines[k])
    THEN [lines EXCEPT ![k] = Blank]
    ELSE InsertAt(lines, k + 1, Line(lines[k].indent, NextHead(lines[k]), None))

-------------------------------------------------------------------------------
(* Tab and Shift-Tab on line k. *)

\* Items at the margin are outdented further.
indentsBug(lines, k, outdent) ==
    ~inFencedCode(lines, k) /\ (Begins(lines[k], "ordered") \/ (Begins(lines[k], "bullet") /\ More(lines[k], 1)))
\* Lines the level-aware Tab takes; the others fall to the default Tab.
indents(lines, k, outdent) ==
    /\ ~inFencedCode(lines, k)
    /\ Begins(lines[k], "ordered") \/ (Begins(lines[k], "bullet") /\ More(lines[k], 1))
    /\ outdent => lines[k].indent > 0
Moved(lines, k, outdent) == [lines EXCEPT ![k].indent = IF outdent THEN @ - 1 ELSE @ + 1]
\* Only the item that moves is numbered.
indentListItemBug(lines, k, outdent) ==
    LET moved == Moved(lines, k, outdent)
    IN  IF Begins(lines[k], "ordered")
        THEN buildPrefixChanges(moved, computeNumbers(Parsed(moved), k, k, TRUE)) ELSE moved
indentListItem(lines, k, outdent) ==
    LET moved == Moved(lines, k, outdent)
        parsed == Parsed(moved)
        first == RunFirst(parsed, k)
    IN  IF Begins(lines[k], "ordered")
        THEN buildPrefixChanges(moved, computeNumbers(parsed, first, RunLast(parsed, k), first = k)) ELSE moved

-------------------------------------------------------------------------------
(* The numbering after a user edit that adds, takes or moves lines.  Each  *)
(* changed range leads to an anchor line, and from there up to the opening *)
(* of the run above it; hit holds the openings the change has touched.     *)

RunAbove(parsed, anchor) == Min({j \in 1 .. anchor : \A i \in j .. anchor - 1 : Ordered(parsed[i])})
\* The run on from an anchor, none when its opening is plain or code.
listRun(lines, anchor) ==
    LET parsed == Parsed(lines)
        first == RunAbove(parsed, anchor)
    IN  IF Ordered(parsed[first]) /\ ~inFencedCode(lines, first)
        THEN first .. RunLast(parsed, first) ELSE {}
listResequence(lines, anchors, hit) ==
    LET runs == {r \in {listRun(lines, a) : a \in anchors} : r # {}}
        levels == [k \in DOMAIN lines |->
            IF \E r \in runs : k \in r
            THEN LET r == CHOOSE r \in runs : k \in r
                 IN  computeNumbers(Parsed(lines), Min(r), Max(r), Min(r) \in hit)[k]
            ELSE parseOrderedLine(lines[k])]
    IN  buildPrefixChanges(lines, levels)

-------------------------------------------------------------------------------
(* The toggles, over the lines from a to b. *)

\* How many markers count as one previous marking: a box ends them.
Run(l) ==
    Max({n \in 0 .. Len(l.head) :
            /\ n > 0 => Marker(l.head[1])
            /\ \A i \in 1 .. n : Marker(l.head[i]) \/ Box(l.head[i])
            /\ \A i \in 1 .. n - 1 : ~Box(l.head[i])})
classifyListLine(l) ==
    [family |-> IF Run(l) = 0 THEN "none" ELSE l.head[1].kind,
     headEnd |-> Run(l),
     boxed |-> Run(l) > 0 /\ Box(l.head[Run(l)])]
\* The markers before the box, and what stands from the box on.
BoxStart(l) == IF classifyListLine(l).boxed THEN Run(l) - 1 ELSE Run(l)
From(l, n) == SubSeq(l.head, n + 1, Len(l.head))
Remarked(l, m, n) == [l EXCEPT !.head = <<m>> \o From(l, n)]
Stripped(l) == [l EXCEPT !.head = From(l, Run(l))]
Uniform(lines, a, b, family) == \A k \in a .. b : classifyListLine(lines[k]).family = family
On(lines, a, b, Edit(_)) == [k \in DOMAIN lines |-> IF k \in a .. b THEN Edit(k) ELSE lines[k]]

toggleUnorderedList(lines, a, b) ==
    On(lines, a, b, LAMBDA k :
        CASE Uniform(lines, a, b, "bullet") -> Stripped(lines[k])
          [] ~Uniform(lines, a, b, "bullet") /\ Begins(lines[k], "bullet") -> lines[k]
          [] OTHER -> Remarked(lines[k], Mark("bullet"), BoxStart(lines[k])))

\* The first line keeps its number when it has one.
toggleOrderedList(lines, a, b) ==
    LET levels == computeNumbers(Parsed(lines), a, b, ~Begins(lines[a], "ordered"))
    IN  On(lines, a, b, LAMBDA k :
            CASE Uniform(lines, a, b, "ordered") -> Stripped(lines[k])
              [] ~Uniform(lines, a, b, "ordered") /\ Begins(lines[k], "ordered") ->
                    Remarked(lines[k], Number(levels[k].number), 1)
              [] OTHER -> Remarked(lines[k], Number(levels[k].number), BoxStart(lines[k])))

\* Boxes go with what follows them on the line.
toggleTaskList(lines, a, b) ==
    On(lines, a, b, LAMBDA k :
        LET l == lines[k]
            line == classifyListLine(l)
        IN  CASE line.boxed -> [l EXCEPT !.head = SubSeq(@, 1, line.headEnd - 1) \o From(l, line.headEnd)]
              [] ~line.boxed /\ line.family # "none" ->
                    [l EXCEPT !.head = SubSeq(@, 1, line.headEnd) \o <<Mark("open")>> \o From(l, line.headEnd)]
              [] OTHER -> [l EXCEPT !.head = <<Mark("bullet"), Mark("open")>> \o @])

toggleLinePrefix(lines, a, b, kind) ==
    On(lines, a, b, LAMBDA k :
        [lines[k] EXCEPT !.head = IF Begins(lines[k], kind) THEN Tail(@) ELSE <<Mark(kind)>> \o @])

\* A click on the checkbox of line k.
toggledBox(lines, k) ==
    [lines EXCEPT ![k].head[2] = Mark(IF @.kind = "open" THEN "done" ELSE "open")]

\* A fenced block in place of a blank line, or below line k.
insertCodeBlock(lines, k) ==
    LET block == <<Line(0, <<Mark("fence")>>, None), Blank, Line(0, <<Mark("fence")>>, None)>>
    IN  IF lines[k].head = <<>> /\ lines[k].text = None
        THEN SubSeq(lines, 1, k - 1) \o block \o SubSeq(lines, k + 1, Len(lines))
        ELSE SubSeq(lines, 1, k) \o block \o SubSeq(lines, k + 1, Len(lines))
=============================================================================
