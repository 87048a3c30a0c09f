----------------------------- MODULE OrderedLists -----------------------------
(***************************************************************************)
(* Numbering of ordered list lines, shared by the editor (list-continue)   *)
(* and by the edits of the mind map (mindmap-edit).  A line is a record    *)
(* with at least the fields indent, its level, and number, 0 on a line     *)
(* that opens no ordered item.  Digits, delimiters and spacing are kept by *)
(* the code and left out.                                                  *)
(***************************************************************************)
EXTENDS Integers, Sequences, FiniteSets, FiniteSetsExt

Ordered(l) == l.number # 0

\* Lines first and last of the contiguous ordered lines around line k.
RunFirst(lines, k) == Min({j \in 1 .. k : \A i \in j .. k : Ordered(lines[i])})
RunLast(lines, k) == Max({j \in k .. Len(lines) : \A i \in k .. j : Ordered(lines[i])})

\* The lines whose counter line j goes on with: of its level, with nothing
\* shallower in between.
Level(lines, first, j) ==
    {i \in first .. j - 1 : /\ lines[i].indent = lines[j].indent
                            /\ \A h \in i .. j : lines[h].indent >= lines[j].indent}

\* Deeper levels go on where they stopped.
computeNumbersBug(lines, first, last, moved) ==
    [j \in DOMAIN lines |->
        IF j \in first .. last
        THEN [lines[j] EXCEPT !.number = 1 + Cardinality({i \in first .. j - 1 : lines[i].indent = lines[j].indent})]
        ELSE lines[j]]
\* One counter per level, deeper levels restart; the opening line keeps its
\* number unless it is moved.
computeNumbers(lines, first, last, moved) ==
    LET count[j \in first .. last] ==
            LET before == Level(lines, first, j)
            IN  CASE before # {} -> count[Max(before)] + 1
                  [] before = {} /\ j = first /\ ~moved -> lines[j].number
                  [] OTHER -> 1
    IN  [j \in DOMAIN lines |->
            IF j \in first .. last THEN [lines[j] EXCEPT !.number = count[j]] ELSE lines[j]]

\* What the numbering of a run should be, its first number given.
Follows(lines) ==
    \A j \in DOMAIN lines :
        (Ordered(lines[j]) /\ RunFirst(lines, j) # j) =>
            lines[j].number =
                LET before == Level(lines, RunFirst(lines, j), j)
                IN  IF before = {} THEN 1 ELSE lines[Max(before)].number + 1
=============================================================================
