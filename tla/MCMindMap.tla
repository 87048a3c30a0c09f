------------------------------ MODULE MCMindMap ------------------------------
(* Small instances of MindMap. *)
EXTENDS MindMap

CONSTANTS t1, t2, t3, t4, t5, MaxTwice, MaxOnce

MCTopic == <<t1, t2, t3, t4, t5>>
\* Levels of n lines, each at most one deeper than the line before.
Levels[n \in Nat] ==
    IF n = 1 THEN {<<0>>} ELSE UNION {{Append(i, x) : x \in 0 .. i[n - 1] + 1} : i \in Levels[n - 1]}
\* Ordered lines counted from 1.
Numbered(shape) ==
    [k \in DOMAIN shape |->
        IF Ordered(shape[k])
        THEN computeNumbers(shape, RunFirst(shape, k), RunLast(shape, k), TRUE)[k] ELSE shape[k]]
Indented(shape, by) == [k \in DOMAIN shape |-> [shape[k] EXCEPT !.indent = [x \in 1 .. @ |-> by]]]
Docs(n, by) ==
    {t \in {Indented(Numbered([k \in 1 .. n |-> [indent |-> i[k], number |-> o[k], box |-> "", topic |-> MCTopic[k]]]), by) :
               i \in Levels[n], o \in [1 .. n -> {0, 1}]} :
        isListOnlyDocument(t)}
\* A line that is only a marker; a task.
Empty(t, k) == [t EXCEPT ![k].topic = None]
Task(t, k) == [t EXCEPT ![k].box = "done"]
Odd(n) == {t \in {Empty(d, k) : d \in Docs(n, Tab), k \in 1 .. n} : isListOnlyDocument(t)}
          \cup {Task(d, n) : d \in Docs(n, Tab)}
\* Spaces that make the levels, and (in a numbered list) spaces that make none.
Spaced(n) == {t \in Docs(n, Pair) : By(t, Pair)}
Twice == UNION {Docs(n, Tab) \cup Spaced(n) : n \in 2 .. MaxTwice}
Once == Docs(MaxOnce, Tab) \cup Spaced(MaxOnce) \cup Docs(MaxTwice, Pair) \cup Odd(MaxTwice)
MCStart == {[text |-> t, left |-> 2] : t \in Twice} \cup {[text |-> t, left |-> 1] : t \in Once \ Twice}
MCTopics == {t1, t2, t3, t4, t5}
MCRenames == {t5}
MCPulled == {<<Bullet(<<>>, t2), Bullet(<<Tab>>, t1), Bullet(<<Tab>>, t3)>>,
             <<Bullet(<<>>, t1), Bullet(<<Tab, Tab>>, t2)>>}
=============================================================================
