------------------------------- MODULE MCEditor -------------------------------
(* Small instances of Editor. *)
EXTENDS Editor, TLC

CONSTANTS x1, x2, x3, pasted, w1, w2

MCTexts == {x1, x2, x3, pasted}
\* What a line may look like: plain, items, a task, a quoted item, code.
Shapes ==
    {<<0, <<>>>>, <<0, <<Mark("bullet")>>>>, <<0, <<Number(1)>>>>, <<0, <<Number(2)>>>>, <<1, <<Number(1)>>>>,
     <<0, <<Mark("bullet"), Mark("done")>>>>, <<0, <<Number(4), Mark("open")>>>>,
     <<0, <<Mark("quote"), Mark("bullet")>>>>, <<0, <<Mark("fence")>>>>}
MCText == <<x1, x2, x3>>
MCClipboard == {Line(0, <<>>, pasted), Line(0, <<Number(7)>>, pasted)}
Row(a, b) == <<Pipe, Space>> \o a \o <<Space, Pipe, Space>> \o b \o <<Space, Pipe>>
\* Padded; with escaped pipes; not padded.
Plain == <<Row(<<w1>>, <<w2>>), Row(<<w1>>, <<w2>>)>>
Piped == <<Row(<<w1>>, <<w2>>), Row(<<w1, Slash, Pipe>>, <<w2, Slash, Pipe, w1>>)>>
Tight == <<<<Pipe, w1, Pipe, w2, Pipe>>, <<Pipe, w1, Pipe, w2, Pipe>>>>
Open(ls, g, n) == [lines |-> ls, grid |-> g, locked |-> FALSE, left |-> n]
\* Lists under every command twice, tables four times, also opened locked.
MCStarts ==
    {Open([k \in 1 .. 3 |-> Line(s[k][1], s[k][2], MCText[k])], Plain, 2) : s \in [1 .. 3 -> Shapes]}
    \cup {Open(<<Line(1, <<m>>, None), Line(0, <<Number(1)>>, x2)>>, Plain, 2) :
              m \in {Mark("bullet"), Number(3), Mark("quote")}}
    \cup {Open(<<Line(0, <<>>, x1)>>, g, 4) : g \in {Plain, Piped, Tight}}
    \cup {[Open(<<Line(0, <<>>, x1)>>, Plain, 4) EXCEPT !.locked = TRUE]}
=============================================================================
