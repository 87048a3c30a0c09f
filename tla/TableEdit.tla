------------------------------ MODULE TableEdit ------------------------------
(***************************************************************************)
(* The rendered table of the editor, as functions of its source rows       *)
(* (table-view.js).  A row, the header first, is a sequence of words,      *)
(* pipes, backslashes and spaces, from pipe to pipe.                       *)
(*                                                                         *)
(* External: the Markdown parser, which ends a cell at every pipe that no  *)
(* backslash escapes, trims and drops blanks, and sees a table only while  *)
(* the header has as many slots as the delimiter row.                      *)
(***************************************************************************)
EXTENDS Integers, Sequences, FiniteSets, SequencesExt

CONSTANTS Pipe, Slash, Space

\* What stands behind a backslash that is not escaped itself.
Escapes(row) ==
    LET escaped[i \in DOMAIN row] == i > 1 /\ row[i - 1] = Slash /\ ~ escaped[i - 1]
    IN  {i \in DOMAIN row : escaped[i]}
Delimiters(row) == {i \in DOMAIN row : row[i] = Pipe} \ Escapes(row)
\* Between each delimiter and the next: where its text starts and ends.
Slots(row) ==
    LET escapes == Escapes(row)
        ends == SelectSeq([i \in DOMAIN row |-> i], LAMBDA i : row[i] = Pipe /\ i \notin escapes)
        Solid(n) == {i \in ends[n] + 1 .. ends[n + 1] - 1 : row[i] # Space \/ i \in escapes}
    IN  [n \in 1 .. Len(ends) - 1 |-> [from |-> Min({ends[n + 1]} \cup Solid(n)),
                                       to |-> Max({ends[n]} \cup Solid(n))]]
cells(row) == SelectSeq(Slots(row), LAMBDA slot : slot.from <= slot.to)
isTable(grid, columns) == Len(Slots(grid[1])) = columns

\* Row and column of every rendered cell with a source; the header is row 1.
Sources(grid) == UNION {{r} \X (1 .. Len(cells(grid[r]))) : r \in DOMAIN grid}
findTableCell(grid, at) == cells(grid[at[1]])[at[2]]

\* Blanks and pipes are taken off both ends, also a pipe that is escaped.
cellEditRange(grid, at) ==
    LET slot == findTableCell(grid, at)
        content == {i \in slot.from .. slot.to : grid[at[1]][i] \notin {Space, Pipe}}
    IN  [from |-> Min(content), to |-> Max(content)]

\* Typed pipes are not escaped.
escapeCellTextBug(text) == text
\* A backslash in front of every pipe, also of one that had one before.
escapeCellText(text) ==
    FlattenSeq([i \in DOMAIN text |-> IF text[i] = Pipe THEN <<Slash, Pipe>> ELSE <<text[i]>>])

Written(grid, row, range, text) ==
    [grid EXCEPT ![row] = SubSeq(@, 1, range.from - 1) \o escapeCellText(text) \o SubSeq(@, range.to + 1, Len(@))]

-------------------------------------------------------------------------------
(* Where Tab goes. *)

\* Editable cells in logical order.
editableCellsOf(grid) == FlattenSeq([r \in DOMAIN grid |-> [c \in 1 .. Len(cells(grid[r])) |-> <<r, c>>]])
\* The neighbour of a cell, no cell past either end; a cell that is gone
\* stands before the first.
focusNeighborCell(grid, at, direction) ==
    LET order == editableCellsOf(grid)
        next == SelectInSeq(order, LAMBDA p : p = at) + direction
    IN  IF next \in DOMAIN order THEN {order[next]} ELSE {}

\* The cursor in the source of the table: 0 at its start, n at its n-th
\* cell, one more at its end.
tableCellStops(grid) == Cardinality(Sources(grid))
jumpTableCell(grid, stop, forward) ==
    IF forward THEN IF stop < tableCellStops(grid) THEN stop + 1 ELSE tableCellStops(grid) + 1
    ELSE IF stop > 1 THEN stop - 1 ELSE 0
=============================================================================
