-------------------------------- MODULE Editor --------------------------------
(***************************************************************************)
(* The editor of one document (markdown-view.js with list-continue.js,     *)
(* toggle-mark.js, task-list.js and table-view.js): the list commands on   *)
(* its lines, the rendered table under them that is edited cell by cell,   *)
(* and the lock for reading, which may fall while a cell is being edited.  *)
(*                                                                         *)
(* The lengths of texts are not modelled: where the code compares offsets, *)
(* every outcome some lengths give is possible.  Typing inside a line, the *)
(* default keys of the editor library and undo are left out (undo is in    *)
(* Workbench).                                                             *)
(***************************************************************************)
EXTENDS ListEdit, TableEdit

CONSTANTS
    Texts,       \* texts of lines
    Word,        \* a word typed into a cell
    Starts,      \* what an editor may be opened on, and for how many actions
    Clipboard,   \* lines that may be pasted
    Columns,     \* cells of the delimiter row
    MaxLines, MaxIndent, MaxHead, MaxCell

ASSUME EditorAssumption ==
    /\ Columns \in Nat \ {0}
    /\ \A s \in Starts : isTable(s.grid, Columns) /\ s.left \in Nat
    /\ None \notin Texts

VARIABLES
    lines,    \* the lines of the document
    grid,     \* the rows of its table
    locked,   \* the lock for reading
    wired,    \* whether the cells shown were built editable
    cell,     \* the cell being edited: its place, range, source and text
    stop,     \* where in the source of the table the cursor is, Away elsewhere
    left      \* actions still to come

vars == <<lines, grid, locked, wired, cell, stop, left>>
Away == -1
NoCell == [at |-> <<0, 0>>, from |-> 0, to |-> 0, raw |-> <<>>, text |-> <<>>]

Shown(g) == isTable(g, Columns) /\ cells(g[1]) # <<>>
shown == Shown(grid) /\ stop = Away

Init ==
    /\ \E s \in Starts : lines = s.lines /\ grid = s.grid /\ locked = s.locked /\ left = s.left
    /\ wired = ~locked
    /\ cell = NoCell
    /\ stop = Away

Act == left > 0 /\ left' = left - 1
Fits(ls) ==
    /\ Len(ls) <= MaxLines
    /\ \A k \in DOMAIN ls : ls[k].indent <= MaxIndent /\ Len(ls[k].head) <= MaxHead

-------------------------------------------------------------------------------
(* The lines.  A line that is written moves the table under it, which is   *)
(* then built anew; an edit that keeps the length may leave it alone.      *)

Rewrite(ls, keepsLength) ==
    /\ Act
    /\ ~locked /\ cell = NoCell /\ stop = Away
    /\ Fits(ls)
    /\ lines' = ls
    /\ IF ls = lines THEN wired' = wired
       ELSE IF keepsLength THEN wired' \in {wired, TRUE} ELSE wired' = TRUE
    /\ UNCHANGED <<grid, locked, cell, stop>>

Enter(k) == continues(lines[k]) /\ Rewrite(continueList(lines, k), FALSE)
Tab(k, outdent) == indents(lines, k, outdent) /\ Rewrite(indentListItem(lines, k, outdent), FALSE)
ToggleUnordered(a, b) == Rewrite(toggleUnorderedList(lines, a, b), TRUE)
ToggleOrdered(a, b) == Rewrite(toggleOrderedList(lines, a, b), TRUE)
ToggleTask(a, b) == Rewrite(toggleTaskList(lines, a, b), TRUE)
TogglePrefix(a, b, kind) == Rewrite(toggleLinePrefix(lines, a, b, kind), TRUE)
ClickBox(k) == IsTask(lines[k]) /\ Rewrite(toggledBox(lines, k), TRUE)
InsertCode(k) == ~inFencedCode(lines, k) /\ Rewrite(insertCodeBlock(lines, k), FALSE)

\* A line pasted before line k: what is hit is the pasted line itself.
Paste(k, l) ==
    Rewrite(listResequence(InsertAt(lines, k, l), {k}, {k}), FALSE)

\* Line k deleted whole: the end of the deleted range is looked up in the
\* document without it, any line from there on.
Delete(k, anchor) ==
    /\ Len(lines) > 1
    /\ anchor \in Min({k, Len(lines) - 1}) .. Len(lines) - 1
    /\ Rewrite(listResequence(RemoveAt(lines, k), {anchor}, k .. Len(lines)), FALSE)

SwapLines(ls, k) == [ls EXCEPT ![k] = ls[k + 1], ![k + 1] = ls[k]]
\* Line k moved below the next one.  Longer: the line that goes down is
\* longer than the prefix and the text it passes.
MoveDown(k, longer) ==
    /\ k < Len(lines)
    /\ Rewrite(listResequence(SwapLines(lines, k), {k, k + 1},
                              {k} \cup IF longer THEN {} ELSE {k + 1}), TRUE)
\* Line k + 1 moved above line k.  Longer: the line that goes down is.
MoveUp(k, longer) ==
    /\ k < Len(lines)
    /\ Rewrite(listResequence(SwapLines(lines, k), IF longer THEN {k + 1} ELSE {k, k + 1},
                              {k} \cup IF longer THEN {k + 1} ELSE {}), TRUE)

-------------------------------------------------------------------------------
(* The cells of the rendered table. *)

CellAt(g, at) ==
    LET range == cellEditRange(g, at)
        raw == SubSeq(g[at[1]], range.from, range.to)
    IN  [at |-> at, from |-> range.from, to |-> range.to, raw |-> raw, text |-> raw]

\* Cells stay editable in a table that was built before the lock.
FocusCell(at) ==
    /\ Act
    /\ shown /\ wired /\ cell = NoCell
    /\ at \in Sources(grid)
    /\ cell' = CellAt(grid, at)
    /\ UNCHANGED <<lines, grid, locked, wired, stop>>

TypeInCell(text) ==
    /\ Act
    /\ cell # NoCell
    /\ text # cell.text /\ Len(text) <= MaxCell
    /\ cell' = [cell EXCEPT !.text = text]
    /\ UNCHANGED <<lines, grid, locked, wired, stop>>

commits == cell # NoCell /\ ~locked /\ cell.text # cell.raw
committed == IF commits THEN Written(grid, cell.at[1], cell, cell.text) ELSE grid
\* The table is built anew when a cell is committed.
Commit ==
    /\ Act
    /\ cell # NoCell
    /\ grid' = committed
    /\ wired' = (wired \/ commits)
    /\ UNCHANGED <<lines, locked>>

\* Enter, or a click into the text.
LeaveCell == Commit /\ cell' = NoCell /\ UNCHANGED stop
\* Escape.
CancelCell ==
    /\ Act
    /\ cell # NoCell
    /\ cell' = NoCell
    /\ UNCHANGED <<lines, grid, locked, wired, stop>>
\* Tab and Shift-Tab.
StepCell(direction) ==
    /\ Commit
    /\ LET next == IF Shown(committed) THEN focusNeighborCell(committed, cell.at, direction) ELSE {}
       IN  cell' = IF next = {} THEN NoCell ELSE CellAt(committed, CHOOSE at \in next : TRUE)
    /\ UNCHANGED stop
\* A click on another cell of the table.
ClickCell(at) ==
    /\ Commit
    /\ at \in Sources(grid) \ {cell.at}
    /\ cell' = IF Shown(committed) /\ at \in Sources(committed) THEN CellAt(committed, at) ELSE NoCell
    /\ UNCHANGED stop

-------------------------------------------------------------------------------
(* The source of the table, and the lock. *)

ShowSource ==
    /\ Act
    /\ shown
    /\ grid' = committed
    /\ cell' = NoCell
    /\ wired' = (wired \/ commits)
    /\ stop' = IF Shown(committed) THEN 1 ELSE Away
    /\ UNCHANGED <<lines, locked>>
JumpCell(forward) ==
    /\ Act
    /\ stop # Away
    /\ stop' = jumpTableCell(grid, stop, forward)
    /\ UNCHANGED <<lines, grid, locked, wired, cell>>
\* The table is rendered again, under the lock of now.
LeaveSource ==
    /\ Act
    /\ stop # Away
    /\ stop' = Away
    /\ wired' = ~locked
    /\ UNCHANGED <<lines, grid, locked, cell>>

\* A table that did not change is not rendered again.
SetReadOnly ==
    /\ Act
    /\ locked' = ~locked
    /\ UNCHANGED <<lines, grid, wired, cell, stop>>
\* The table scrolls out of sight and back.
Redraw ==
    /\ Act
    /\ cell = NoCell /\ wired = locked
    /\ wired' = ~locked
    /\ UNCHANGED <<lines, grid, locked, cell, stop>>

Done == left = 0 /\ UNCHANGED vars

AtLine(k) ==
    \/ Enter(k) \/ ClickBox(k) \/ InsertCode(k)
    \/ \E outdent \in BOOLEAN : Tab(k, outdent)
    \/ \E b \in k .. Len(lines) :
          \/ ToggleUnordered(k, b) \/ ToggleOrdered(k, b) \/ ToggleTask(k, b)
          \/ \E kind \in {"heading", "quote"} : TogglePrefix(k, b, kind)
Restructure ==
    \/ \E k \in 1 .. Len(lines), l \in Clipboard : Paste(k, l)
    \/ \E k, anchor \in 1 .. Len(lines) : Delete(k, anchor)
    \/ \E k \in 1 .. Len(lines), longer \in BOOLEAN : MoveDown(k, longer) \/ MoveUp(k, longer)
InTable ==
    \/ \E at \in Sources(grid) : FocusCell(at) \/ ClickCell(at)
    \/ \E text \in {<<>>} \cup {Append(cell.text, x) : x \in {Word, Pipe, Slash}} : TypeInCell(text)
    \/ LeaveCell \/ CancelCell
    \/ \E direction \in {1, -1} : StepCell(direction)
    \/ ShowSource \/ LeaveSource
    \/ \E forward \in BOOLEAN : JumpCell(forward)
Next ==
    \/ \E k \in 1 .. Len(lines) : AtLine(k)
    \/ Restructure \/ InTable
    \/ SetReadOnly \/ Redraw \/ Done
Spec == Init /\ [][Next]_vars

-------------------------------------------------------------------------------
TextOf(ls) == SelectSeq([k \in DOMAIN ls |-> ls[k].text], LAMBDA t : t # None)

\* Lines are well formed, and while a cell is edited, the source range it was
\* given when the table was built still holds what the cell showed (the range
\* of wireEditableCell, against every rebuild of the table).
TypeOK ==
    /\ \A k \in DOMAIN lines :
          /\ lines[k].indent \in 0 .. MaxIndent /\ lines[k].text \in Texts \cup {None}
          /\ \A i \in DOMAIN lines[k].head :
                \/ lines[k].head[i] \in Marks
                \/ lines[k].head[i].kind = "ordered" /\ lines[k].head[i].number \in Nat \ {0}
    /\ locked \in BOOLEAN /\ wired \in BOOLEAN
    /\ stop = Away \/ stop \in 0 .. tableCellStops(grid) + 1
    /\ cell # NoCell =>
          /\ shown /\ wired
          /\ cell.at \in Sources(grid)
          /\ [from |-> cell.from, to |-> cell.to] = cellEditRange(grid, cell.at)
          /\ cell.raw = SubSeq(grid[cell.at[1]], cell.from, cell.to)

\* No command on lists loses, doubles or reorders the text of a line, whatever
\* markers were stacked on it (toggle-mark.js: "text is never destroyed either
\* way"), and nothing at all is written while the editor is locked.
TextsKept ==
    /\ TextOf(lines') # TextOf(lines) => Restructure
    /\ locked => UNCHANGED <<lines, grid>>
\* The texts between the delimiters of a row.
SlotTexts(row) == [n \in DOMAIN Slots(row) |-> SubSeq(row, Slots(row)[n].from, Slots(row)[n].to)]
SlotOf(row, i) == Cardinality({d \in Delimiters(row) : d < i})
\* No backslash in the text escapes a pipe of it or what comes after it, and the
\* source of the cell does not end in an escaped pipe, which no edit reaches.
Separable ==
    /\ LET closed == Append(cell.text, Pipe) IN \A i \in Escapes(closed) : closed[i] # Pipe
    /\ LET row == grid[cell.at[1]] IN row[cell.to + 1] = Pipe => cell.to + 1 \in Delimiters(row)
\* A committed cell changes its own row only; and, in it, its own slot, which
\* then says what was typed, as long as the backslashes of the cell are
\* separable from its pipes.  If they are not, the row may split or two of its
\* cells become one.
GridSurvives ==
    grid' # grid =>
        /\ \A r \in DOMAIN grid \ {cell.at[1]} : grid'[r] = grid[r]
        /\ Separable =>
              LET row == grid[cell.at[1]]
              IN  SlotTexts(grid'[cell.at[1]]) =
                      [SlotTexts(row) EXCEPT ![SlotOf(row, cell.from)] = escapeCellText(cell.text)]
EditsStayInPlace == [][TextsKept /\ GridSurvives]_vars

\* Where every ordered list counts on without a gap, it still does after an
\* item was nested, taken out or pasted: no 4 where a 3 belongs.  The number
\* a list starts with is kept unless its first item is what moves.
NestedRight(k) ==
    LET parsed == Parsed(lines)
    IN  /\ Follows(parsed) => Follows(Parsed(lines'))
        /\ \A j \in 1 .. k - 1 : j = RunFirst(parsed, k) => lines'[j] = lines[j]
PastedRight ==
    Follows(Parsed(lines)) => Follows(Parsed(lines'))
RunsStayNumbered ==
    [][ /\ \A k \in DOMAIN lines :
              (/\ Len(lines') = Len(lines) /\ lines'[k].indent # lines[k].indent
               /\ Begins(lines[k], "ordered")
               /\ \E outdent \in BOOLEAN : Tab(k, outdent)) => NestedRight(k)
        /\ (/\ Len(lines') > Len(lines)
            /\ \E k \in DOMAIN lines, l \in Clipboard :
                  Begins(l, "ordered") /\ ~inFencedCode(lines, k) /\ Paste(k, l)) => PastedRight ]_vars
=============================================================================
