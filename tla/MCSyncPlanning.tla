--------------------------- MODULE MCSyncPlanning ---------------------------
(* Every input over three records, two paths and two contents. *)
EXTENDS SyncPlanning

CONSTANTS d1, d2, d3, p1, p2, c1, c2

MCIds == {d1, d2, d3}
MCPaths == {p1, p2}
MCContents == {c1, c2}

\* Up to two entries, known or unknown hash; revisions are not compared by
\* the planner, so an entry has none.
MCStoredSnapshots ==
    LET E == {[id |-> i, path |-> r, hash |-> h, rev |-> None] :
                 i \in MCIds, r \in MCPaths, h \in MCContents \cup {None}}
    IN  UNION {[1 .. n -> E] : n \in 0 .. 2}
=============================================================================
