---------------------------- MODULE MCSyncRound -----------------------------
(* Small instances of SyncRound: two paths, two or three records. *)
EXTENDS SyncRound, TLC

CONSTANTS d1, d2, d3, p1, p2, c1, c2

MCIdOrder == <<d1, d2, d3>>
MCPaths == {p1, p2}
MCContents == {c1, c2}

\* Nothing compares two paths or two contents but by equality.
Interchangeable == Permutations(MCPaths) \cup Permutations(MCContents)
=============================================================================
