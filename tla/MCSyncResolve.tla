---------------------------- MODULE MCSyncResolve ----------------------------
(* Small instances of SyncResolve: two paths, two or three records. *)
EXTENDS SyncResolve, TLC

CONSTANTS d1, d2, d3, p1, p2, c1, c2

MCIdOrder == <<d1, d2, d3>>
MCPaths == {p1, p2}
MCContents == {c1, c2}

\* Nothing compares two paths or two contents but by equality.
Interchangeable == Permutations(MCPaths) \cup Permutations(MCContents)

\* For the fair specification, which allows no SYMMETRY, the same by hand: one
\* initial state of every four that differ in the names of the paths and of the
\* contents.  Of a store with records the first is at p1 with c1.
Representative ==
    LET kept == {k \in 1 .. Len(IdOrder) : local[IdOrder[k]] # None}
    IN  IF kept = {} THEN remote = NoFiles \/ remote[p1] = c1
        ELSE LET first == CHOOSE k \in kept : \A j \in kept : k <= j
             IN  local[IdOrder[first]] = [path |-> p1, content |-> c1]
MCInit == RInit /\ Representative
MCFairSpec == MCInit /\ [][RNext]_rvars /\ Fairness

\* The state as the rounds and answers see it: no guard and no other variable
\* depends on a history.
Seen == <<backend, local, remote, snap, lastError, round, bounds, asked, target,
          choice, conflict, stage>>
\* What the liveness properties see besides.
SeenAndCrossed == <<Seen, crossed>>

\* The histories as the properties of the safety run use them.
Known == published \cup given \cup unsent
Histories == IF crossed THEN <<Known>> ELSE <<Known, published \cup given, freed>>
SeenAndHistories == <<Seen, Histories>>
=============================================================================
