-------------------------- MODULE MCSyncController --------------------------
(***************************************************************************)
(* A small instance: two repositories, two versions, two operations under  *)
(* way at once.                                                            *)
(***************************************************************************)
EXTENDS SyncController, TLC

CONSTANTS r1, r2, v1, v2, slot1, slot2

MCRepos == {r1, r2}
MCVersions == {v1, v2}
MCSlots == {slot1, slot2}
MCManners == {"calm", "hasty", "fickle"}
MCMaxActs == [m \in MCManners |-> IF m = "calm" THEN 6 ELSE 3]
Symmetry == Permutations(MCSlots) \cup Permutations(MCVersions)
=============================================================================
