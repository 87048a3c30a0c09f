---------------------------- MODULE SyncPlanning ----------------------------
(***************************************************************************)
(* One call of planSync on any stored snapshot, any local store without a  *)
(* path collision (captureRoundPlan throws on one) and any remote listing. *)
(* The snapshot is not assumed to be one a clean round wrote: resolutions, *)
(* migrations and a changed scope leave others behind.                     *)
(***************************************************************************)
EXTENDS SyncPlan

CONSTANT StoredSnapshots    \* the snapshots the call is tried with

ASSUME StoredAreSnapshots == StoredSnapshots \subseteq Snapshots

VARIABLES snapshot, local, remote,
          plan                        \* None until the call returns
vars == <<snapshot, local, remote, plan>>

\* The plan carries only ids, paths and hashes of its inputs: what
\* applyRoundPlan and resolveConflict dereference exists.
TypeOK ==
    /\ snapshot \in StoredSnapshots
    /\ local \in Stores
    /\ remote \in Listings
    /\ plan \in PlanType \cup {None}

Init ==
    /\ snapshot \in StoredSnapshots
    /\ local \in Stores /\ collisions(local) = {}
    /\ remote \in Listings
    /\ plan = None

Plan ==
    /\ plan = None
    /\ plan' = planSync(snapshot, local, remote)
    /\ UNCHANGED <<snapshot, local, remote>>

Spec == Init /\ [][Plan]_vars
-----------------------------------------------------------------------------
\* What each side holds at path p, and the base both are compared with.
LocalAt(p) == {local[i].content : i \in At(local, p)}
RemoteAt(p) == IF remote[p] = None THEN {} ELSE {remote[p].hash}
Base(p) == SnapAt(snapshot, p)

\* The path still belongs to the record it was synced for.
OwnerStable(p) == Base(p) = None \/ At(local, p) \subseteq {Base(p).id}

\* A side that holds what the snapshot recorded; an unknown base hash
\* (legacy migration) matches nothing.
Unmoved(side, p) ==
    IF Base(p) = None THEN side = {}
    ELSE Base(p).hash # None /\ side = {Base(p).hash}

KindsAt(p) ==
    {k \in {"push", "pull", "deleteRemote", "deleteLocal", "conflicts"} :
        \E item \in plan[k] : item.path = p}

\* Three-way merge of one path: agreement is nothing to do, one moved side
\* wins, two moved sides ask.
MergeOf(p) ==
    IF LocalAt(p) = RemoteAt(p) THEN {}
    ELSE IF Unmoved(LocalAt(p), p)
         THEN IF RemoteAt(p) = {} THEN {"deleteLocal"} ELSE {"pull"}
    ELSE IF Unmoved(RemoteAt(p), p)
         THEN IF LocalAt(p) = {} THEN {"deleteRemote"} ELSE {"push"}
    ELSE {"conflicts"}

\* The nine nested branches of planSync are the three-way merge, at every
\* path that still belongs to its record: a side is overwritten or deleted
\* only if it did not move since the last sync, and every double move asks
\* ("never guesses a conflict away"), even with an unknown base hash.
PlanIsThreeWayMerge ==
    plan # None => \A p \in Paths : OwnerStable(p) => KindsAt(p) = MergeOf(p)

\* A path another record took over is written only when the record it was
\* synced for still lives elsewhere or the file is gone; otherwise it asks.
\* Either way no local record is touched and no file is deleted.
TakeoverPushesOrAsks ==
    plan # None => \A p \in Paths : ~OwnerStable(p) =>
        KindsAt(p) = IF remote[p] = None \/ Base(p).id \in Live(local)
                     THEN {"push"} ELSE {"conflicts"}

\* The remote as the last clean round left it.
RemoteQuiet == \A p \in Paths : Unmoved(RemoteAt(p), p)

\* The records that took a path over from another record and hold the very
\* text the snapshot has there: snapshotDiff compares the hash, planSync asks
\* for the owner first.
Unseen == {i \in Live(local) : LET b == Base(local[i].path) IN
               b # None /\ b.id # i /\ b.hash = local[i].content}

\* When the remote did not move, the dirty dot's diff is the next round's
\* work but for the unseen takeovers: what it calls created or changed is
\* pushed, or asked about where the path was taken over, what it calls deleted
\* is deleted, and nothing else is planned.  It never invents work, and hides
\* exactly the pushes and questions of Unseen (so "this diff is exactly the
\* local pending set", sync-engine.js:80-83, fails there alone).
PendingMatchesPlan ==
    plan # None /\ RemoteQuiet =>
        LET diff == snapshotDiff(snapshot, local)
            asked == {item.id : item \in plan.conflicts}
        IN  /\ {item.id : item \in plan.push} \cup asked
                   = diff.created \cup diff.changed \cup Unseen
            /\ \A i \in asked : ~OwnerStable(local[i].path)
            /\ {item.path : item \in plan.deleteRemote} = diff.deleted
            /\ plan.pull = {} /\ plan.deleteLocal = {}
            /\ hasPendingChanges(snapshot, local) \/ Unseen # {} <=> plan # EmptyPlan
=============================================================================
