------------------------------ MODULE SyncPlan ------------------------------
(***************************************************************************)
(* The pure planner of pey.sync (sync-engine.js): from the last-synced     *)
(* snapshot, the local records and the remote listing, the work of one     *)
(* round.  Everything is keyed by remote path.                             *)
(*                                                                         *)
(* Data is abstracted to what the planner compares.  A record is its path  *)
(* (title and folder chain, sanitized) and its content; a hash is the      *)
(* content it was taken of (no FNV-1a collision); a revision is a git blob *)
(* sha, again a name of the content.  The scope is the one the app passes: *)
(* one markdown collection, whose listed files carry no record id.         *)
(***************************************************************************)
EXTENDS Naturals, Sequences, FiniteSets

CONSTANTS
    Ids,         \* record ids of the documents collection
    Paths,       \* remote paths
    Contents,    \* document contents
    None         \* null: no record, no file, an unknown hash or revision

ASSUME NoneIsNoValue == None \notin Ids \cup Paths \cup Contents

Record == [path : Paths, content : Contents]
Listed == [hash : Contents, rev : Contents \cup {None}]
ASSUME NoneIsNotListed == None \notin Listed
\* A local store, a remote listing, a stored snapshot.
Stores == [Ids -> Record \cup {None}]
Listings == [Paths -> Listed \cup {None}]
SnapEntry == [id : Ids, path : Paths, hash : Contents \cup {None},
              rev : Contents \cup {None}]
Snapshots == Seq(SnapEntry \cup {None})

(***************************************************************************)
(* What planSync indexes before it decides.                                *)
(***************************************************************************)

\* The ids that have a record, and those that travel to path p.
Live(local) == {i \in Ids : local[i] # None}
At(local, p) == {i \in Live(local) : local[i].path = p}

\* Two records that travel to one path: reported, never planned.
collisions(local) == {p \in Paths : \E i, j \in At(local, p) : i # j}

\* The snapshot entry of path p: of several, the first one counts.
\* A null entry is no snapshot entry and is skipped.
HitsAt(snapshot, p) ==
    {k \in 1 .. Len(snapshot) : snapshot[k] # None /\ snapshot[k].path = p}
SnapAt(snapshot, p) ==
    IF HitsAt(snapshot, p) = {}
    THEN None
    ELSE snapshot[CHOOSE k \in HitsAt(snapshot, p) :
                      \A j \in HitsAt(snapshot, p) : k <= j]

(***************************************************************************)
(* The decisions for a path where record i lives with content c; b is the  *)
(* snapshot entry, r the listed file (either may be None), live the ids    *)
(* that have a local record.                                               *)
(***************************************************************************)

(* A definition named ...Bug is the next one with a plausible mistake in it; *)
(* no specification uses it.  PROJECT.json says which property catches it.   *)

\* A taken-over path is pushed whatever became of its former record.
PushesBug(b, i, c, r, live) ==
    \/ /\ r # None /\ b # None
       /\ IF b.id = i THEN c # b.hash /\ r.hash = b.hash ELSE TRUE
    \/ r = None /\ (b = None \/ b.id # i)

\* Local changed alone; took the path over from a record that moved away;
\* or the remote has nothing that belongs to this record.
Pushes(b, i, c, r, live) ==
    \/ /\ r # None /\ b # None
       /\ IF b.id = i THEN c # b.hash /\ r.hash = b.hash ELSE b.id \in live
    \/ r = None /\ (b = None \/ b.id # i)

\* The local change is not looked at.
PullsBug(b, i, c, r) ==
    /\ r # None /\ b # None
    /\ b.id = i /\ r.hash # b.hash

\* Remote changed alone.
Pulls(b, i, c, r) ==
    /\ r # None /\ b # None
    /\ b.id = i /\ c = b.hash /\ r.hash # b.hash

\* An edited record goes with its file.
DropsLocalBug(b, i, c, r) ==
    r = None /\ b # None /\ b.id = i

\* Remote dropped what the device still holds as it was last synced.
DropsLocal(b, i, c, r) ==
    r = None /\ b # None /\ b.id = i /\ c = b.hash

\* Both sides differ from the base, or the base owner vanished.
Asks(b, i, c, r, live) ==
    \/ r # None /\ b = None /\ c # r.hash
    \/ r # None /\ b # None /\ b.id # i /\ b.id \notin live
    \/ /\ r # None /\ b # None /\ b.id = i
       /\ c # b.hash /\ r.hash # b.hash /\ c # r.hash
    \/ r = None /\ b # None /\ b.id = i /\ c # b.hash

(***************************************************************************)
(* The decisions for a path where only the remote has a file.              *)
(***************************************************************************)
Arrives(b) == b = None
DropsRemote(b, r) == b # None /\ r.hash = b.hash
AsksGone(b, r) == b # None /\ r.hash # b.hash

\* The conflict about a file whose record left the path names that record;
\* the listed file has no id to give.
GoneConflict(b, p, r) == [id |-> b.id, path |-> p, local |-> None, remote |-> r]

RemoteOnly(local, remote) ==
    {p \in Paths : At(local, p) = {} /\ remote[p] # None}

\* The ids each decision about a local record falls on.
PushIds(snapshot, local, remote) ==
    {i \in Live(local) : Pushes(SnapAt(snapshot, local[i].path), i,
        local[i].content, remote[local[i].path], Live(local))}
PullIds(snapshot, local, remote) ==
    {i \in Live(local) : Pulls(SnapAt(snapshot, local[i].path), i,
        local[i].content, remote[local[i].path])}
DropIds(snapshot, local, remote) ==
    {i \in Live(local) : DropsLocal(SnapAt(snapshot, local[i].path), i,
        local[i].content, remote[local[i].path])}
AskIds(snapshot, local, remote) ==
    {i \in Live(local) : Asks(SnapAt(snapshot, local[i].path), i,
        local[i].content, remote[local[i].path], Live(local))}

\* The plan of one round.  Conflicts carry either side, None on a
\* delete-vs-change; the pull of a file no record lives at has no id yet.
planSync(snapshot, local, remote) ==
    LET alone == RemoteOnly(local, remote)
        b(p) == SnapAt(snapshot, p)
        at(i) == local[i].path
    IN  [push |-> {[id |-> i, path |-> at(i), hash |-> local[i].content] :
                       i \in PushIds(snapshot, local, remote)},
         pull |-> {[id |-> i, path |-> at(i), hash |-> remote[at(i)].hash,
                    rev |-> remote[at(i)].rev] :
                       i \in PullIds(snapshot, local, remote)}
                  \cup
                  {[id |-> None, path |-> p, hash |-> remote[p].hash,
                    rev |-> remote[p].rev] : p \in {q \in alone : Arrives(b(q))}},
         deleteRemote |-> {[id |-> b(p).id, path |-> p, rev |-> remote[p].rev] :
                               p \in {q \in alone : DropsRemote(b(q), remote[q])}},
         deleteLocal |-> {[id |-> i, path |-> at(i)] :
                              i \in DropIds(snapshot, local, remote)},
         conflicts |-> {[id |-> i, path |-> at(i), local |-> local[i].content,
                         remote |-> remote[at(i)]] :
                            i \in AskIds(snapshot, local, remote)}
                       \cup
                       {GoneConflict(b(p), p, remote[p]) :
                            p \in {q \in alone : AsksGone(b(q), remote[q])}}]

\* What a plan is made of.
PlanType == [push : SUBSET [id : Ids, path : Paths, hash : Contents],
             pull : SUBSET [id : Ids \cup {None}, path : Paths, hash : Contents,
                            rev : Contents \cup {None}],
             deleteRemote : SUBSET [id : Ids, path : Paths, rev : Contents \cup {None}],
             deleteLocal : SUBSET [id : Ids, path : Paths],
             conflicts : SUBSET [id : Ids, path : Paths,
                                 local : Contents \cup {None},
                                 remote : Listed \cup {None}]]

\* Nothing to do: the plan of two sides that agree.
EmptyPlan == [push |-> {}, pull |-> {}, deleteRemote |-> {},
              deleteLocal |-> {}, conflicts |-> {}]

\* A record that left its path is not pending.
snapshotDiffBug(snapshot, local) ==
    LET b(p) == SnapAt(snapshot, p)
    IN  [created |-> {i \in Live(local) : b(local[i].path) = None},
         changed |-> {i \in Live(local) :
                          /\ b(local[i].path) # None
                          /\ b(local[i].path).hash # local[i].content},
         deleted |-> {}]

\* What the dirty dot compares: the snapshot against local state alone.
snapshotDiff(snapshot, local) ==
    LET b(p) == SnapAt(snapshot, p)
    IN  [created |-> {i \in Live(local) : b(local[i].path) = None},
         changed |-> {i \in Live(local) :
                          /\ b(local[i].path) # None
                          /\ b(local[i].path).hash # local[i].content},
         deleted |-> {p \in Paths : b(p) # None /\ At(local, p) = {}}]

hasPendingChanges(snapshot, local) ==
    snapshotDiff(snapshot, local) # [created |-> {}, changed |-> {}, deleted |-> {}]
=============================================================================
