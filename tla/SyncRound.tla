----------------------------- MODULE SyncRound ------------------------------
(***************************************************************************)
(* syncNow of pey.sync, await by await: collect the local records, list    *)
(* the remote, read the files the revision shortcut does not cover, plan,  *)
(* apply (pushes, pulls, remote deletions, local deletions), finalize.     *)
(* Between any two steps other devices write to the repository, the user   *)
(* may edit, a request may fail or its answer be lost, and the tab may be  *)
(* closed.  A round that does not finish leaves no record of itself but    *)
(* the error text: the next one starts again from the stored snapshot.     *)
(*                                                                         *)
(* A file's revision is its git blob sha, so it names the content: remote  *)
(* maps a path to the content of its file, and a revision is a content.    *)
(***************************************************************************)
EXTENDS SyncPlan

CONSTANTS
    IdOrder,            \* the order in which storage returns the records
    Backends,           \* kinds of backend that may be configured
    EditsDuringRound,   \* whether the user changes records while a round runs
    SharedPaths,        \* whether two records may travel to one path
    MaxEdits,           \* bound: changes the user makes
    MaxForeign,         \* bound: changes other devices make
    MaxFailures         \* bound: failed requests, lost answers, closed tabs

ASSUME IdOrderNamesIds ==
    /\ IdOrder \in Seq(Ids)
    /\ \A i \in Ids : \E k \in 1 .. Len(IdOrder) : IdOrder[k] = i
ASSUME BoundsAreNaturals ==
    /\ MaxEdits \in Nat /\ MaxForeign \in Nat /\ MaxFailures \in Nat
    /\ EditsDuringRound \in BOOLEAN /\ SharedPaths \in BOOLEAN
ASSUME BackendsKnown == Backends \subseteq {"git", "gitlab"}

VARIABLES
    backend,    \* sync_backends: the kind of the configured backend
    local,      \* documents collection: id -> record or None
    remote,     \* repository: path -> content or None
    snap,       \* sync_state.snapshot
    lastError,  \* sync_state.lastError: a code or None
    pc,         \* idle, list, hash, apply
    mine,       \* local records as this round collected them
    listing,    \* revisions as this round listed them
    toHash,     \* listed paths whose file is still to be read
    hashes,     \* path -> hash the round plans with, None if no plan entry
    texts,      \* path -> content read this round, None if not read
    revs,       \* path -> newest revision the round knows
    todo,       \* the plan, less what is applied
    readback,   \* gitlab: path written whose new revision is not read yet
    edits, foreign, failures,   \* how much of each bound is used
    published   \* history: every <<path, content>> the remote ever held

stored == <<backend, local, snap, lastError>>
round == <<pc, mine, listing, toHash, hashes, texts, revs, todo, readback>>
bounds == <<edits, foreign, failures>>
vars == <<backend, local, remote, snap, lastError, pc, mine, listing, toHash, hashes,
          texts, revs, todo, readback, edits, foreign, failures, published>>

Codes == {"SYNC_PATH_COLLISION", "SYNC_CONCURRENT_CHANGE", "SYNC_NETWORK_FAILED"}
Files == [Paths -> Contents \cup {None}]
NoFiles == [p \in Paths |-> None]
NoRecords == [i \in Ids |-> None]

Holds(files) == {<<p, files[p]>> : p \in {q \in Paths : files[q] # None}}

\* A minted id (crypto.randomUUID) is new to the store, the snapshot and
\* the running round.
Fresh == {i \in Ids : /\ local[i] = None /\ mine[i] = None
                      /\ \A k \in 1 .. Len(snap) : snap[k] # None => snap[k].id # i}

\* advanceSnapshot: one entry per local record, in storage order, with the
\* revision the round knows for its path.  An id without a record has None in
\* its slot, where the code has no slot: every reader skips it.
Entries(records, known) ==
    [k \in 1 .. Len(IdOrder) |->
        IF records[IdOrder[k]] = None THEN None
        ELSE [id |-> IdOrder[k], path |-> records[IdOrder[k]].path,
              hash |-> records[IdOrder[k]].content,
              rev |-> known[records[IdOrder[k]].path]]]

\* The round looks up its shortcut in a map built over the snapshot: of
\* several entries for a path the last one counts.
LastAt(p) ==
    IF HitsAt(snap, p) = {} THEN None
    ELSE snap[CHOOSE k \in HitsAt(snap, p) : \A j \in HitsAt(snap, p) : j <= k]
\* The revision is not compared.
ShortcutBug(p) == remote[p] # None /\ LastAt(p) # None
Shortcut(p) ==
    /\ remote[p] # None /\ LastAt(p) # None
    /\ LastAt(p).rev = remote[p]

Init ==
    /\ backend \in Backends
    /\ local \in {l \in Stores : collisions(l) = {}}
    /\ remote \in Files
    /\ snap = <<>> /\ lastError = None
    /\ pc = "idle" /\ mine = NoRecords /\ listing = NoFiles /\ toHash = {}
    /\ hashes = NoFiles /\ texts = NoFiles /\ revs = NoFiles
    /\ todo = EmptyPlan /\ readback = None
    /\ edits = 0 /\ foreign = 0 /\ failures = 0
    /\ published = Holds(remote)
-----------------------------------------------------------------------------
(* captureRoundPlan *)

Collect ==
    /\ pc = "idle"
    /\ pc' = "list" /\ mine' = local
    /\ UNCHANGED <<stored, remote, listing, toHash, hashes, texts, revs, todo,
                   readback, bounds, published>>

\* The listing, and the hash of every file whose revision is the one hashed
\* last time.
List ==
    /\ pc = "list"
    /\ pc' = "hash" /\ listing' = remote /\ revs' = remote
    /\ hashes' = [p \in Paths |-> IF Shortcut(p) THEN LastAt(p).hash ELSE None]
    /\ toHash' = {p \in Paths : remote[p] # None /\ ~Shortcut(p)}
    /\ UNCHANGED <<stored, remote, mine, texts, todo, readback, bounds, published>>

\* The revision that came with the content is dropped.
HashFileBug(p) ==
    /\ pc = "hash" /\ p \in toHash
    /\ toHash' = toHash \ {p}
    /\ hashes' = [hashes EXCEPT ![p] = remote[p]]
    /\ texts' = [texts EXCEPT ![p] = remote[p]]
    /\ UNCHANGED <<stored, remote, pc, mine, listing, revs, todo, readback,
                   bounds, published>>

\* hashRemoteFile.  A file that went away since the listing is no plan
\* entry, yet revs keeps the listed revision.
HashFile(p) ==
    /\ pc = "hash" /\ p \in toHash
    /\ toHash' = toHash \ {p}
    /\ hashes' = [hashes EXCEPT ![p] = remote[p]]
    /\ texts' = [texts EXCEPT ![p] = remote[p]]
    /\ revs' = [revs EXCEPT ![p] = IF remote[p] = None THEN @ ELSE remote[p]]
    /\ UNCHANGED <<stored, remote, pc, mine, listing, todo, readback, bounds,
                   published>>

\* The plan outlives its round.
LeaveBug ==
    /\ pc' = "idle" /\ mine' = NoRecords /\ listing' = NoFiles /\ toHash' = {}
    /\ hashes' = NoFiles /\ texts' = NoFiles /\ revs' = NoFiles
    /\ readback' = None /\ UNCHANGED todo

\* The round is over: its context is garbage.
Leave ==
    /\ pc' = "idle" /\ mine' = NoRecords /\ listing' = NoFiles /\ toHash' = {}
    /\ hashes' = NoFiles /\ texts' = NoFiles /\ revs' = NoFiles
    /\ todo' = EmptyPlan /\ readback' = None

\* The throw of a round: recordError keeps the rest of sync_state.
Throw(code) == Leave /\ lastError' = code /\ UNCHANGED <<backend, snap>>

ListedEntries ==
    [p \in Paths |-> IF hashes[p] = None THEN None
                     ELSE [hash |-> hashes[p], rev |-> listing[p]]]

Plan ==
    /\ pc = "hash" /\ toHash = {}
    /\ collisions(mine) = {}
    /\ pc' = "apply" /\ todo' = planSync(snap, mine, ListedEntries)
    /\ UNCHANGED <<stored, remote, mine, listing, toHash, hashes, texts, revs,
                   readback, bounds, published>>

Collide ==
    /\ pc = "hash" /\ toHash = {}
    /\ collisions(mine) # {}
    /\ Throw("SYNC_PATH_COLLISION")
    /\ UNCHANGED <<local, remote, bounds, published>>
-----------------------------------------------------------------------------
(* applyRoundPlan *)

Write(p, content) ==
    /\ remote' = [remote EXCEPT ![p] = content]
    /\ published' = published \cup {<<p, content>>}

\* The write forces its way.
MayWriteBug(p) == p \in Paths

\* A write names the revision it replaces, none for a new file.  Git may
\* also accept a named revision for a file that is gone; gitlab never does.
MayWrite(p) == remote[p] = revs[p] \/ (remote[p] = None /\ backend = "git")
MayRefuse(p) == remote[p] # revs[p]

Pushing(item) == pc = "apply" /\ readback = None /\ item \in todo.push

\* Git answers the write with the new revision.
Push(item) ==
    /\ Pushing(item) /\ MayWrite(item.path)
    /\ Write(item.path, mine[item.id].content)
    /\ todo' = [todo EXCEPT !.push = @ \ {item}]
    /\ IF backend = "git"
       THEN /\ revs' = [revs EXCEPT ![item.path] = mine[item.id].content]
            /\ UNCHANGED readback
       ELSE /\ readback' = item.path
            /\ UNCHANGED revs
    /\ UNCHANGED <<stored, pc, mine, listing, toHash, hashes, texts, bounds>>

\* Gitlab does not: the adapter reads the file back for its revision.
ReadBack ==
    /\ readback # None
    /\ revs' = [revs EXCEPT ![readback] =
                   IF remote[readback] = None THEN @ ELSE remote[readback]]
    /\ readback' = None
    /\ UNCHANGED <<stored, remote, pc, mine, listing, toHash, hashes, texts, todo,
                   bounds, published>>

PushRefused(item) ==
    /\ Pushing(item) /\ MayRefuse(item.path)
    /\ Throw("SYNC_CONCURRENT_CHANGE")
    /\ UNCHANGED <<local, remote, bounds, published>>

\* The file is written, the answer is lost.
PushUnanswered(item) ==
    /\ Pushing(item) /\ MayWrite(item.path)
    /\ failures < MaxFailures /\ failures' = failures + 1
    /\ Write(item.path, mine[item.id].content)
    /\ Throw("SYNC_NETWORK_FAILED")
    /\ UNCHANGED <<local, edits, foreign>>

Pulling(item) ==
    /\ pc = "apply" /\ readback = None
    /\ todo.push = {} /\ item \in todo.pull
TextOf(p) == IF texts[p] # None THEN texts[p] ELSE remote[p]

\* The pulled record replaces the one at its path, or is a new one; a file
\* that has gone is skipped.
Pull(item) ==
    /\ Pulling(item)
    /\ IF TextOf(item.path) = None
       THEN UNCHANGED local
       ELSE \E i \in IF item.id = None THEN Fresh ELSE {item.id} :
                local' = [local EXCEPT ![i] = [path |-> item.path,
                                               content |-> TextOf(item.path)]]
    /\ todo' = [todo EXCEPT !.pull = @ \ {item}]
    /\ UNCHANGED <<backend, remote, snap, lastError, pc, mine, listing, toHash, hashes,
                   texts, revs, readback, bounds, published>>

Deleting(item) ==
    /\ pc = "apply" /\ readback = None
    /\ todo.push = {} /\ todo.pull = {} /\ item \in todo.deleteRemote

DeleteRemote(item) ==
    /\ Deleting(item) /\ remote[item.path] \in {item.rev, None}
    /\ remote' = [remote EXCEPT ![item.path] = None]
    /\ todo' = [todo EXCEPT !.deleteRemote = @ \ {item}]
    /\ UNCHANGED <<stored, pc, mine, listing, toHash, hashes, texts, revs,
                   readback, bounds, published>>

\* Gitlab reports the changed file as such, git as a failed request.
DeleteRefused(item) ==
    /\ Deleting(item) /\ remote[item.path] \notin {item.rev, None}
    /\ Throw(IF backend = "gitlab" THEN "SYNC_CONCURRENT_CHANGE"
             ELSE "SYNC_NETWORK_FAILED")
    /\ UNCHANGED <<local, remote, bounds, published>>

DeleteUnanswered(item) ==
    /\ Deleting(item) /\ remote[item.path] = item.rev
    /\ failures < MaxFailures /\ failures' = failures + 1
    /\ remote' = [remote EXCEPT ![item.path] = None]
    /\ Throw("SYNC_NETWORK_FAILED")
    /\ UNCHANGED <<local, edits, foreign, published>>

DeleteLocal(item) ==
    /\ pc = "apply" /\ readback = None
    /\ todo.push = {} /\ todo.pull = {} /\ todo.deleteRemote = {}
    /\ item \in todo.deleteLocal
    /\ local' = [local EXCEPT ![item.id] = None]
    /\ todo' = [todo EXCEPT !.deleteLocal = @ \ {item}]
    /\ UNCHANGED <<backend, remote, snap, lastError, pc, mine, listing, toHash, hashes,
                   texts, revs, readback, bounds, published>>
-----------------------------------------------------------------------------
(* finalizeRound, and how a round ends otherwise *)

Applied ==
    /\ pc = "apply" /\ readback = None
    /\ todo.push = {} /\ todo.pull = {}
    /\ todo.deleteRemote = {} /\ todo.deleteLocal = {}

\* The snapshot advances over open conflicts.
FinalizeCleanBug ==
    /\ Applied
    /\ snap' = Entries(local, revs) /\ lastError' = None
    /\ Leave
    /\ UNCHANGED <<backend, local, remote, bounds, published>>

\* Clean completion: the store is collected again for the snapshot.
FinalizeClean ==
    /\ Applied /\ todo.conflicts = {}
    /\ snap' = Entries(local, revs) /\ lastError' = None
    /\ Leave
    /\ UNCHANGED <<backend, local, remote, bounds, published>>

FinalizeAsking ==
    /\ Applied /\ todo.conflicts # {}
    /\ Leave
    /\ UNCHANGED <<stored, remote, bounds, published>>

\* A request fails before it has an effect.
Fail ==
    /\ pc # "idle"
    /\ failures < MaxFailures /\ failures' = failures + 1
    /\ Throw("SYNC_NETWORK_FAILED")
    /\ UNCHANGED <<local, remote, edits, foreign, published>>

\* The tab is closed or reloaded: not even the error is stored.
Reload ==
    /\ pc # "idle"
    /\ failures < MaxFailures /\ failures' = failures + 1
    /\ Leave
    /\ UNCHANGED <<stored, remote, edits, foreign, published>>
-----------------------------------------------------------------------------
(* The user and the other devices *)

UserMay == edits < MaxEdits /\ (pc = "idle" \/ EditsDuringRound)
PathFree(p) == SharedPaths \/ At(local, p) = {}

Change(i, record) ==
    /\ UserMay /\ edits' = edits + 1
    /\ local' = [local EXCEPT ![i] = record]
    /\ UNCHANGED <<backend, remote, snap, lastError, round, foreign, failures, published>>

Create(i, p, c) == i \in Fresh /\ PathFree(p) /\ Change(i, [path |-> p, content |-> c])
Edit(i, c) ==
    /\ local[i] # None /\ local[i].content # c
    /\ Change(i, [path |-> local[i].path, content |-> c])
\* A rename or a move to another folder.
Move(i, p) ==
    /\ local[i] # None /\ local[i].path # p /\ PathFree(p)
    /\ Change(i, [path |-> p, content |-> local[i].content])
Delete(i) == local[i] # None /\ Change(i, None)

ForeignWrite(p, c) ==
    /\ foreign < MaxForeign /\ foreign' = foreign + 1
    /\ remote[p] # c /\ Write(p, c)
    /\ UNCHANGED <<stored, round, edits, failures>>
ForeignDelete(p) ==
    /\ foreign < MaxForeign /\ foreign' = foreign + 1
    /\ remote[p] # None /\ remote' = [remote EXCEPT ![p] = None]
    /\ UNCHANGED <<stored, round, edits, failures, published>>
-----------------------------------------------------------------------------
Capture == Collect \/ List \/ (\E p \in Paths : HashFile(p)) \/ Plan \/ Collide
Apply ==
    \/ \E item \in todo.push : Push(item) \/ PushRefused(item)
    \/ ReadBack
    \/ \E item \in todo.pull : Pull(item)
    \/ \E item \in todo.deleteRemote : DeleteRemote(item) \/ DeleteRefused(item)
    \/ \E item \in todo.deleteLocal : DeleteLocal(item)
Finalize == FinalizeClean \/ FinalizeAsking
Failure ==
    \/ \E item \in todo.push : PushUnanswered(item)
    \/ \E item \in todo.deleteRemote : DeleteUnanswered(item)
    \/ Fail
    \/ Reload
User == \E i \in Ids :
    \/ \E p \in Paths, c \in Contents : Create(i, p, c)
    \/ \E c \in Contents : Edit(i, c)
    \/ \E p \in Paths : Move(i, p)
    \/ Delete(i)
Others == \E p \in Paths : ForeignDelete(p) \/ \E c \in Contents : ForeignWrite(p, c)

RoundStep == Capture \/ Apply \/ Finalize
Next == RoundStep \/ Failure \/ User \/ Others

Spec == Init /\ [][Next]_vars
-----------------------------------------------------------------------------
\* The state a round can be in: a round holds context exactly while it runs.
TypeOK ==
    /\ backend \in Backends
    /\ local \in Stores /\ mine \in Stores
    /\ remote \in Files /\ listing \in Files
    /\ hashes \in Files /\ texts \in Files /\ revs \in Files
    /\ snap \in Snapshots
    /\ lastError \in Codes \cup {None}
    /\ pc \in {"idle", "list", "hash", "apply"}
    /\ toHash \subseteq Paths
    /\ todo \in PlanType
    /\ readback \in Paths \cup {None}
    /\ pc = "idle" => mine = NoRecords /\ listing = NoFiles /\ revs = NoFiles
    /\ pc \in {"idle", "list"} => hashes = NoFiles /\ texts = NoFiles
    /\ pc # "hash" => toHash = {}
    /\ pc # "apply" => todo = EmptyPlan /\ readback = None
    /\ edits \in Nat /\ foreign \in Nat /\ failures \in Nat
    /\ published \subseteq Paths \X Contents

SyncMoves == edits' = edits /\ foreign' = foreign

\* The sync never removes or replaces a local record whose content was not,
\* at that path, in the repository: what a pull or a local deletion drops
\* can be read back from its history ("data is never lost").
NoLocalVersionLost ==
    [][SyncMoves => \A i \in Ids :
          local[i] # None /\ local'[i] # local[i] =>
              <<local[i].path, local[i].content>> \in published]_vars

\* A record of another document sits where the snapshot has its entry.
TakenOver(p) == \E i \in At(mine, p) :
    SnapAt(snap, p) # None /\ SnapAt(snap, p).id # i

\* The file was planned with another content than the one whose revision was
\* listed: another device changed it between the listing and the read of it, or
\* (gitlab) the snapshot pins for its content the revision of another.  The plan
\* goes by that content, the deletion (or, if the file was gone, the push) names
\* the revision listed.
PlannedOtherwise(p) == hashes[p] # listing[p]

\* A step of the sync that replaces or deletes the file at p without this
\* device having had its content as the base of p.
OverwritesUnseen(p) ==
    /\ SyncMoves /\ remote[p] # None /\ remote'[p] # remote[p]
    /\ ~(SnapAt(snap, p) # None /\ SnapAt(snap, p).hash = remote[p])

\* A change of another device that this device has never seen is never
\* replaced or deleted, but for the two ways round the revision check that
\* are named (a path taken over, a file planned with another content).
RemoteOverwriteKnown ==
    [][\A p \in Paths : OverwritesUnseen(p) => TakenOver(p) \/ PlannedOtherwise(p)]_vars

\* An entry of the snapshot is a version both sides have had: its content
\* was in the repository, at its path.
BaseWasShared ==
    \A k \in 1 .. Len(snap) :
        snap[k] # None => <<snap[k].path, snap[k].hash>> \in published

\* On git a pinned revision is the revision of the hashed content, so the
\* shortcut may stand in for reading the file.  (Gitlab pins what it reads
\* back after the write, which may be the write of another device.)
RevNamesHash ==
    backend = "git" => \A k \in 1 .. Len(snap) :
        snap[k] # None => snap[k].rev \in {None, snap[k].hash}

\* The plan a round would make if it ran now, undisturbed.
PlanNow == planSync(snap, local,
    [p \in Paths |-> IF remote[p] = None THEN None
                     ELSE [hash |-> remote[p], rev |-> remote[p]]])

Mirrored(p) == {local[i].content : i \in At(local, p)} =
               IF remote[p] = None THEN {} ELSE {remote[p]}
=============================================================================
