--------------------------- MODULE SyncRound_proofs ---------------------------
(***************************************************************************)
(* What holds of rounds for all sets of records, paths and contents and    *)
(* for all bounds: the types, and, as long as the user changes nothing     *)
(* while a round runs, that no local version is lost; then what a round    *)
(* overwrites, and that what it pins of a file fits together.  The lemmas  *)
(* that resolutions need, too, are stated for any set of known versions;   *)
(* the resolutions follow.                                                 *)
(***************************************************************************)
EXTENDS SyncResolve, SyncPlan_proofs, SequenceTheorems

\* The largest of a bounded set of naturals is the least distance to the bound.
LEMMA GreatestBelow ==
    ASSUME NEW n \in Nat, NEW T \in SUBSET (0 .. n), T # {}
    PROVE  \E k \in T : \A j \in T : j <= k
<1> DEFINE D == {n - k : k \in T}
<1>1. D \in SUBSET Nat /\ D # {}
  <2>1. PICK k \in T : TRUE
    OBVIOUS
  <2>2. n - k \in D
    BY <2>1
  <2>3. \A m \in T : n - m \in Nat
    OBVIOUS
  <2> QED BY <2>2, <2>3
<1>2. PICK d \in D : \A e \in D : d <= e
  BY <1>1, LeastNatural
<1>3. PICK k \in T : d = n - k
  OBVIOUS
<1>4. \A j \in T : n - j \in D
  OBVIOUS
<1>5. \A j \in T : j <= k
  BY <1>2, <1>3, <1>4
<1> QED BY <1>5

\* The entry the revision shortcut looks at is an entry of the snapshot.
LEMMA LastAtFound ==
    ASSUME snap \in Snapshots, NEW p, LastAt(p) # None
    PROVE  \E k \in 1 .. Len(snap) :
               snap[k] = LastAt(p) /\ snap[k] \in SnapEntry /\ snap[k].path = p
<1> DEFINE H == HitsAt(snap, p)
<1>1. H # {} /\ H \in SUBSET (0 .. Len(snap)) /\ Len(snap) \in Nat
  BY DEF LastAt, HitsAt, Snapshots
<1>2. PICK k \in H : \A j \in H : j <= k
  BY <1>1, GreatestBelow
<1>3. \E m \in H : LastAt(p) = snap[m]
  BY <1>1, <1>2 DEF LastAt
<1> QED BY <1>3 DEF HitsAt, Snapshots

\* The snapshot a clean round writes: an entry per record.
LEMMA EntriesType ==
    ASSUME NEW records \in Stores, NEW known \in Files
    PROVE  /\ Entries(records, known) \in Snapshots
           /\ Len(Entries(records, known)) = Len(IdOrder)
           /\ \A k \in 1 .. Len(IdOrder) :
                 LET e == Entries(records, known)[k]
                 IN  e # None => /\ IdOrder[k] \in Ids /\ records[IdOrder[k]] # None
                                 /\ e.path = records[IdOrder[k]].path
                                 /\ e.hash = records[IdOrder[k]].content
<1> DEFINE n == Len(IdOrder)
           E == Entries(records, known)
<1>1. n \in Nat /\ \A k \in 1 .. n : IdOrder[k] \in Ids
  BY IdOrderNamesIds
<1>2. \A k \in 1 .. n : records[IdOrder[k]] # None => records[IdOrder[k]] \in Record
  BY <1>1 DEF Stores
<1>3. \A k \in 1 .. n : E[k] = IF records[IdOrder[k]] = None THEN None
          ELSE [id |-> IdOrder[k], path |-> records[IdOrder[k]].path,
                hash |-> records[IdOrder[k]].content,
                rev |-> known[records[IdOrder[k]].path]]
  BY DEF Entries
<1>4. \A k \in 1 .. n : E[k] \in SnapEntry \cup {None}
  <2> SUFFICES ASSUME NEW k \in 1 .. n, records[IdOrder[k]] # None
               PROVE  E[k] \in SnapEntry
    BY <1>3
  <2>1. /\ IdOrder[k] \in Ids /\ records[IdOrder[k]].path \in Paths
        /\ records[IdOrder[k]].content \in Contents
    BY <1>1, <1>2 DEF Record
  <2>2. known[records[IdOrder[k]].path] \in Contents \cup {None}
    BY <2>1 DEF Files
  <2>3. E[k] = [id |-> IdOrder[k], path |-> records[IdOrder[k]].path,
                hash |-> records[IdOrder[k]].content,
                rev |-> known[records[IdOrder[k]].path]]
    BY <1>3
  <2> HIDE DEF E
  <2> QED BY <2>1, <2>2, <2>3 DEF SnapEntry
<1>5. E \in [1 .. n -> SnapEntry \cup {None}]
  BY <1>1, <1>4 DEF Entries
<1>6. E \in Snapshots /\ Len(E) = n
  <2>1. Snapshots = UNION {[1 .. m -> SnapEntry \cup {None}] : m \in Nat}
    BY SeqDef DEF Snapshots
  <2>2. E \in Snapshots
    BY <1>1, <1>5, <2>1
  <2>3. DOMAIN E = 1 .. n
    BY <1>5
  <2> HIDE DEF E
  <2>4. Len(E) \in Nat /\ DOMAIN E = 1 .. Len(E)
    BY <2>2, LenProperties DEF Snapshots
  <2>5. \A m \in Nat : 1 .. m = 1 .. n => m = n
    <3> TAKE m \in Nat
    <3>1. CASE m < n
      BY <1>1, <3>1
    <3>2. CASE n < m
      BY <1>1, <3>2
    <3> QED BY <1>1, <3>1, <3>2
  <2>6. Len(E) = n
    BY <2>3, <2>4, <2>5
  <2> QED BY <2>2, <2>6
<1>7. ASSUME NEW k \in 1 .. n, E[k] # None
      PROVE  /\ IdOrder[k] \in Ids /\ records[IdOrder[k]] # None
             /\ E[k].path = records[IdOrder[k]].path
             /\ E[k].hash = records[IdOrder[k]].content
  <2>1. records[IdOrder[k]] # None
    BY <1>3, <1>7
  <2>2. E[k] = [id |-> IdOrder[k], path |-> records[IdOrder[k]].path,
                hash |-> records[IdOrder[k]].content,
                rev |-> known[records[IdOrder[k]].path]]
    BY <1>3, <2>1
  <2> HIDE DEF E
  <2> QED BY <1>1, <2>1, <2>2
<1> QED BY <1>6, <1>7

LEMMA ListedEntriesType ==
    ASSUME hashes \in Files, listing \in Files
    PROVE  ListedEntries \in Listings
BY DEF Files, Listings, Listed, ListedEntries

\* An item that is done leaves the plan; the rest of the plan stays.
LEMMA TodoShrinks ==
    ASSUME todo \in PlanType, NEW item
    PROVE  /\ [todo EXCEPT !.push = @ \ {item}] \in PlanType
           /\ [todo EXCEPT !.pull = @ \ {item}] \in PlanType
           /\ [todo EXCEPT !.deleteRemote = @ \ {item}] \in PlanType
           /\ [todo EXCEPT !.deleteLocal = @ \ {item}] \in PlanType
BY DEF PlanType

LEMMA TodoItems ==
    ASSUME todo \in PlanType
    PROVE  /\ \A item \in todo.push : item.id \in Ids /\ item.path \in Paths
           /\ \A item \in todo.pull : item.id \in Ids \cup {None} /\ item.path \in Paths
           /\ \A item \in todo.deleteRemote : item.path \in Paths
           /\ \A item \in todo.deleteLocal : item.id \in Ids
BY DEF PlanType

LEMMA NothingTyped ==
    /\ NoRecords \in Stores /\ NoFiles \in Files /\ EmptyPlan \in PlanType
    /\ EmptyPlan.push = {} /\ EmptyPlan.pull = {} /\ EmptyPlan.deleteRemote = {}
    /\ EmptyPlan.deleteLocal = {} /\ EmptyPlan.conflicts = {}
BY DEF NoRecords, NoFiles, Stores, Files, EmptyPlan, PlanType
-----------------------------------------------------------------------------
\* What a push writes is the record the round collected, at its path.
PushesMine ==
    \A item \in todo.push : mine[item.id] \in Record /\ mine[item.id].path = item.path

TInv == TypeOK /\ PushesMine

\* A round that ends, one way or another, leaves no context.
LEMMA LeaveKeepsTInv ==
    ASSUME TInv, Leave, backend' = backend, local' = local, remote' \in Files,
           snap' \in Snapshots, lastError' \in Codes \cup {None},
           edits' = edits, foreign' = foreign, failures' \in Nat,
           published' \subseteq Paths \X Contents
    PROVE  TInv'
BY NothingTyped DEF TInv, TypeOK, PushesMine, Leave

LEMMA InitTInv == Init => TInv
<1> SUFFICES ASSUME Init PROVE TInv
  OBVIOUS
<1>1. local \in Stores /\ backend \in Backends /\ remote \in Files
  BY DEF Init
<1>2. published \subseteq Paths \X Contents
  BY <1>1 DEF Init, Holds, Files
<1>3. snap \in Snapshots
  BY DEF Init, Snapshots
<1> QED
  BY <1>1, <1>2, <1>3, NothingTyped DEF Init, TInv, TypeOK, PushesMine

LEMMA CaptureKeepsTInv == TInv /\ Capture => TInv'
<1> SUFFICES ASSUME TInv, Capture PROVE TInv'
  OBVIOUS
<1>1. CASE Collect
  <2>1. todo' = EmptyPlan
    BY <1>1 DEF TInv, TypeOK, Collect
  <2> QED
    BY <1>1, <2>1, NothingTyped DEF TInv, TypeOK, PushesMine, Collect, stored, bounds
<1>2. CASE List
  <2>1. \A p \in Paths : LastAt(p) # None => LastAt(p).hash \in Contents \cup {None}
    BY LastAtFound DEF TInv, TypeOK, SnapEntry
  <2>2. hashes' \in Files
    BY <1>2, <2>1 DEF List, Files, Shortcut
  <2> QED
    BY <1>2, <2>2 DEF TInv, TypeOK, PushesMine, List, stored, bounds
<1>3. ASSUME NEW p \in Paths, HashFile(p) PROVE TInv'
  <2>1. hashes' \in Files /\ texts' \in Files /\ revs' \in Files
    BY <1>3 DEF TInv, TypeOK, HashFile, Files
  <2> QED
    BY <1>3, <2>1 DEF TInv, TypeOK, PushesMine, HashFile, stored, bounds
<1>4. CASE Plan
  <2>1. ListedEntries \in Listings
    BY ListedEntriesType DEF TInv, TypeOK
  <2>2. todo' \in PlanType
    BY <1>4, <2>1, PlanTyped DEF TInv, TypeOK, Plan
  <2>3. \A item \in todo'.push : mine[item.id] \in Record /\ mine[item.id].path = item.path
    <3>1. \A item \in todo'.push : /\ item.id \in PushIds(snap, mine, ListedEntries)
                                   /\ mine[item.id].path = item.path
      BY <1>4, PushItems DEF Plan
    <3>2. \A i \in PushIds(snap, mine, ListedEntries) : mine[i] \in Record
      BY DEF TInv, TypeOK, PushIds, Live, Stores
    <3> QED BY <3>1, <3>2
  <2> QED
    BY <1>4, <2>2, <2>3 DEF TInv, TypeOK, PushesMine, Plan, stored, bounds
<1>5. CASE Collide
  BY <1>5, LeaveKeepsTInv DEF TInv, TypeOK, Collide, Throw, Codes, bounds
<1> QED
  BY <1>1, <1>2, <1>3, <1>4, <1>5 DEF Capture

LEMMA WriteTyped ==
    ASSUME TInv, NEW item \in todo.push, Write(item.path, mine[item.id].content)
    PROVE  remote' \in Files /\ published' \subseteq Paths \X Contents
           /\ mine[item.id].content \in Contents
<1>1. item.path \in Paths /\ mine[item.id].content \in Contents
  BY TodoItems DEF TInv, TypeOK, PushesMine, Record
<1> QED
  BY <1>1 DEF TInv, TypeOK, Write, Files

LEMMA ApplyKeepsTInv == TInv /\ Apply => TInv'
<1> SUFFICES ASSUME TInv, Apply PROVE TInv'
  OBVIOUS
<1> USE DEF stored, bounds
<1>1. ASSUME NEW item \in todo.push, Push(item) PROVE TInv'
  <2>1. /\ remote' \in Files /\ published' \subseteq Paths \X Contents
        /\ mine[item.id].content \in Contents /\ item.path \in Paths
    BY <1>1, WriteTyped, TodoItems DEF Push, TInv, TypeOK
  <2>2. todo' \in PlanType /\ todo'.push \subseteq todo.push
    BY <1>1, TodoShrinks DEF Push, TInv, TypeOK, PlanType
  <2>3. revs' \in Files /\ readback' \in Paths \cup {None}
    BY <1>1, <2>1 DEF Push, TInv, TypeOK, Files
  <2> QED
    BY <1>1, <2>1, <2>2, <2>3 DEF Push, Pushing, TInv, TypeOK, PushesMine
<1>2. ASSUME NEW item \in todo.push, PushRefused(item) PROVE TInv'
  BY <1>2, LeaveKeepsTInv DEF TInv, TypeOK, PushRefused, Throw, Codes
<1>3. CASE ReadBack
  <2>1. revs' \in Files /\ readback' = None
    BY <1>3 DEF ReadBack, TInv, TypeOK, Files
  <2> QED
    BY <1>3, <2>1 DEF ReadBack, TInv, TypeOK, PushesMine, NoFiles
<1>4. ASSUME NEW item \in todo.pull, Pull(item) PROVE TInv'
  <2>1. todo' \in PlanType /\ todo'.push = todo.push
    BY <1>4, TodoShrinks DEF Pull, TInv, TypeOK, PlanType
  <2>2. local' \in Stores
    <3>1. item.path \in Paths /\ item.id \in Ids \cup {None}
      BY TodoItems DEF TInv, TypeOK
    <3>2. TextOf(item.path) \in Contents \cup {None}
      BY <3>1 DEF TextOf, TInv, TypeOK, Files
    <3>3. CASE TextOf(item.path) = None
      BY <1>4, <3>3 DEF Pull, TInv, TypeOK
    <3>4. CASE TextOf(item.path) # None
      <4>1. PICK i \in Ids : local' = [local EXCEPT ![i] =
                [path |-> item.path, content |-> TextOf(item.path)]]
        BY <1>4, <3>1, <3>4 DEF Pull, Fresh
      <4>2. [path |-> item.path, content |-> TextOf(item.path)] \in Record
        BY <3>1, <3>2, <3>4 DEF Record
      <4> QED BY <4>1, <4>2 DEF TInv, TypeOK, Stores
    <3> QED BY <3>3, <3>4
  <2> QED
    BY <1>4, <2>1, <2>2 DEF Pull, Pulling, TInv, TypeOK, PushesMine
<1>5. ASSUME NEW item \in todo.deleteRemote, DeleteRemote(item) PROVE TInv'
  <2>1. todo' \in PlanType /\ todo'.push = todo.push
    BY <1>5, TodoShrinks DEF DeleteRemote, TInv, TypeOK, PlanType
  <2>2. remote' \in Files
    BY <1>5, TodoItems DEF DeleteRemote, TInv, TypeOK, Files
  <2> QED
    BY <1>5, <2>1, <2>2 DEF DeleteRemote, Deleting, TInv, TypeOK, PushesMine
<1>6. ASSUME NEW item \in todo.deleteRemote, DeleteRefused(item) PROVE TInv'
  BY <1>6, LeaveKeepsTInv DEF TInv, TypeOK, DeleteRefused, Throw, Codes
<1>7. ASSUME NEW item \in todo.deleteLocal, DeleteLocal(item) PROVE TInv'
  <2>1. todo' \in PlanType /\ todo'.push = todo.push
    BY <1>7, TodoShrinks DEF DeleteLocal, TInv, TypeOK, PlanType
  <2>2. local' \in Stores
    BY <1>7, TodoItems DEF DeleteLocal, TInv, TypeOK, Stores
  <2> QED
    BY <1>7, <2>1, <2>2 DEF DeleteLocal, TInv, TypeOK, PushesMine
<1> QED
  BY <1>1, <1>2, <1>3, <1>4, <1>5, <1>6, <1>7 DEF Apply

LEMMA FinalizeKeepsTInv == TInv /\ Finalize => TInv'
<1> SUFFICES ASSUME TInv, Finalize PROVE TInv'
  OBVIOUS
<1>1. CASE FinalizeClean
  <2>1. snap' \in Snapshots
    BY <1>1, EntriesType DEF FinalizeClean, TInv, TypeOK
  <2> QED
    BY <1>1, <2>1, LeaveKeepsTInv DEF FinalizeClean, TInv, TypeOK, bounds
<1>2. CASE FinalizeAsking
  BY <1>2, LeaveKeepsTInv DEF FinalizeAsking, TInv, TypeOK, stored, bounds
<1> QED BY <1>1, <1>2 DEF Finalize

LEMMA FailureKeepsTInv == TInv /\ Failure => TInv'
<1> SUFFICES ASSUME TInv, Failure PROVE TInv'
  OBVIOUS
<1>1. ASSUME NEW item \in todo.push, PushUnanswered(item) PROVE TInv'
  BY <1>1, WriteTyped, LeaveKeepsTInv DEF PushUnanswered, Throw, TInv, TypeOK, Codes
<1>2. ASSUME NEW item \in todo.deleteRemote, DeleteUnanswered(item) PROVE TInv'
  <2>1. remote' \in Files
    BY <1>2, TodoItems DEF DeleteUnanswered, TInv, TypeOK, Files
  <2> QED
    BY <1>2, <2>1, LeaveKeepsTInv DEF DeleteUnanswered, Throw, TInv, TypeOK, Codes
<1>3. CASE Fail
  BY <1>3, LeaveKeepsTInv DEF Fail, Throw, TInv, TypeOK, Codes
<1>4. CASE Reload
  BY <1>4, LeaveKeepsTInv DEF Reload, TInv, TypeOK, stored
<1> QED BY <1>1, <1>2, <1>3, <1>4 DEF Failure

LEMMA UserKeepsTInv == TInv /\ User => TInv'
<1> SUFFICES ASSUME TInv, NEW i \in Ids,
                    \/ \E p \in Paths, c \in Contents : Create(i, p, c)
                    \/ \E c \in Contents : Edit(i, c)
                    \/ \E p \in Paths : Move(i, p)
                    \/ Delete(i)
             PROVE  TInv'
  BY DEF User
<1>1. PICK record \in Record \cup {None} : Change(i, record)
  BY DEF TInv, TypeOK, Stores, Record, Create, Edit, Move, Delete
<1>2. local' \in Stores
  BY <1>1 DEF Change, TInv, TypeOK, Stores
<1> QED
  BY <1>1, <1>2 DEF Change, TInv, TypeOK, PushesMine, round

LEMMA OthersKeepTInv == TInv /\ Others => TInv'
<1> SUFFICES ASSUME TInv, NEW p \in Paths,
                    ForeignDelete(p) \/ \E c \in Contents : ForeignWrite(p, c)
             PROVE  TInv'
  BY DEF Others
<1>1. CASE ForeignDelete(p)
  BY <1>1 DEF ForeignDelete, TInv, TypeOK, PushesMine, Files, stored, round
<1>2. ASSUME NEW c \in Contents, ForeignWrite(p, c) PROVE TInv'
  BY <1>2 DEF ForeignWrite, Write, TInv, TypeOK, PushesMine, Files, stored, round
<1> QED BY <1>1, <1>2

LEMMA NextKeepsTInv == TInv /\ [Next]_vars => TInv'
<1> SUFFICES ASSUME TInv, [Next]_vars PROVE TInv'
  OBVIOUS
<1>1. CASE Next
  BY <1>1, CaptureKeepsTInv, ApplyKeepsTInv, FinalizeKeepsTInv, FailureKeepsTInv,
     UserKeepsTInv, OthersKeepTInv DEF Next, RoundStep
<1>2. CASE UNCHANGED vars
  BY <1>2 DEF vars, TInv, TypeOK, PushesMine
<1> QED BY <1>1, <1>2

LEMMA AlwaysTInv == Spec => []TInv
BY InitTInv, NextKeepsTInv, PTL DEF Spec

\* A round holds context exactly while it runs, and the snapshot, the plan
\* and everything a round remembers are of the kinds the code reads them as.
THEOREM RoundTyped == Spec => []TypeOK
<1>1. TInv => TypeOK BY DEF TInv
<1> QED BY AlwaysTInv, <1>1, PTL
-----------------------------------------------------------------------------
(***************************************************************************)
(* No local version is lost.  The round may replace or delete a record     *)
(* because its content is the base of its path, and a base is a version    *)
(* that was published: a clean round writes the snapshot only when every   *)
(* record it finds agrees with the remote, was pushed or was pulled.  The  *)
(* step from "was collected" to "is found at the end" is where the user    *)
(* must not interfere.                                                     *)
(***************************************************************************)
Version(i) == <<local[i].path, local[i].content>>

\* K: the versions that are known; in a round, those that were published.
BaseIn(K) == \A k \in 1 .. Len(snap) : snap[k] # None => <<snap[k].path, snap[k].hash>> \in K

RemoteShared == \A p \in Paths : remote[p] # None => <<p, remote[p]>> \in published

ReadIn(K) == \A p \in Paths :
    /\ texts[p] # None => <<p, texts[p]>> \in K
    /\ hashes[p] # None => <<p, hashes[p]>> \in K

\* Until the last push, the store is as it was collected.
LocalIsMine == pc \in {"list", "hash"} \/ todo.push # {} => local = mine

DoomedIn(K) ==
    /\ \A item \in todo.pull :
           item.id # None /\ local[item.id] # None => Version(item.id) \in K
    /\ \A item \in todo.deleteLocal :
           local[item.id] # None => Version(item.id) \in K

UnknownIsPlanned(K) ==
    pc = "apply" /\ todo.conflicts = {} =>
        \A i \in Ids : local[i] # None =>
            Version(i) \in K \/ \E item \in todo.push : item.id = i

\* What is known outside a round, and what a round promises.
KnownIn(K) == TInv /\ RemoteShared /\ published \subseteq K /\ BaseIn(K) /\ ReadIn(K)
SInvIn(K) == KnownIn(K) /\ LocalIsMine /\ DoomedIn(K) /\ UnknownIsPlanned(K)
SInv == SInvIn(published)

LEMMA InitSInv == Init => SInv
<1> SUFFICES ASSUME Init PROVE SInvIn(published)
  BY DEF SInv
<1>1. RemoteShared
  BY DEF Init, RemoteShared, Holds
<1>2. BaseIn(published)
  BY DEF Init, BaseIn
<1>3. ReadIn(published)
  BY DEF Init, ReadIn, NoFiles
<1> QED
  BY <1>1, <1>2, <1>3, InitTInv, NothingTyped
     DEF Init, SInvIn, KnownIn, LocalIsMine, DoomedIn, UnknownIsPlanned

\* The end of a round drops its context, and with it what was promised of it.
LEMMA LeaveKeepsSInv ==
    ASSUME NEW L, TInv', Leave, BaseIn(L)', RemoteShared', published' \subseteq L
    PROVE  SInvIn(L)'
BY NothingTyped DEF Leave, SInvIn, KnownIn, ReadIn, LocalIsMine, DoomedIn,
    UnknownIsPlanned, NoFiles

LEMMA BaseStaysShared ==
    ASSUME NEW K, NEW L, BaseIn(K), snap' = snap, K \subseteq L
    PROVE  BaseIn(L)'
BY DEF BaseIn

\* The base of a path and what the round read of it were published.
LEMMA SnapAtShared ==
    ASSUME NEW K, KnownIn(K), NEW p, SnapAt(snap, p) # None
    PROVE  <<p, SnapAt(snap, p).hash>> \in K
BY SnapAtFound DEF KnownIn, TInv, TypeOK, BaseIn

\* What a pull or a local deletion of the plan would take away is known.
LEMMA DoomedIsKnown ==
    ASSUME NEW K, KnownIn(K),
           NEW i \in PullIds(snap, mine, ListedEntries) \cup DropIds(snap, mine, ListedEntries)
    PROVE  <<mine[i].path, mine[i].content>> \in K
BY DoomedIsBase, SnapAtShared

\* So is a record that the plan neither pushes nor asks about.
LEMMA RestIsKnown ==
    ASSUME NEW K, KnownIn(K), NEW i \in Ids, mine[i] # None,
           i \notin PushIds(snap, mine, ListedEntries),
           i \notin AskIds(snap, mine, ListedEntries)
    PROVE  <<mine[i].path, mine[i].content>> \in K
<1>1. i \in Live(mine) /\ mine[i].path \in Paths
  BY DEF Live, KnownIn, TInv, TypeOK, Stores, Record
<1>2. \/ /\ ListedEntries[mine[i].path] # None
         /\ ListedEntries[mine[i].path].hash = mine[i].content
      \/ /\ SnapAt(snap, mine[i].path) # None
         /\ SnapAt(snap, mine[i].path).hash = mine[i].content
  BY <1>1, SettledIsKnown
<1>3. ListedEntries[mine[i].path] # None =>
          <<mine[i].path, ListedEntries[mine[i].path].hash>> \in K
  BY <1>1 DEF ListedEntries, KnownIn, ReadIn
<1> QED BY <1>2, <1>3, SnapAtShared

LEMMA CaptureKeepsSInv ==
    ASSUME NEW K, NEW L, SInvIn(K), K \subseteq L, published' \subseteq L, Capture
    PROVE  SInvIn(L)'
<1>0. TInv'
  BY CaptureKeepsTInv DEF SInvIn, KnownIn
<1> USE DEF stored, bounds
<1>1. CASE Collect
  <2>1. todo = EmptyPlan /\ texts = NoFiles /\ hashes = NoFiles
    BY <1>1 DEF Collect, SInvIn, KnownIn, TInv, TypeOK
  <2> QED
    BY <1>0, <1>1, <2>1, NothingTyped DEF Collect, SInvIn, KnownIn, BaseIn, RemoteShared,
       ReadIn, LocalIsMine, DoomedIn, UnknownIsPlanned, Version
<1>2. CASE List
  <2>1. todo = EmptyPlan
    BY <1>2 DEF List, SInvIn, KnownIn, TInv, TypeOK
  <2>2. \A p \in Paths : LastAt(p) # None => <<p, LastAt(p).hash>> \in K
    BY LastAtFound DEF SInvIn, KnownIn, TInv, TypeOK, BaseIn
  <2>3. \A p \in Paths : hashes'[p] # None => <<p, hashes'[p]>> \in K
    BY <1>2, <2>2 DEF List, Shortcut
  <2> QED
    BY <1>0, <1>2, <2>1, <2>3, NothingTyped DEF List, SInvIn, KnownIn, BaseIn, RemoteShared,
       ReadIn, LocalIsMine, DoomedIn, UnknownIsPlanned, Version
<1>3. ASSUME NEW p \in Paths, HashFile(p) PROVE SInvIn(L)'
  <2>1. ReadIn(L)'
    BY <1>3 DEF HashFile, SInvIn, KnownIn, TInv, TypeOK, RemoteShared, ReadIn, Files
  <2> QED
    BY <1>0, <1>3, <2>1 DEF HashFile, SInvIn, KnownIn, BaseIn, RemoteShared,
       LocalIsMine, DoomedIn, UnknownIsPlanned, Version
<1>4. CASE Plan
  <2> DEFINE plan == planSync(snap, mine, ListedEntries)
  <2>1. todo' = plan /\ local' = local /\ local = mine /\ published' = published
    BY <1>4 DEF Plan, SInvIn, KnownIn, LocalIsMine
  <2>2. KnownIn(K)
    BY DEF SInvIn
  <2>3. DoomedIn(L)'
    <3>1. \A item \in plan.pull : item.id # None => item.id \in PullIds(snap, mine, ListedEntries)
      BY PullItems
    <3>2. \A item \in plan.deleteLocal : item.id \in DropIds(snap, mine, ListedEntries)
      BY DeleteLocalItems
    <3>3. \A i \in PullIds(snap, mine, ListedEntries) \cup DropIds(snap, mine, ListedEntries) :
              <<mine[i].path, mine[i].content>> \in K
      BY <2>2, DoomedIsKnown
    <3> QED BY <2>1, <3>1, <3>2, <3>3 DEF DoomedIn, Version
  <2>4. UnknownIsPlanned(L)'
    <3> SUFFICES ASSUME plan.conflicts = {}, NEW i \in Ids, mine[i] # None
                 PROVE  \/ <<mine[i].path, mine[i].content>> \in K
                        \/ \E item \in plan.push : item.id = i
      BY <2>1 DEF UnknownIsPlanned, Version
    <3>1. i \notin AskIds(snap, mine, ListedEntries)
      BY ConflictItems
    <3>2. CASE i \in PushIds(snap, mine, ListedEntries)
      BY <3>2, PushItems
    <3>3. CASE i \notin PushIds(snap, mine, ListedEntries)
      BY <2>2, <3>1, <3>3, RestIsKnown
    <3> QED BY <3>2, <3>3
  <2> QED
    BY <1>0, <1>4, <2>1, <2>3, <2>4 DEF Plan, SInvIn, KnownIn, BaseIn, RemoteShared,
       ReadIn, LocalIsMine
<1>5. CASE Collide
  BY <1>0, <1>5, LeaveKeepsSInv, BaseStaysShared
     DEF Collide, Throw, SInvIn, KnownIn, RemoteShared
<1> QED
  BY <1>1, <1>2, <1>3, <1>4, <1>5 DEF Capture

\* What a step of the sync writes to the repository is published by it.
LEMMA WriteShares ==
    ASSUME NEW K, SInvIn(K), NEW item \in todo.push, Write(item.path, mine[item.id].content)
    PROVE  /\ RemoteShared' /\ published \subseteq published'
           /\ local[item.id] # None => Version(item.id) \in published'
<1>1. local = mine /\ mine[item.id].path = item.path
  BY DEF SInvIn, KnownIn, LocalIsMine, TInv, PushesMine
<1>2. \A q \in Paths : remote'[q] = IF q = item.path THEN mine[item.id].content ELSE remote[q]
  BY DEF Write, SInvIn, KnownIn, TInv, TypeOK, Files
<1>3. RemoteShared'
  BY <1>2 DEF Write, SInvIn, KnownIn, RemoteShared
<1> QED
  BY <1>1, <1>3 DEF Write, Version

LEMMA ApplyKeepsSInv ==
    ASSUME NEW K, NEW L, SInvIn(K), K \subseteq L, published' \subseteq L, Apply
    PROVE  SInvIn(L)'
<1>0. TInv'
  BY ApplyKeepsTInv DEF SInvIn, KnownIn
<1> USE DEF stored, bounds
<1>1. ASSUME NEW item \in todo.push, Push(item) PROVE SInvIn(L)'
  <2>1. Write(item.path, mine[item.id].content)
    BY <1>1 DEF Push
  <2>2. /\ todo'.push = todo.push \ {item} /\ todo'.pull = todo.pull
        /\ todo'.deleteLocal = todo.deleteLocal /\ todo'.conflicts = todo.conflicts
    BY <1>1 DEF Push, SInvIn, KnownIn, TInv, TypeOK, PlanType
  <2>3. /\ local' = local /\ mine' = mine /\ pc' = pc /\ pc = "apply" /\ snap' = snap
        /\ texts' = texts /\ hashes' = hashes
    BY <1>1 DEF Push, Pushing
  <2>4. published \subseteq published'
    BY <2>1, WriteShares
  <2>5. UnknownIsPlanned(L)'
    BY <2>1, <2>2, <2>3, <2>4, WriteShares DEF SInvIn, KnownIn, UnknownIsPlanned, Version
  <2>6. DoomedIn(L)' /\ ReadIn(L)' /\ LocalIsMine'
    BY <2>2, <2>3, <2>4 DEF SInvIn, KnownIn, DoomedIn, ReadIn, LocalIsMine, Version
  <2> QED
    BY <1>0, <2>1, <2>3, <2>4, <2>5, <2>6, WriteShares, BaseStaysShared DEF SInvIn, KnownIn
<1>2. ASSUME NEW item \in todo.push, PushRefused(item) PROVE SInvIn(L)'
  BY <1>0, <1>2, LeaveKeepsSInv, BaseStaysShared
     DEF PushRefused, Throw, SInvIn, KnownIn, RemoteShared
<1>3. CASE ReadBack
  BY <1>0, <1>3 DEF ReadBack, SInvIn, KnownIn, BaseIn, RemoteShared, ReadIn,
     LocalIsMine, DoomedIn, UnknownIsPlanned, Version
<1>4. ASSUME NEW item \in todo.pull, Pull(item) PROVE SInvIn(L)'
  <2>1. /\ todo'.push = {} /\ todo.push = {} /\ todo'.pull \subseteq todo.pull
        /\ todo'.deleteLocal = todo.deleteLocal /\ todo'.conflicts = todo.conflicts
    BY <1>4 DEF Pull, Pulling, SInvIn, KnownIn, TInv, TypeOK, PlanType
  <2>2. /\ published' = published /\ remote' = remote /\ snap' = snap /\ pc' = "apply"
        /\ pc = "apply" /\ texts' = texts /\ hashes' = hashes
    BY <1>4 DEF Pull, Pulling
  <2>3. \A i \in Ids : local'[i] # None =>
            \/ local'[i] = local[i]
            \/ <<local'[i].path, local'[i].content>> \in K
    <3>1. item.path \in Paths
      BY TodoItems DEF SInvIn, KnownIn, TInv, TypeOK
    <3>2. TextOf(item.path) # None => <<item.path, TextOf(item.path)>> \in K
      BY <3>1 DEF TextOf, SInvIn, KnownIn, ReadIn, RemoteShared
    <3>3. CASE TextOf(item.path) = None
      BY <1>4, <3>3 DEF Pull
    <3>4. CASE TextOf(item.path) # None
      <4>1. PICK i : local' = [local EXCEPT ![i] =
                [path |-> item.path, content |-> TextOf(item.path)]]
        BY <1>4, <3>4 DEF Pull
      <4>2. \A j \in Ids : local'[j] = IF j = i
                THEN [path |-> item.path, content |-> TextOf(item.path)] ELSE local[j]
        BY <4>1 DEF SInvIn, KnownIn, TInv, TypeOK, Stores
      <4> QED BY <3>2, <3>4, <4>2
    <3> QED BY <3>3, <3>4
  <2>4. UnknownIsPlanned(L)'
    BY <2>1, <2>2, <2>3 DEF SInvIn, KnownIn, UnknownIsPlanned, Version
  <2>5. DoomedIn(L)'
    <3>1. \A it \in todo.pull : it.id \in Ids \cup {None}
      BY TodoItems DEF SInvIn, KnownIn, TInv, TypeOK
    <3>2. \A it \in todo.deleteLocal : it.id \in Ids
      BY TodoItems DEF SInvIn, KnownIn, TInv, TypeOK
    <3> QED BY <2>1, <2>2, <2>3, <3>1, <3>2 DEF SInvIn, KnownIn, DoomedIn, Version
  <2> QED
    BY <1>0, <2>1, <2>2, <2>4, <2>5
       DEF SInvIn, KnownIn, BaseIn, RemoteShared, ReadIn, LocalIsMine
<1>5. ASSUME NEW item \in todo.deleteRemote, DeleteRemote(item) PROVE SInvIn(L)'
  <2>1. /\ todo'.push = todo.push /\ todo'.pull = todo.pull
        /\ todo'.deleteLocal = todo.deleteLocal /\ todo'.conflicts = todo.conflicts
    BY <1>5 DEF DeleteRemote, SInvIn, KnownIn, TInv, TypeOK, PlanType
  <2>2. RemoteShared'
    BY <1>5 DEF DeleteRemote, SInvIn, KnownIn, TInv, TypeOK, Files, RemoteShared
  <2> QED
    BY <1>0, <1>5, <2>1, <2>2 DEF DeleteRemote, SInvIn, KnownIn, BaseIn, ReadIn,
       LocalIsMine, DoomedIn, UnknownIsPlanned, Version
<1>6. ASSUME NEW item \in todo.deleteRemote, DeleteRefused(item) PROVE SInvIn(L)'
  BY <1>0, <1>6, LeaveKeepsSInv, BaseStaysShared
     DEF DeleteRefused, Throw, SInvIn, KnownIn, RemoteShared
<1>7. ASSUME NEW item \in todo.deleteLocal, DeleteLocal(item) PROVE SInvIn(L)'
  <2>1. /\ todo'.push = {} /\ todo.push = {} /\ todo'.pull = todo.pull
        /\ todo'.deleteLocal \subseteq todo.deleteLocal /\ todo'.conflicts = todo.conflicts
    BY <1>7 DEF DeleteLocal, SInvIn, KnownIn, TInv, TypeOK, PlanType
  <2>2. \A i \in Ids : local'[i] # None => local'[i] = local[i]
    BY <1>7 DEF DeleteLocal, SInvIn, KnownIn, TInv, TypeOK, Stores
  <2>3. /\ \A it \in todo.pull : it.id \in Ids \cup {None}
        /\ \A it \in todo.deleteLocal : it.id \in Ids
    BY TodoItems DEF SInvIn, KnownIn, TInv, TypeOK
  <2>4. UnknownIsPlanned(L)' /\ DoomedIn(L)'
    BY <1>7, <2>1, <2>2, <2>3
       DEF DeleteLocal, SInvIn, KnownIn, UnknownIsPlanned, DoomedIn, Version
  <2> QED
    BY <1>0, <1>7, <2>1, <2>4 DEF DeleteLocal, SInvIn, KnownIn, BaseIn, RemoteShared,
       ReadIn, LocalIsMine
<1> QED
  BY <1>1, <1>2, <1>3, <1>4, <1>5, <1>6, <1>7 DEF Apply

\* A clean round has nothing left to push and no conflict, so every record
\* it finds is a published version.
LEMMA FinalizeKeepsSInv ==
    ASSUME NEW K, NEW L, SInvIn(K), K \subseteq L, published' \subseteq L, Finalize
    PROVE  SInvIn(L)'
<1>0. TInv'
  BY FinalizeKeepsTInv DEF SInvIn, KnownIn
<1>1. CASE FinalizeClean
  <2>1. \A i \in Ids : local[i] # None => Version(i) \in K
    BY <1>1 DEF FinalizeClean, Applied, SInvIn, KnownIn, UnknownIsPlanned
  <2>2. local \in Stores /\ revs \in Files
    BY DEF SInvIn, KnownIn, TInv, TypeOK
  <2>3. snap' = Entries(local, revs) /\ published' = published /\ remote' = remote
    BY <1>1 DEF FinalizeClean
  <2>4. BaseIn(L)'
    BY <2>1, <2>2, <2>3, EntriesType DEF BaseIn, Version
  <2> QED
    BY <1>0, <1>1, <2>3, <2>4, LeaveKeepsSInv DEF FinalizeClean, SInvIn, KnownIn, RemoteShared
<1>2. CASE FinalizeAsking
  BY <1>0, <1>2, LeaveKeepsSInv, BaseStaysShared
     DEF FinalizeAsking, SInvIn, KnownIn, RemoteShared, stored
<1> QED BY <1>1, <1>2 DEF Finalize

LEMMA FailureKeepsSInv ==
    ASSUME NEW K, NEW L, SInvIn(K), K \subseteq L, published' \subseteq L, Failure
    PROVE  SInvIn(L)'
<1>0. TInv'
  BY FailureKeepsTInv DEF SInvIn, KnownIn
<1>1. ASSUME NEW item \in todo.push, PushUnanswered(item) PROVE SInvIn(L)'
  BY <1>0, <1>1, WriteShares, LeaveKeepsSInv, BaseStaysShared
     DEF PushUnanswered, Throw, SInvIn, KnownIn
<1>2. ASSUME NEW item \in todo.deleteRemote, DeleteUnanswered(item) PROVE SInvIn(L)'
  <2>1. RemoteShared'
    BY <1>2 DEF DeleteUnanswered, SInvIn, KnownIn, TInv, TypeOK, Files, RemoteShared
  <2> QED
    BY <1>0, <1>2, <2>1, LeaveKeepsSInv, BaseStaysShared DEF DeleteUnanswered, Throw, SInvIn, KnownIn
<1>3. CASE Fail
  BY <1>0, <1>3, LeaveKeepsSInv, BaseStaysShared DEF Fail, Throw, SInvIn, KnownIn, RemoteShared
<1>4. CASE Reload
  BY <1>0, <1>4, LeaveKeepsSInv, BaseStaysShared DEF Reload, SInvIn, KnownIn, RemoteShared, stored
<1> QED BY <1>1, <1>2, <1>3, <1>4 DEF Failure

\* The user's changes fall between rounds, when nothing is promised of the store.
LEMMA UserKeepsSInv ==
    ASSUME EditsDuringRound = FALSE,
           NEW K, NEW L, SInvIn(K), K \subseteq L, published' \subseteq L, User
    PROVE  SInvIn(L)'
<1>0. TInv'
  BY UserKeepsTInv DEF SInvIn, KnownIn
<1>1. PICK i \in Ids, record \in Record \cup {None} : Change(i, record)
  BY DEF User, Create, Edit, Move, Delete, Record, SInvIn, KnownIn, TInv, TypeOK, Stores
<1>2. pc = "idle"
  BY <1>1 DEF Change, UserMay
<1>3. todo = EmptyPlan
  BY <1>2 DEF SInvIn, KnownIn, TInv, TypeOK
<1> QED
  BY <1>0, <1>1, <1>2, <1>3, NothingTyped DEF Change, SInvIn, KnownIn, BaseIn,
     RemoteShared, ReadIn, LocalIsMine, DoomedIn, UnknownIsPlanned, round

\* Another device writes nothing that is not published then.
LEMMA OthersShare ==
    ASSUME TInv, RemoteShared, Others
    PROVE  RemoteShared' /\ published \subseteq published' /\ UNCHANGED <<stored, round>>
<1>1. ASSUME NEW p \in Paths, ForeignDelete(p)
      PROVE  RemoteShared' /\ published \subseteq published'
  BY <1>1 DEF ForeignDelete, TInv, TypeOK, Files, RemoteShared
<1>2. ASSUME NEW p \in Paths, NEW c \in Contents, ForeignWrite(p, c)
      PROVE  RemoteShared' /\ published \subseteq published'
  BY <1>2 DEF ForeignWrite, Write, TInv, TypeOK, Files, RemoteShared
<1>3. UNCHANGED <<stored, round>>
  BY DEF Others, ForeignDelete, ForeignWrite
<1> QED BY <1>1, <1>2, <1>3 DEF Others

LEMMA OthersKeepSInv ==
    ASSUME NEW K, NEW L, SInvIn(K), K \subseteq L, published' \subseteq L, Others
    PROVE  SInvIn(L)'
<1>0. TInv'
  BY OthersKeepTInv DEF SInvIn, KnownIn
<1>1. RemoteShared' /\ UNCHANGED <<stored, round>>
  BY OthersShare DEF SInvIn, KnownIn
<1> QED
  BY <1>0, <1>1 DEF SInvIn, KnownIn, BaseIn, ReadIn, LocalIsMine,
     DoomedIn, UnknownIsPlanned, Version, stored, round

\* For the versions published by then.
LEMMA WorkKeepsSInv ==
    SInv /\ (Capture \/ Apply \/ Finalize \/ Failure \/ Others) => SInv'
<1> SUFFICES ASSUME SInv, Capture \/ Apply \/ Finalize \/ Failure \/ Others PROVE SInv'
  OBVIOUS
<1>1. PICK K : K = published
  OBVIOUS
<1>2. PICK L : L = published'
  OBVIOUS
<1>3. published \subseteq published'
  BY DEF Capture, Collect, List, HashFile, Plan, Collide, Apply, Push, PushRefused,
     ReadBack, Pull, DeleteRemote, DeleteRefused, DeleteLocal, Finalize, FinalizeClean,
     FinalizeAsking, Failure, PushUnanswered, DeleteUnanswered, Fail, Reload, Others,
     ForeignWrite, ForeignDelete, Write
<1>4. SInvIn(K) /\ K \subseteq L /\ published' \subseteq L
  BY <1>1, <1>2, <1>3 DEF SInv
<1>5. SInvIn(L)'
  BY <1>4, CaptureKeepsSInv, ApplyKeepsSInv, FinalizeKeepsSInv, FailureKeepsSInv,
     OthersKeepSInv
<1> QED
  BY <1>2, <1>5 DEF SInv, SInvIn, KnownIn, BaseIn, ReadIn, DoomedIn, UnknownIsPlanned

LEMMA UserKeepsShared ==
    ASSUME EditsDuringRound = FALSE, SInv, User
    PROVE  SInv'
<1>1. PICK K : K = published
  OBVIOUS
<1>2. PICK L : L = published'
  OBVIOUS
<1>3. published' = published
  BY DEF User, Create, Edit, Move, Delete, Change
<1>4. SInvIn(L)'
  BY <1>1, <1>2, <1>3, UserKeepsSInv DEF SInv
<1> QED
  BY <1>2, <1>4 DEF SInv, SInvIn, KnownIn, BaseIn, ReadIn, DoomedIn, UnknownIsPlanned

LEMMA NextKeepsSInv ==
    ASSUME EditsDuringRound = FALSE
    PROVE  SInv /\ [Next]_vars => SInv'
<1> SUFFICES ASSUME SInv, [Next]_vars PROVE SInv'
  OBVIOUS
<1>1. CASE Next
  BY <1>1, WorkKeepsSInv, UserKeepsShared DEF Next, RoundStep
<1>2. CASE UNCHANGED vars
  <2>1. TInv'
    BY <1>2, NextKeepsTInv DEF SInv, SInvIn, KnownIn
  <2> QED
    BY <1>2, <2>1 DEF vars, SInv, SInvIn, KnownIn, BaseIn, RemoteShared, ReadIn,
       LocalIsMine, DoomedIn, UnknownIsPlanned, Version
<1> QED BY <1>1, <1>2

LEMMA AlwaysSInv ==
    ASSUME EditsDuringRound = FALSE
    PROVE  Spec => []SInv
BY InitSInv, NextKeepsSInv, PTL DEF Spec

\* If the user changes nothing while a round runs, every entry of the stored
\* snapshot is a version that was in the repository at its path, whatever
\* fails and whatever other devices do.
THEOREM SnapshotIsShared ==
    ASSUME EditsDuringRound = FALSE
    PROVE  Spec => []BaseWasShared
<1>1. SInv => BaseWasShared BY DEF SInv, SInvIn, KnownIn, BaseIn, BaseWasShared
<1> QED BY AlwaysSInv, <1>1, PTL

\* If the user changes nothing while a round runs, no pull and no local
\* deletion takes away a version that was never in the repository.
THEOREM LocalVersionsKept ==
    ASSUME EditsDuringRound = FALSE
    PROVE  Spec => NoLocalVersionLost
<1> DEFINE Kept == SyncMoves => \A i \in Ids :
               local[i] # None /\ local'[i] # local[i] =>
                   <<local[i].path, local[i].content>> \in published
<1>1. SInv /\ [Next]_vars => [Kept]_vars
  <2> SUFFICES ASSUME SInv, Next, SyncMoves, NEW i \in Ids,
                      local[i] # None, local'[i] # local[i]
               PROVE  Version(i) \in published
    BY DEF Version
  <2> USE DEF stored, bounds
  <2>1. edits \in Nat /\ edits' = edits
    BY DEF SInv, SInvIn, KnownIn, TInv, TypeOK, SyncMoves
  <2>2. ASSUME NEW item \in todo.pull, Pull(item) PROVE Version(i) \in published
    <3>1. PICK j : /\ j \in IF item.id = None THEN Fresh ELSE {item.id}
                   /\ local' = [local EXCEPT ![j] =
                          [path |-> item.path, content |-> TextOf(item.path)]]
      BY <2>2 DEF Pull
    <3>2. i = j
      BY <3>1 DEF SInv, SInvIn, KnownIn, TInv, TypeOK, Stores
    <3>3. item.id = i /\ item.id # None
      BY <3>1, <3>2, NoneIsNoValue DEF Fresh
    <3> QED BY <3>3 DEF SInv, SInvIn, DoomedIn
  <2>3. ASSUME NEW item \in todo.deleteLocal, DeleteLocal(item)
        PROVE  Version(i) \in published
    <3>1. item.id = i
      BY <2>3 DEF DeleteLocal, SInv, SInvIn, KnownIn, TInv, TypeOK, Stores
    <3> QED BY <3>1 DEF SInv, SInvIn, DoomedIn
  <2>4. ~User
    BY <2>1 DEF User, Create, Edit, Move, Delete, Change
  <2>5. Capture => local' = local
    BY DEF Capture, Collect, List, HashFile, Plan, Collide
  <2>6. Finalize \/ Failure \/ Others => local' = local
    BY DEF Finalize, FinalizeClean, FinalizeAsking, Failure, PushUnanswered,
       DeleteUnanswered, Fail, Reload, Others, ForeignWrite, ForeignDelete
  <2>7. Apply => \/ local' = local
                 \/ \E item \in todo.pull : Pull(item)
                 \/ \E item \in todo.deleteLocal : DeleteLocal(item)
    BY DEF Apply, Push, PushRefused, ReadBack, DeleteRemote, DeleteRefused
  <2> QED
    BY <2>2, <2>3, <2>4, <2>5, <2>6, <2>7 DEF Next, RoundStep
<1> QED BY AlwaysSInv, <1>1, PTL DEF Spec, NoLocalVersionLost
-----------------------------------------------------------------------------
(***************************************************************************)
(* Also when the user edits while a round runs, the sync replaces or       *)
(* deletes a remote file that differs from the base of its path only in    *)
(* the ways that SyncRound names.                                          *)
(*                                                                         *)
(* A write is let through when the file still has the revision the round   *)
(* knows.  It remains to see that this revision is the base: when a file   *)
(* was planned with the content it was listed with, the known revision,    *)
(* until the round itself writes the file, is of that content.             *)
(***************************************************************************)

HasBase(p, content) == SnapAt(snap, p) # None /\ SnapAt(snap, p).hash = content

\* A file planned with the content it was listed with is known by it.
ListedKnown == pc = "hash" =>
    /\ \A p \in Paths : hashes[p] = listing[p] => revs[p] = hashes[p]
    /\ \A p \in toHash : listing[p] # None

\* What a push will replace, if the known revision is still there, is the base
\* or nothing, but for the two ways round the check.
PushesSeen == pc = "apply" =>
    \A item \in todo.push :
        \/ TakenOver(item.path) \/ PlannedOtherwise(item.path)
        \/ revs[item.path] = None \/ HasBase(item.path, revs[item.path])

\* A path is pushed once, so that the revision of a push is of no other.
PushesApart ==
    /\ \A a, b \in todo.push : a.path = b.path => a = b
    /\ readback # None => \A item \in todo.push : item.path # readback

\* What a deletion names is the base.
DropsSeen == pc = "apply" =>
    \A item \in todo.deleteRemote :
        PlannedOtherwise(item.path) \/ HasBase(item.path, item.rev)

OInv == TInv /\ ListedKnown /\ PushesSeen /\ PushesApart /\ DropsSeen
-----------------------------------------------------------------------------
LEMMA InitOInv == Init => OInv
BY InitTInv, NothingTyped DEF Init, OInv, ListedKnown, PushesSeen, PushesApart, DropsSeen

LEMMA LeaveKeepsOInv ==
    ASSUME TInv', Leave
    PROVE  OInv'
BY NothingTyped DEF Leave, OInv, ListedKnown, PushesSeen, PushesApart, DropsSeen

\* What is promised of a round depends on nothing outside it but the snapshot.
LEMMA RoundKeepsOInv ==
    ASSUME OInv, TInv', UNCHANGED <<round, snap>>
    PROVE  OInv'
BY DEF round, OInv, ListedKnown, PushesSeen, PushesApart, DropsSeen, HasBase, TakenOver,
   PlannedOtherwise

\* Deletions carry the listed revision, pushes the id that determines them.
LEMMA ItemsCarry ==
    ASSUME NEW snapshot, NEW records, NEW files
    PROVE  /\ \A item \in planSync(snapshot, records, files).push :
                  item = [id |-> item.id, path |-> records[item.id].path,
                          hash |-> records[item.id].content]
           /\ \A item \in planSync(snapshot, records, files).deleteRemote :
                  item.rev = files[item.path].rev
BY DEF planSync

LEMMA PlanKeepsOInv == OInv /\ Plan => OInv'
<1> SUFFICES ASSUME OInv, Plan PROVE OInv'
  OBVIOUS
<1> DEFINE plan == planSync(snap, mine, ListedEntries)
<1> USE DEF stored
<1>1. /\ todo' = plan /\ revs' = revs /\ mine' = mine /\ snap' = snap /\ hashes' = hashes
      /\ listing' = listing /\ pc = "hash" /\ pc' = "apply" /\ readback' = None
      /\ mine \in Stores /\ collisions(mine) = {}
  BY DEF Plan, OInv, TInv, TypeOK
<1>2. \A p \in Paths :
          /\ ListedEntries[p] # None => /\ ListedEntries[p].hash = hashes[p]
                                        /\ ListedEntries[p].rev = listing[p]
          /\ ListedEntries[p] = None => hashes[p] = None
          /\ hashes[p] = listing[p] => revs[p] = hashes[p]
  <2> SUFFICES ASSUME NEW p \in Paths
               PROVE  /\ ListedEntries[p] # None => /\ ListedEntries[p].hash = hashes[p]
                                                    /\ ListedEntries[p].rev = listing[p]
                      /\ ListedEntries[p] = None => hashes[p] = None
                      /\ hashes[p] = listing[p] => revs[p] = hashes[p]
    OBVIOUS
  <2>1. hashes[p] = listing[p] => revs[p] = hashes[p]
    BY <1>1 DEF OInv, ListedKnown
  <2>2. CASE hashes[p] = None
    BY <2>1, <2>2 DEF ListedEntries
  <2>3. CASE hashes[p] # None
    <3> DEFINE r == [hash |-> hashes[p], rev |-> listing[p]]
    <3>1. ListedEntries[p] = r
      BY <2>3 DEF ListedEntries
    <3>2. r \in Listed
      BY <2>3 DEF OInv, TInv, TypeOK, Files, Listed
    <3>3. r.hash = hashes[p] /\ r.rev = listing[p]
      OBVIOUS
    <3> HIDE DEF r
    <3> QED BY <2>1, <2>3, <3>1, <3>2, <3>3, NoneIsNotListed
  <2> QED BY <2>2, <2>3
<1>3. \A i \in Live(mine) : i \in Ids /\ mine[i].path \in Paths
  BY <1>1 DEF Live, Stores, Record
<1>4. \A item \in plan.push :
          /\ item.id \in PushIds(snap, mine, ListedEntries) /\ item.id \in Live(mine)
          /\ item.path = mine[item.id].path /\ item.path \in Paths
  BY <1>3, PushItems DEF PushIds
<1>5. PushesSeen'
  <2> SUFFICES ASSUME NEW item \in plan.push, ~TakenOver(item.path),
                      hashes[item.path] = listing[item.path], revs[item.path] # None
               PROVE  HasBase(item.path, revs[item.path])
    BY <1>1 DEF PushesSeen, TakenOver, PlannedOtherwise, HasBase
  <2> DEFINE p == item.path
  <2>1. p \in Paths /\ item.id \in At(mine, p)
    BY <1>4 DEF At
  <2>2. revs[p] = hashes[p] /\ ListedEntries[p] # None /\ ListedEntries[p].hash = hashes[p]
    BY <1>2, <2>1
  <2>3. Pushes(SnapAt(snap, p), item.id, mine[item.id].content, ListedEntries[p], Live(mine))
    BY <1>4 DEF PushIds
  <2> QED BY <2>1, <2>2, <2>3 DEF Pushes, TakenOver, HasBase
<1>6. PushesApart'
  <2>1. ASSUME NEW a \in plan.push, NEW b \in plan.push, a.path = b.path PROVE a = b
    <3>1. a.id \in At(mine, a.path) /\ b.id \in At(mine, a.path) /\ a.path \in Paths
      BY <1>4, <2>1 DEF At
    <3>2. a.id = b.id
      BY <1>1, <3>1 DEF collisions
    <3> QED BY <3>2, ItemsCarry
  <2> QED BY <1>1, <2>1 DEF PushesApart
<1>7. DropsSeen'
  <2> SUFFICES ASSUME NEW item \in plan.deleteRemote, hashes[item.path] = listing[item.path]
               PROVE  HasBase(item.path, item.rev)
    BY <1>1 DEF DropsSeen, PlannedOtherwise, HasBase
  <2>1. item.path \in Paths /\ ListedEntries[item.path] # None
    BY DeleteRemoteItems DEF RemoteOnly
  <2>2. DropsRemote(SnapAt(snap, item.path), ListedEntries[item.path])
    BY DeleteRemoteItems
  <2>3. item.rev = ListedEntries[item.path].rev
    BY ItemsCarry
  <2> QED BY <1>2, <2>1, <2>2, <2>3 DEF DropsRemote, HasBase
<1> QED
  BY <1>1, <1>5, <1>6, <1>7, CaptureKeepsTInv DEF OInv, ListedKnown, Capture

LEMMA CaptureKeepsOInv == OInv /\ Capture => OInv'
<1> SUFFICES ASSUME OInv, Capture PROVE OInv'
  OBVIOUS
<1>0. TInv'
  BY CaptureKeepsTInv DEF OInv
<1> USE DEF stored
<1>1. CASE Collect
  <2>1. todo' = EmptyPlan /\ pc' = "list"
    BY <1>1 DEF Collect, OInv, TInv, TypeOK
  <2> QED
    BY <1>0, <2>1, NothingTyped DEF OInv, ListedKnown, PushesSeen, PushesApart, DropsSeen
<1>2. CASE List
  <2>1. todo' = EmptyPlan /\ pc' = "hash" /\ revs' = remote /\ listing' = remote
    BY <1>2 DEF List, OInv, TInv, TypeOK
  <2>2. \A p \in toHash' : remote[p] # None
    BY <1>2 DEF List
  <2> QED
    BY <1>0, <2>1, <2>2, NothingTyped
       DEF OInv, ListedKnown, PushesSeen, PushesApart, DropsSeen
<1>3. ASSUME NEW p \in Paths, HashFile(p) PROVE OInv'
  <2>1. todo' = EmptyPlan /\ pc' = "hash" /\ pc = "hash"
    BY <1>3 DEF HashFile, OInv, TInv, TypeOK
  <2>2. \A q \in Paths :
            /\ hashes'[q] = IF q = p THEN remote[p] ELSE hashes[q]
            /\ revs'[q] = IF q = p /\ remote[p] # None THEN remote[p] ELSE revs[q]
    BY <1>3 DEF HashFile, OInv, TInv, TypeOK, Files
  <2>3. listing' = listing /\ toHash' \subseteq toHash /\ p \in toHash
    BY <1>3 DEF HashFile
  <2>4. ListedKnown'
    BY <2>1, <2>2, <2>3 DEF OInv, ListedKnown
  <2> QED
    BY <1>0, <2>1, <2>4, NothingTyped DEF OInv, PushesSeen, PushesApart, DropsSeen
<1>4. CASE Plan
  BY <1>4, PlanKeepsOInv
<1>5. CASE Collide
  BY <1>0, <1>5, LeaveKeepsOInv DEF Collide, Throw
<1> QED
  BY <1>1, <1>2, <1>3, <1>4, <1>5 DEF Capture

LEMMA ApplyKeepsOInv == OInv /\ Apply => OInv'
<1> SUFFICES ASSUME OInv, Apply PROVE OInv'
  OBVIOUS
<1>0. TInv'
  BY ApplyKeepsTInv DEF OInv
<1> USE DEF stored
<1>1. ASSUME NEW item \in todo.push, Push(item) PROVE OInv'
  <2>1. todo'.push = todo.push \ {item} /\ todo'.deleteRemote = todo.deleteRemote
    BY <1>1 DEF Push, OInv, TInv, TypeOK, PlanType
  <2>2. /\ pc = "apply" /\ pc' = "apply" /\ snap' = snap /\ mine' = mine
        /\ hashes' = hashes /\ listing' = listing /\ readback' \in {None, item.path}
    BY <1>1 DEF Push, Pushing
  <2>3. \A it \in todo'.push :
            /\ it \in todo.push /\ it.path # item.path /\ it.path \in Paths
            /\ revs'[it.path] = revs[it.path]
    <3>1. \A it \in todo'.push : it \in todo.push /\ it.path # item.path /\ it.path \in Paths
      BY <2>1, TodoItems DEF OInv, PushesApart, TInv, TypeOK
    <3> QED BY <1>1, <3>1 DEF Push, OInv, TInv, TypeOK, Files
  <2>4. PushesSeen'
    BY <2>2, <2>3 DEF OInv, PushesSeen, TakenOver, PlannedOtherwise, HasBase
  <2>5. PushesApart'
    BY <2>2, <2>3 DEF OInv, PushesApart
  <2>6. DropsSeen'
    BY <2>1, <2>2 DEF OInv, DropsSeen, PlannedOtherwise, HasBase
  <2> QED
    BY <1>0, <2>2, <2>4, <2>5, <2>6 DEF OInv, ListedKnown
<1>2. ASSUME NEW item \in todo.push, PushRefused(item) PROVE OInv'
  BY <1>0, <1>2, LeaveKeepsOInv DEF PushRefused, Throw
<1>3. CASE ReadBack
  <2>1. /\ todo' = todo /\ pc' = pc /\ snap' = snap /\ mine' = mine /\ hashes' = hashes
        /\ listing' = listing /\ toHash' = toHash /\ readback' = None /\ readback # None
    BY <1>3 DEF ReadBack
  <2>2. pc = "apply"
    BY <2>1 DEF OInv, TInv, TypeOK
  <2>3. \A it \in todo.push : revs'[it.path] = revs[it.path]
    <3>1. \A it \in todo.push : it.path # readback /\ it.path \in Paths
      BY <2>1, TodoItems DEF OInv, PushesApart, TInv, TypeOK
    <3> QED BY <1>3, <3>1 DEF ReadBack, OInv, TInv, TypeOK, Files
  <2> QED
    BY <1>0, <2>1, <2>2, <2>3 DEF OInv, ListedKnown, PushesSeen, PushesApart, DropsSeen,
       TakenOver, PlannedOtherwise, HasBase
<1>4. ASSUME NEW item \in todo.pull, Pull(item) PROVE OInv'
  <2>1. todo'.push = todo.push /\ todo'.deleteRemote = todo.deleteRemote
    BY <1>4 DEF Pull, OInv, TInv, TypeOK, PlanType
  <2> QED
    BY <1>0, <1>4, <2>1 DEF Pull, OInv, ListedKnown, PushesSeen, PushesApart, DropsSeen,
       TakenOver, PlannedOtherwise, HasBase
<1>5. ASSUME NEW item \in todo.deleteRemote, DeleteRemote(item) PROVE OInv'
  <2>1. todo'.push = todo.push /\ todo'.deleteRemote \subseteq todo.deleteRemote
    BY <1>5 DEF DeleteRemote, OInv, TInv, TypeOK, PlanType
  <2> QED
    BY <1>0, <1>5, <2>1 DEF DeleteRemote, OInv, ListedKnown, PushesSeen, PushesApart,
       DropsSeen, TakenOver, PlannedOtherwise, HasBase
<1>6. ASSUME NEW item \in todo.deleteRemote, DeleteRefused(item) PROVE OInv'
  BY <1>0, <1>6, LeaveKeepsOInv DEF DeleteRefused, Throw
<1>7. ASSUME NEW item \in todo.deleteLocal, DeleteLocal(item) PROVE OInv'
  <2>1. todo'.push = todo.push /\ todo'.deleteRemote = todo.deleteRemote
    BY <1>7 DEF DeleteLocal, OInv, TInv, TypeOK, PlanType
  <2> QED
    BY <1>0, <1>7, <2>1 DEF DeleteLocal, OInv, ListedKnown, PushesSeen, PushesApart,
       DropsSeen, TakenOver, PlannedOtherwise, HasBase
<1> QED
  BY <1>1, <1>2, <1>3, <1>4, <1>5, <1>6, <1>7 DEF Apply

LEMMA NextKeepsOInv == OInv /\ [Next]_vars => OInv'
<1> SUFFICES ASSUME OInv, [Next]_vars PROVE OInv'
  OBVIOUS
<1>0. TInv'
  BY NextKeepsTInv DEF OInv
<1>1. CASE Capture \/ Apply
  BY <1>1, CaptureKeepsOInv, ApplyKeepsOInv
<1>2. CASE Finalize \/ Failure
  <2>1. Leave
    BY <1>2 DEF Finalize, FinalizeClean, FinalizeAsking, Failure, PushUnanswered,
       DeleteUnanswered, Fail, Reload, Throw
  <2> QED BY <1>0, <2>1, LeaveKeepsOInv
<1>3. CASE User \/ Others \/ UNCHANGED vars
  <2>1. UNCHANGED <<round, snap>>
    BY <1>3 DEF User, Create, Edit, Move, Delete, Change, Others, ForeignDelete,
       ForeignWrite, vars, stored, round
  <2> QED BY <1>0, <2>1, RoundKeepsOInv
<1> QED BY <1>1, <1>2, <1>3 DEF Next, RoundStep

\* Whatever other devices and the user do meanwhile, a step of the sync that
\* replaces or deletes a file without this device having had its content as the
\* base is one of the named ways round the revision check.
THEOREM OverwritesKnown == Spec => RemoteOverwriteKnown
<1> DEFINE Known == \A p \in Paths : OverwritesUnseen(p) =>
               TakenOver(p) \/ PlannedOtherwise(p)
<1>1. OInv /\ [Next]_vars => [Known]_vars
  <2> SUFFICES ASSUME OInv, Next, NEW p \in Paths, OverwritesUnseen(p)
               PROVE  TakenOver(p) \/ PlannedOtherwise(p)
    OBVIOUS
  <2>1. /\ remote \in Files /\ remote[p] # None /\ remote'[p] # remote[p]
        /\ ~HasBase(p, remote[p]) /\ edits' = edits /\ foreign' = foreign
        /\ edits \in Nat /\ foreign \in Nat
    BY DEF OverwritesUnseen, SyncMoves, HasBase, OInv, TInv, TypeOK
  <2>2. ASSUME NEW item \in todo.push, Push(item) \/ PushUnanswered(item)
        PROVE  TakenOver(p) \/ PlannedOtherwise(p)
    <3>1. pc = "apply" /\ MayWrite(item.path) /\ Write(item.path, mine[item.id].content)
      BY <2>2 DEF Push, PushUnanswered, Pushing
    <3>2. p = item.path
      BY <2>1, <3>1 DEF Write, Files
    <3> QED BY <2>1, <3>1, <3>2 DEF MayWrite, OInv, PushesSeen
  <2>3. ASSUME NEW item \in todo.deleteRemote, DeleteRemote(item) \/ DeleteUnanswered(item)
        PROVE  PlannedOtherwise(p)
    <3>1. /\ pc = "apply" /\ remote[item.path] \in {item.rev, None}
          /\ remote' = [remote EXCEPT ![item.path] = None]
      BY <2>3 DEF DeleteRemote, DeleteUnanswered, Deleting
    <3>2. p = item.path
      BY <2>1, <3>1 DEF Files
    <3> QED BY <2>1, <3>1, <3>2 DEF OInv, DropsSeen
  <2>4. ~User /\ ~Others
    BY <2>1 DEF User, Create, Edit, Move, Delete, Change, Others, ForeignWrite, ForeignDelete
  <2>5. Capture \/ Finalize => remote' = remote
    BY DEF Capture, Collect, List, HashFile, Plan, Collide, Finalize, FinalizeClean,
       FinalizeAsking
  <2>6. Apply => \/ remote' = remote
                 \/ \E item \in todo.push : Push(item)
                 \/ \E item \in todo.deleteRemote : DeleteRemote(item)
    BY DEF Apply, PushRefused, ReadBack, Pull, DeleteRefused, DeleteLocal
  <2>7. Failure => \/ remote' = remote
                   \/ \E item \in todo.push : PushUnanswered(item)
                   \/ \E item \in todo.deleteRemote : DeleteUnanswered(item)
    BY DEF Failure, Fail, Reload
  <2> QED
    BY <2>1, <2>2, <2>3, <2>4, <2>5, <2>6, <2>7 DEF Next, RoundStep
<1> QED BY InitOInv, NextKeepsOInv, <1>1, PTL DEF Spec, RemoteOverwriteKnown
-----------------------------------------------------------------------------
(***************************************************************************)
(* On git, as long as the user changes nothing while a round runs, the     *)
(* revision the snapshot pins for a file is the revision of the content    *)
(* whose hash stands beside it, so that the next round may skip reading    *)
(* the file.                                                               *)
(*                                                                         *)
(* The two are put together only at the end of a round, from the store as  *)
(* it is then and from the revisions the round came to know: those of the  *)
(* listing, of the files read since, and of its own writes.  That they fit *)
(* follows the content of every record through the round.                  *)
(***************************************************************************)

\* The map of the shortcut and the planner, which take the last and the first
\* entry for a path, find the same one.
OneEntryPerPath ==
    \A j, k \in 1 .. Len(snap) :
        snap[j] # None /\ snap[k] # None /\ snap[j].path = snap[k].path =>
            snap[j] = snap[k]

\* The hash a file is planned with is that of its newest known revision; it was
\* read, or stands in the snapshot.
HashesKnown == pc = "hash" =>
    \A p \in Paths :
        /\ hashes[p] # None => hashes[p] = revs[p]
        /\ texts[p] # None => texts[p] = hashes[p]
        /\ hashes[p] # None /\ texts[p] = None =>
              SnapAt(snap, p) # None /\ SnapAt(snap, p).hash = hashes[p]

\* While the plan is applied, a record either agrees with the newest known
\* revision of its file or has an item of the plan still before it.
AgreesOrPlanned == pc = "apply" /\ todo.conflicts = {} =>
    \A i \in Ids : local[i] # None =>
        \/ revs[local[i].path] \in {None, local[i].content}
        \/ \E item \in todo.push \cup todo.pull \cup todo.deleteLocal : item.id = i

\* A pull brings a content that was read, of the newest known revision.
PullsRead == pc = "apply" =>
    \A item \in todo.pull :
        texts[item.path] # None /\ texts[item.path] = revs[item.path]

\* The pulls have paths of their own, at which there is the record they
\* replace, or none if they bring a new one.
PullsApart == pc = "apply" =>
    /\ \A a, b \in todo.pull : a.path = b.path => a = b
    /\ \A a \in todo.pull, u \in todo.push : a.path # u.path
    /\ \A a \in todo.pull :
          IF a.id = None THEN \A i \in Ids : local[i] # None => local[i].path # a.path
          ELSE local[a.id] # None /\ local[a.id].path = a.path

\* There is one record to a path, and the records to push are there.
OneRecordPerPath == pc = "apply" =>
    /\ \A i, j \in Ids :
          local[i] # None /\ local[j] # None /\ local[i].path = local[j].path => i = j
    /\ \A u \in todo.push : mine[u.id] # None

GitInv ==
    /\ RevNamesHash /\ OneEntryPerPath /\ readback = None
    /\ HashesKnown /\ AgreesOrPlanned /\ PullsRead /\ PullsApart /\ OneRecordPerPath

RInv == SInv /\ (backend = "git" => GitInv)
-----------------------------------------------------------------------------
(* Entries, and items of a plan *)

\* The planner finds an entry of the path where there is one.
LEMMA SnapAtExists ==
    ASSUME NEW snapshot \in Snapshots, NEW p, NEW k \in 1 .. Len(snapshot),
           snapshot[k] # None, snapshot[k].path = p
    PROVE  \E m \in 1 .. Len(snapshot) :
               /\ snapshot[m] # None /\ snapshot[m].path = p
               /\ SnapAt(snapshot, p) = snapshot[m]
<1> DEFINE H == HitsAt(snapshot, p)
<1>1. k \in H /\ H \in SUBSET Nat
  BY DEF HitsAt, Snapshots
<1>2. PICK l \in H : \A j \in H : l <= j
  BY <1>1, LeastNatural
<1>3. \E m \in H : SnapAt(snapshot, p) = snapshot[m]
  BY <1>1, <1>2 DEF SnapAt
<1> QED BY <1>3 DEF HitsAt

\* What a clean round pins for a record.
LEMMA EntriesPin ==
    ASSUME NEW records, NEW known, NEW k \in 1 .. Len(IdOrder),
           Entries(records, known)[k] # None
    PROVE  /\ IdOrder[k] \in Ids /\ records[IdOrder[k]] # None
           /\ Entries(records, known)[k] =
                 [id |-> IdOrder[k], path |-> records[IdOrder[k]].path,
                  hash |-> records[IdOrder[k]].content,
                  rev |-> known[records[IdOrder[k]].path]]
BY IdOrderNamesIds DEF Entries

\* A pull carries the listed file of its path.
LEMMA PullCarries ==
    ASSUME NEW snapshot, NEW records, NEW files,
           NEW item \in planSync(snapshot, records, files).pull
    PROVE  item = [id |-> item.id, path |-> item.path, hash |-> files[item.path].hash,
                   rev |-> files[item.path].rev]
BY DEF planSync

\* A record the plan neither moves nor asks about is as the listed file.
LEMMA RestAgrees ==
    ASSUME NEW snapshot, NEW records, NEW files, NEW i \in Live(records),
           i \notin PushIds(snapshot, records, files),
           i \notin PullIds(snapshot, records, files),
           i \notin DropIds(snapshot, records, files),
           i \notin AskIds(snapshot, records, files)
    PROVE  LET p == records[i].path
           IN  files[p] # None /\ files[p].hash = records[i].content
BY DEF PushIds, PullIds, DropIds, AskIds, Pushes, Pulls, DropsLocal, Asks

\* Without a collision, one record travels to a path.
LEMMA OneTravels ==
    ASSUME NEW records \in Stores, collisions(records) = {},
           NEW i \in Live(records), NEW j \in Live(records),
           records[i].path = records[j].path
    PROVE  i = j
<1>1. records[i].path \in Paths
  BY DEF Live, Stores, Record
<1>2. i \in At(records, records[i].path) /\ j \in At(records, records[i].path)
  BY DEF At
<1> QED BY <1>1, <1>2 DEF collisions
-----------------------------------------------------------------------------
LEMMA InitRInv == Init => RInv
<1> SUFFICES ASSUME Init PROVE RInv
  OBVIOUS
<1>1. snap = <<>> /\ pc = "idle" /\ readback = None
  BY DEF Init
<1> QED
  BY <1>1, InitSInv DEF RInv, GitInv, RevNamesHash, OneEntryPerPath, HashesKnown,
     AgreesOrPlanned, PullsRead, PullsApart, OneRecordPerPath

\* Entries that are kept stay as they were.
LEMMA SnapKeeps ==
    ASSUME snap' = snap, backend' = backend
    PROVE  /\ RevNamesHash => RevNamesHash'
           /\ OneEntryPerPath => OneEntryPerPath'
BY DEF RevNamesHash, OneEntryPerPath

\* Outside a round nothing is promised but of the snapshot.
LEMMA LeaveKeepsRInv ==
    ASSUME RInv, SInv', Leave, backend' = backend, snap' = snap
    PROVE  RInv'
<1>1. pc' = "idle" /\ readback' = None
  BY DEF Leave
<1> QED
  BY <1>1, SnapKeeps DEF RInv, GitInv, HashesKnown, AgreesOrPlanned, PullsRead,
     PullsApart, OneRecordPerPath

\* The hash taken from the snapshot is that of the listed revision.
LEMMA ShortcutNames ==
    ASSUME RInv, backend = "git", NEW p \in Paths, Shortcut(p)
    PROVE  /\ LastAt(p).hash = remote[p]
           /\ SnapAt(snap, p) # None /\ SnapAt(snap, p).hash = remote[p]
<1>1. snap \in Snapshots /\ RevNamesHash /\ OneEntryPerPath
  BY DEF RInv, GitInv, SInv, SInvIn, KnownIn, TInv, TypeOK
<1>2. PICK k \in 1 .. Len(snap) : snap[k] = LastAt(p) /\ snap[k].path = p
  BY <1>1, LastAtFound DEF Shortcut
<1>3. snap[k] # None /\ snap[k].rev = remote[p] /\ remote[p] # None
  BY <1>2 DEF Shortcut
<1>4. snap[k].hash = remote[p]
  BY <1>1, <1>3 DEF RevNamesHash
<1>5. PICK m \in 1 .. Len(snap) :
          snap[m] # None /\ snap[m].path = p /\ SnapAt(snap, p) = snap[m]
  BY <1>1, <1>2, <1>3, SnapAtExists
<1>6. snap[m] = snap[k]
  BY <1>1, <1>2, <1>3, <1>5 DEF OneEntryPerPath
<1> QED BY <1>2, <1>4, <1>5, <1>6
-----------------------------------------------------------------------------
(* The plan of a round, made from the records and hashes it captured *)

LEMMA PlanKeepsRInv == RInv /\ Plan => RInv'
<1> SUFFICES ASSUME RInv, Plan, backend = "git" PROVE GitInv'
  BY WorkKeepsSInv DEF RInv, Capture, Plan, stored
<1> DEFINE plan == planSync(snap, mine, ListedEntries)
           Pushed == PushIds(snap, mine, ListedEntries)
           Pulled == PullIds(snap, mine, ListedEntries)
<1> USE DEF stored
<1>1. /\ todo' = plan /\ local' = local /\ local = mine /\ revs' = revs /\ texts' = texts
      /\ mine \in Stores /\ collisions(mine) = {} /\ snap \in Snapshots
      /\ pc = "hash" /\ pc' = "apply" /\ snap' = snap /\ readback' = None
      /\ backend' = backend
  BY DEF Plan, RInv, GitInv, SInv, SInvIn, KnownIn, TInv, TypeOK, LocalIsMine
<1>2. \A p \in Paths :
          ListedEntries[p] # None =>
              /\ hashes[p] # None /\ hashes[p] = revs[p]
              /\ ListedEntries[p].hash = hashes[p]
  BY <1>1 DEF ListedEntries, RInv, GitInv, HashesKnown
<1>3. \A i \in Live(mine) : i \in Ids /\ mine[i] # None /\ mine[i].path \in Paths
  BY <1>1 DEF Live, Stores, Record
<1>4. Pushed \subseteq Live(mine) /\ Pulled \subseteq Live(mine) /\ Pushed \cap Pulled = {}
      /\ None \notin Pulled
  BY <1>3, NoneIsNoValue DEF PushIds, PullIds, Pushes, Pulls
<1>5. \A item \in plan.pull :
          /\ item.path \in Paths
          /\ \/ item.id \in Pulled /\ item.path = mine[item.id].path
             \/ item.id = None /\ item.path \in RemoteOnly(mine, ListedEntries)
  BY <1>3, <1>4, PullItems DEF RemoteOnly
<1>6. AgreesOrPlanned'
  <2> SUFFICES ASSUME plan.conflicts = {}, NEW i \in Ids, mine[i] # None
               PROVE  \/ revs[mine[i].path] = mine[i].content
                      \/ \E item \in plan.push \cup plan.pull \cup plan.deleteLocal : item.id = i
    BY <1>1 DEF AgreesOrPlanned
  <2>1. i \in Live(mine) /\ mine[i].path \in Paths
    BY <1>3 DEF Live
  <2>2. i \notin AskIds(snap, mine, ListedEntries)
    BY ConflictItems
  <2>3. CASE i \in Pushed \cup Pulled \cup DropIds(snap, mine, ListedEntries)
    BY <2>3, PushItems, PullItems, DeleteLocalItems
  <2>4. CASE i \notin Pushed \cup Pulled \cup DropIds(snap, mine, ListedEntries)
    BY <1>2, <2>1, <2>2, <2>4, RestAgrees
  <2> QED BY <2>3, <2>4
<1>7. PullsRead'
  <2> SUFFICES ASSUME NEW item \in plan.pull
               PROVE  texts[item.path] # None /\ texts[item.path] = revs[item.path]
    BY <1>1 DEF PullsRead
  <2>1. ListedEntries[item.path] # None /\ item.path \in Paths
    BY <1>5 DEF RemoteOnly, PullIds, Pulls
  <2>2. \/ SnapAt(snap, item.path) = None
        \/ ListedEntries[item.path].hash # SnapAt(snap, item.path).hash
    <3>1. CASE item.id \in Pulled
      BY <3>1, <1>4, <1>5 DEF PullIds, Pulls
    <3>2. CASE item.id \notin Pulled
      BY <3>2, PullItems DEF Arrives
    <3> QED BY <3>1, <3>2
  <2> QED BY <1>1, <1>2, <2>1, <2>2 DEF RInv, GitInv, HashesKnown
<1>8. \A i, j \in Live(mine) : mine[i].path = mine[j].path => i = j
  BY <1>1, OneTravels
<1>9. PullsApart'
  <2>1. ASSUME NEW a \in plan.pull, NEW b \in plan.pull, a.path = b.path PROVE a = b
    <3>1. a.id = b.id
      BY <1>3, <1>4, <1>5, <1>8, <2>1 DEF RemoteOnly, At
    <3> QED BY <2>1, <3>1, PullCarries
  <2>2. ASSUME NEW a \in plan.pull, NEW u \in plan.push PROVE a.path # u.path
    <3>1. u.id \in Pushed /\ u.path = mine[u.id].path
      BY PushItems
    <3> QED BY <1>3, <1>4, <1>5, <1>8, <3>1 DEF RemoteOnly, At
  <2>3. ASSUME NEW a \in plan.pull
        PROVE  IF a.id = None THEN \A i \in Ids : mine[i] # None => mine[i].path # a.path
               ELSE mine[a.id] # None /\ mine[a.id].path = a.path
    BY <1>3, <1>4, <1>5 DEF RemoteOnly, At, Live
  <2> QED BY <1>1, <2>1, <2>2, <2>3 DEF PullsApart
<1>10. OneRecordPerPath'
  <2>1. \A u \in plan.push : mine[u.id] # None
    BY <1>3, <1>4, PushItems
  <2>2. mine' = mine
    BY DEF Plan
  <2> QED BY <1>1, <1>8, <2>1, <2>2 DEF OneRecordPerPath, Live
<1> QED
  BY <1>1, <1>6, <1>7, <1>9, <1>10, SnapKeeps DEF RInv, GitInv, HashesKnown

LEMMA CaptureKeepsRInv == RInv /\ Capture => RInv'
<1> SUFFICES ASSUME RInv, Capture PROVE RInv'
  OBVIOUS
<1>0. SInv'
  BY WorkKeepsSInv DEF RInv
<1> USE DEF stored
<1>1. CASE Collect
  BY <1>0, <1>1, SnapKeeps DEF Collect, RInv, GitInv, HashesKnown, AgreesOrPlanned,
     PullsRead, PullsApart, OneRecordPerPath
<1>2. CASE List
  <2> SUFFICES ASSUME backend = "git" PROVE HashesKnown'
    BY <1>0, <1>2, SnapKeeps DEF List, RInv, GitInv, AgreesOrPlanned,
       PullsRead, PullsApart, OneRecordPerPath
  <2>1. texts' = NoFiles /\ snap' = snap /\ revs' = remote
    BY <1>2 DEF List, RInv, SInv, SInvIn, KnownIn, TInv, TypeOK
  <2>2. \A p \in Paths : hashes'[p] = IF Shortcut(p) THEN LastAt(p).hash ELSE None
    BY <1>2 DEF List
  <2> QED BY <2>1, <2>2, ShortcutNames DEF HashesKnown, NoFiles
<1>3. ASSUME NEW p \in Paths, HashFile(p) PROVE RInv'
  <2> SUFFICES ASSUME backend = "git" PROVE HashesKnown'
    BY <1>0, <1>3, SnapKeeps DEF HashFile, RInv, GitInv, AgreesOrPlanned,
       PullsRead, PullsApart, OneRecordPerPath
  <2>1. /\ hashes \in Files /\ texts \in Files /\ revs \in Files
        /\ snap' = snap /\ HashesKnown /\ pc = "hash"
    BY <1>3 DEF HashFile, RInv, GitInv, SInv, SInvIn, KnownIn, TInv, TypeOK
  <2>2. \A q \in Paths :
            /\ hashes'[q] = IF q = p THEN remote[p] ELSE hashes[q]
            /\ texts'[q] = IF q = p THEN remote[p] ELSE texts[q]
            /\ revs'[q] = IF q = p /\ remote[p] # None THEN remote[p] ELSE revs[q]
    BY <1>3, <2>1 DEF HashFile, Files
  <2> QED BY <2>1, <2>2 DEF HashesKnown
<1>4. CASE Plan
  BY <1>4, PlanKeepsRInv
<1>5. CASE Collide
  BY <1>0, <1>5, LeaveKeepsRInv DEF Collide, Throw
<1> QED
  BY <1>1, <1>2, <1>3, <1>4, <1>5 DEF Capture
-----------------------------------------------------------------------------
(* The plan applied *)

\* A push makes its content the newest revision of its file, where no other
\* record is and nothing is to be pulled.
LEMMA PushKeepsRInv ==
    ASSUME RInv, SInv', backend = "git", NEW item \in todo.push, Push(item)
    PROVE  GitInv'
<1> USE DEF stored
<1>1. /\ todo'.push = todo.push \ {item} /\ todo'.pull = todo.pull
      /\ todo'.deleteLocal = todo.deleteLocal /\ todo'.conflicts = todo.conflicts
  BY DEF Push, RInv, SInv, SInvIn, KnownIn, TInv, TypeOK, PlanType
<1>2. /\ local' = local /\ mine' = mine /\ local = mine /\ texts' = texts
      /\ pc = "apply" /\ pc' = "apply" /\ snap' = snap /\ backend' = backend
      /\ readback' = None
  BY DEF Push, Pushing, RInv, GitInv, SInv, SInvIn, KnownIn, LocalIsMine
<1>3. item.path \in Paths /\ item.id \in Ids
  BY TodoItems DEF RInv, SInv, SInvIn, KnownIn, TInv, TypeOK
<1>4. \A q \in Paths : revs'[q] = IF q = item.path THEN mine[item.id].content ELSE revs[q]
  BY <1>3 DEF Push, RInv, SInv, SInvIn, KnownIn, TInv, TypeOK, Files
<1>5. \A i \in Ids : local[i] # None =>
          local[i].path \in Paths /\ (local[i].path = item.path => i = item.id)
  BY <1>2, <1>3 DEF RInv, GitInv, OneRecordPerPath, SInv, SInvIn, KnownIn, TInv, PushesMine, TypeOK,
     Stores, Record
<1>6. AgreesOrPlanned'
  <2> SUFFICES ASSUME todo.conflicts = {}, NEW i \in Ids, local[i] # None
               PROVE  \/ revs'[local[i].path] \in {None, local[i].content}
                      \/ \E it \in todo'.push \cup todo'.pull \cup todo'.deleteLocal : it.id = i
    BY <1>1, <1>2 DEF AgreesOrPlanned
  <2>1. CASE i = item.id
    BY <1>2, <1>3, <1>4, <2>1 DEF RInv, SInv, SInvIn, KnownIn, TInv, PushesMine
  <2>2. CASE i # item.id
    BY <1>1, <1>2, <1>4, <1>5, <2>2 DEF RInv, GitInv, AgreesOrPlanned
  <2> QED BY <2>1, <2>2
<1>7. PullsRead'
  <2>1. \A it \in todo.pull : it.path \in Paths /\ it.path # item.path
    BY <1>2, TodoItems DEF RInv, GitInv, PullsApart, SInv, SInvIn, KnownIn, TInv, TypeOK
  <2> QED BY <1>1, <1>2, <1>4, <2>1 DEF RInv, GitInv, PullsRead
<1> QED
  BY <1>1, <1>2, <1>6, <1>7, SnapKeeps DEF RInv, GitInv, HashesKnown, PullsApart,
     OneRecordPerPath

\* A pull puts the content of the newest known revision where a record of that
\* path, or none, was.
LEMMA PullKeepsRInv ==
    ASSUME RInv, SInv', backend = "git", NEW item \in todo.pull, Pull(item)
    PROVE  GitInv'
<1>1. /\ todo'.push = {} /\ todo.push = {} /\ todo'.pull = todo.pull \ {item}
      /\ todo'.deleteLocal = todo.deleteLocal /\ todo'.conflicts = todo.conflicts
  BY DEF Pull, Pulling, RInv, SInv, SInvIn, KnownIn, TInv, TypeOK, PlanType
<1>2. /\ revs' = revs /\ texts' = texts /\ pc = "apply" /\ pc' = "apply"
      /\ snap' = snap /\ backend' = backend /\ readback' = None /\ mine' = mine
  BY DEF Pull, Pulling
<1>3. /\ TextOf(item.path) = revs[item.path] /\ TextOf(item.path) # None
      /\ item.id \in Ids \cup {None}
  BY <1>2, TodoItems DEF RInv, GitInv, PullsRead, TextOf, SInv, SInvIn, KnownIn, TInv, TypeOK
<1> DEFINE new == [path |-> item.path, content |-> revs[item.path]]
<1>4. PICK j \in Ids : /\ IF item.id = None THEN local[j] = None ELSE j = item.id
                       /\ local' = [local EXCEPT ![j] = new]
  BY <1>3 DEF Pull, Fresh
<1>5. \A i \in Ids : local'[i] = IF i = j THEN new ELSE local[i]
  BY <1>4 DEF RInv, SInv, SInvIn, KnownIn, TInv, TypeOK, Stores
<1>6. \A i \in Ids : i # j /\ local[i] # None => local[i].path # item.path
  BY <1>2, <1>4 DEF RInv, GitInv, PullsApart, OneRecordPerPath
<1>7. new.path = item.path /\ new.content = revs[item.path]
  OBVIOUS
<1> HIDE DEF new
<1>8. AgreesOrPlanned'
  <2> SUFFICES ASSUME todo.conflicts = {}, NEW i \in Ids, local'[i] # None
               PROVE  \/ revs[local'[i].path] \in {None, local'[i].content}
                      \/ \E it \in todo'.push \cup todo'.pull \cup todo'.deleteLocal : it.id = i
    BY <1>1, <1>2 DEF AgreesOrPlanned
  <2>1. CASE i = j
    BY <1>5, <1>7, <2>1
  <2>2. CASE i # j
    <3>1. item.id # i
      BY <1>4, <2>2, NoneIsNoValue
    <3> QED BY <1>1, <1>2, <1>5, <2>2, <3>1 DEF RInv, GitInv, AgreesOrPlanned
  <2> QED BY <2>1, <2>2
<1>9. PullsRead'
  BY <1>1, <1>2 DEF RInv, GitInv, PullsRead
<1>10. PullsApart'
  <2>1. /\ \A a, b \in todo.pull : a.path = b.path => a = b
        /\ \A a \in todo.pull :
              IF a.id = None THEN \A i \in Ids : local[i] # None => local[i].path # a.path
              ELSE local[a.id] # None /\ local[a.id].path = a.path
        /\ \A a \in todo.pull : a.id \in Ids \cup {None}
    BY <1>2, TodoItems DEF RInv, GitInv, PullsApart, SInv, SInvIn, KnownIn, TInv, TypeOK
  <2> SUFFICES ASSUME NEW a \in todo.pull, a # item
               PROVE  IF a.id = None THEN \A i \in Ids : local'[i] # None => local'[i].path # a.path
                      ELSE local'[a.id] # None /\ local'[a.id].path = a.path
    BY <1>1, <1>2, <2>1 DEF PullsApart
  <2>2. a.path # item.path
    BY <2>1
  <2>3. CASE a.id = None
    BY <1>5, <1>7, <2>1, <2>2, <2>3
  <2>4. CASE a.id # None
    <3>1. a.id # j
      BY <1>4, <2>1, <2>2, <2>4
    <3> QED BY <1>5, <2>1, <2>4, <3>1
  <2> QED BY <2>3, <2>4
<1>11. OneRecordPerPath'
  BY <1>1, <1>2, <1>5, <1>6, <1>7 DEF RInv, GitInv, OneRecordPerPath
<1> QED
  BY <1>2, <1>8, <1>9, <1>10, <1>11, SnapKeeps DEF RInv, GitInv, HashesKnown

LEMMA ApplyKeepsRInv == RInv /\ Apply => RInv'
<1> SUFFICES ASSUME RInv, Apply PROVE RInv'
  OBVIOUS
<1>0. SInv'
  BY WorkKeepsSInv DEF RInv
<1> USE DEF stored
<1>1. ASSUME NEW item \in todo.push, Push(item) PROVE RInv'
  BY <1>0, <1>1, PushKeepsRInv DEF RInv, Push
<1>2. ASSUME NEW item \in todo.push, PushRefused(item) PROVE RInv'
  BY <1>0, <1>2, LeaveKeepsRInv DEF PushRefused, Throw
<1>3. CASE ReadBack
  BY <1>0, <1>3 DEF ReadBack, RInv, GitInv
<1>4. ASSUME NEW item \in todo.pull, Pull(item) PROVE RInv'
  BY <1>0, <1>4, PullKeepsRInv DEF RInv, Pull
<1>5. ASSUME NEW item \in todo.deleteRemote, DeleteRemote(item) PROVE RInv'
  <2>1. /\ todo'.push = todo.push /\ todo'.pull = todo.pull
        /\ todo'.deleteLocal = todo.deleteLocal /\ todo'.conflicts = todo.conflicts
    BY <1>5 DEF DeleteRemote, RInv, SInv, SInvIn, KnownIn, TInv, TypeOK, PlanType
  <2> QED
    BY <1>0, <1>5, <2>1, SnapKeeps DEF DeleteRemote, RInv, GitInv, HashesKnown,
       AgreesOrPlanned, PullsRead, PullsApart, OneRecordPerPath
<1>6. ASSUME NEW item \in todo.deleteRemote, DeleteRefused(item) PROVE RInv'
  BY <1>0, <1>6, LeaveKeepsRInv DEF DeleteRefused, Throw
<1>7. ASSUME NEW item \in todo.deleteLocal, DeleteLocal(item) PROVE RInv'
  <2>1. /\ todo'.push = {} /\ todo.push = {} /\ todo'.pull = {} /\ todo.pull = {}
        /\ todo'.deleteLocal = todo.deleteLocal \ {item} /\ todo'.conflicts = todo.conflicts
    BY <1>7 DEF DeleteLocal, RInv, SInv, SInvIn, KnownIn, TInv, TypeOK, PlanType
  <2>2. \A i \in Ids : local'[i] = IF i = item.id THEN None ELSE local[i]
    BY <1>7 DEF DeleteLocal, RInv, SInv, SInvIn, KnownIn, TInv, TypeOK, Stores
  <2>3. /\ revs' = revs /\ pc = "apply" /\ pc' = "apply" /\ snap' = snap
        /\ backend' = backend /\ readback' = readback
    BY <1>7 DEF DeleteLocal
  <2> QED
    BY <1>0, <2>1, <2>2, <2>3, SnapKeeps DEF RInv, GitInv, HashesKnown,
       AgreesOrPlanned, PullsRead, PullsApart, OneRecordPerPath
<1> QED
  BY <1>1, <1>2, <1>3, <1>4, <1>5, <1>6, <1>7 DEF Apply
-----------------------------------------------------------------------------
(* The end of a round, and what happens beside it *)

\* A clean round has no item left, so every record agrees with its revision.
LEMMA FinalizeKeepsRInv == RInv /\ Finalize => RInv'
<1> SUFFICES ASSUME RInv, Finalize PROVE RInv'
  OBVIOUS
<1>0. SInv'
  BY WorkKeepsSInv DEF RInv
<1>1. CASE FinalizeClean
  <2> SUFFICES ASSUME backend = "git" PROVE RevNamesHash' /\ OneEntryPerPath'
    BY <1>0, <1>1 DEF FinalizeClean, Leave, RInv, GitInv, HashesKnown, AgreesOrPlanned,
       PullsRead, PullsApart, OneRecordPerPath
  <2>1. /\ snap' = Entries(local, revs) /\ pc = "apply" /\ todo.conflicts = {}
        /\ todo.push = {} /\ todo.pull = {} /\ todo.deleteLocal = {}
        /\ Len(snap') = Len(IdOrder)
    BY <1>1, EntriesType DEF FinalizeClean, Applied, RInv, SInv, SInvIn, KnownIn, TInv, TypeOK
  <2>2. \A i \in Ids : local[i] # None => revs[local[i].path] \in {None, local[i].content}
    BY <2>1 DEF RInv, GitInv, AgreesOrPlanned
  <2>3. \A k \in 1 .. Len(snap') : snap'[k] # None =>
            /\ IdOrder[k] \in Ids /\ local[IdOrder[k]] # None
            /\ snap'[k] = [id |-> IdOrder[k], path |-> local[IdOrder[k]].path,
                           hash |-> local[IdOrder[k]].content,
                           rev |-> revs[local[IdOrder[k]].path]]
    BY <2>1, EntriesPin
  <2>4. \A k \in 1 .. Len(snap') : snap'[k] # None =>
            /\ snap'[k].path = local[IdOrder[k]].path
            /\ snap'[k].hash = local[IdOrder[k]].content
            /\ snap'[k].rev = revs[local[IdOrder[k]].path]
    <3> TAKE k \in 1 .. Len(snap')
    <3> HAVE snap'[k] # None
    <3>1. snap'[k] = [id |-> IdOrder[k], path |-> local[IdOrder[k]].path,
                      hash |-> local[IdOrder[k]].content,
                      rev |-> revs[local[IdOrder[k]].path]]
      BY <2>3
    <3> QED BY <3>1
  <2>5. RevNamesHash'
    BY <2>2, <2>3, <2>4 DEF RevNamesHash
  <2>6. OneEntryPerPath'
    <3> SUFFICES ASSUME NEW j \in 1 .. Len(snap'), NEW k \in 1 .. Len(snap'),
                        snap'[j] # None, snap'[k] # None, snap'[j].path = snap'[k].path
                 PROVE  snap'[j] = snap'[k]
      BY DEF OneEntryPerPath
    <3>1. /\ IdOrder[j] \in Ids /\ local[IdOrder[j]] # None
          /\ IdOrder[k] \in Ids /\ local[IdOrder[k]] # None
          /\ local[IdOrder[j]].path = local[IdOrder[k]].path
      BY <2>3, <2>4
    <3>2. IdOrder[j] = IdOrder[k]
      BY <2>1, <3>1 DEF RInv, GitInv, OneRecordPerPath
    <3> QED BY <2>3, <3>2
  <2> QED BY <2>5, <2>6
<1>2. CASE FinalizeAsking
  BY <1>0, <1>2, LeaveKeepsRInv DEF FinalizeAsking, stored
<1> QED BY <1>1, <1>2 DEF Finalize

LEMMA FailureKeepsRInv == RInv /\ Failure => RInv'
<1> SUFFICES ASSUME RInv, Failure PROVE RInv'
  OBVIOUS
<1>1. SInv'
  BY WorkKeepsSInv DEF RInv
<1>2. Leave /\ backend' = backend /\ snap' = snap
  BY DEF Failure, PushUnanswered, DeleteUnanswered, Fail, Reload, Throw, stored
<1> QED BY <1>1, <1>2, LeaveKeepsRInv

LEMMA UserKeepsRInv ==
    ASSUME EditsDuringRound = FALSE
    PROVE  RInv /\ User => RInv'
<1> SUFFICES ASSUME RInv, User PROVE RInv'
  OBVIOUS
<1>1. SInv'
  BY UserKeepsShared DEF RInv
<1>2. /\ pc = "idle" /\ pc' = pc /\ snap' = snap /\ backend' = backend
      /\ readback' = readback
  BY DEF User, Create, Edit, Move, Delete, Change, UserMay, round
<1> QED
  BY <1>1, <1>2, SnapKeeps DEF RInv, GitInv, HashesKnown, AgreesOrPlanned, PullsRead,
     PullsApart, OneRecordPerPath

\* What other devices write reaches a round only through what it reads.
LEMMA OthersKeepRInv == RInv /\ Others => RInv'
<1> SUFFICES ASSUME RInv, Others PROVE RInv'
  OBVIOUS
<1>1. SInv'
  BY WorkKeepsSInv DEF RInv
<1>2. UNCHANGED <<stored, round>>
  BY DEF Others, ForeignDelete, ForeignWrite
<1> QED
  BY <1>1, <1>2, SnapKeeps DEF RInv, GitInv, HashesKnown, AgreesOrPlanned, PullsRead,
     PullsApart, OneRecordPerPath, stored, round

LEMMA NextKeepsRInv ==
    ASSUME EditsDuringRound = FALSE
    PROVE  RInv /\ [Next]_vars => RInv'
<1> SUFFICES ASSUME RInv, [Next]_vars PROVE RInv'
  OBVIOUS
<1>1. CASE Next
  BY <1>1, CaptureKeepsRInv, ApplyKeepsRInv, FinalizeKeepsRInv, FailureKeepsRInv,
     UserKeepsRInv, OthersKeepRInv DEF Next, RoundStep
<1>2. CASE UNCHANGED vars
  <2>1. SInv'
    BY <1>2, NextKeepsSInv DEF RInv
  <2> QED
    BY <1>2, <2>1, SnapKeeps DEF vars, RInv, GitInv, HashesKnown, AgreesOrPlanned,
       PullsRead, PullsApart, OneRecordPerPath
<1> QED BY <1>1, <1>2

\* On git, if the user changes nothing while a round runs, the revision pinned
\* in the snapshot is that of the content hashed there, whatever fails and
\* whatever other devices write between the listing, the reads and the writes.
THEOREM RevisionsNameHashes ==
    ASSUME EditsDuringRound = FALSE
    PROVE  Spec => []RevNamesHash
<1>1. RInv => RevNamesHash
  BY DEF RInv, GitInv, RevNamesHash
<1> QED BY InitRInv, NextKeepsRInv, <1>1, PTL DEF Spec
-----------------------------------------------------------------------------
(***************************************************************************)
(* Rounds and answers to their conflicts together, whatever other devices  *)
(* do meanwhile: the types; that a local version is lost only in the ways  *)
(* that are named; that an answered path stays answered.                   *)
(***************************************************************************)

\* The function that keeps the entries of other records, unfolded.
LEMMA EntriesButUnfolds ==
    ASSUME snap \in Snapshots, NEW i
    PROVE  \E kept :
               /\ EntriesBut(i) = kept[Len(snap)]
               /\ kept[0] = <<>>
               /\ \A n \in 1 .. Len(snap) :
                     kept[n] = IF snap[n] # None /\ snap[n].id # i
                               THEN Append(kept[n - 1], snap[n]) ELSE kept[n - 1]
<1> DEFINE N == Len(snap)
           Step(f, n) == IF n = 0 THEN <<>>
                         ELSE IF snap[n] # None /\ snap[n].id # i THEN Append(f[n - 1], snap[n])
                         ELSE f[n - 1]
           Built(f, m) == f = [n \in 0 .. m |-> Step(f, n)]
           Bad == {m \in Nat : ~\E f : Built(f, m)}
<1>0. N \in Nat
  BY DEF Snapshots
<1>1. Bad = {}
  <2> SUFFICES ASSUME Bad # {} PROVE FALSE
    OBVIOUS
  <2>1. PICK m \in Bad : \A j \in Bad : m <= j
    BY LeastNatural
  <2>2. CASE m = 0
    <3> DEFINE f == [n \in 0 .. 0 |-> <<>>]
    <3>1. Built(f, 0)
      OBVIOUS
    <3> QED BY <2>1, <2>2, <3>1
  <2>3. CASE m # 0
    <3>1. m - 1 \in Nat /\ m - 1 \notin Bad
      <4>1. m \in Nat
        OBVIOUS
      <4>2. m - 1 \in Nat /\ ~(m <= m - 1)
        BY <2>3, <4>1
      <4> HIDE DEF Bad
      <4> QED BY <2>1, <4>2
    <3>2. PICK f : Built(f, m - 1)
      BY <3>1
    <3> DEFINE g == [n \in 0 .. m |-> IF n < m THEN f[n] ELSE Step(f, n)]
    <3>3. \A n \in 0 .. m - 1 : f[n] = Step(f, n)
      BY <3>2
    <3>4. \A n \in 0 .. m : Step(g, n) = Step(f, n)
      <4> SUFFICES ASSUME NEW n \in 0 .. m, n # 0 PROVE g[n - 1] = f[n - 1]
        OBVIOUS
      <4> QED BY <2>1
    <3>5. \A n \in 0 .. m : g[n] = Step(f, n)
      <4> HIDE DEF Step
      <4> QED BY <2>1, <3>3
    <3>6. Built(g, m)
      <4> HIDE DEF Step
      <4> QED BY <3>4, <3>5
    <3> QED BY <2>1, <3>6
  <2> QED BY <2>2, <2>3
<1>2. PICK f : Built(f, N)
  BY <1>0, <1>1
<1> DEFINE kept == CHOOSE h : Built(h, N)
<1>3. Built(kept, N)
  <2> HIDE DEF Built
  <2> QED BY <1>2
<1>4. EntriesBut(i) = kept[N]
  BY DEF EntriesBut
<1>5. \A n \in 0 .. N : kept[n] = Step(kept, n)
  <2> HIDE DEF kept
  <2> QED BY <1>3
<1> HIDE DEF kept
<1>6. /\ kept[0] = <<>>
      /\ \A n \in 1 .. N : kept[n] = IF snap[n] # None /\ snap[n].id # i
                               THEN Append(kept[n - 1], snap[n]) ELSE kept[n - 1]
  BY <1>0, <1>5
<1> QED BY <1>4, <1>6

\* What it keeps: the entries of other records, all of them and nothing else.
LEMMA EntriesButKeeps ==
    ASSUME snap \in Snapshots, NEW i
    PROVE  /\ EntriesBut(i) \in Snapshots
           /\ \A k \in 1 .. Len(EntriesBut(i)) :
                 \E j \in 1 .. Len(snap) :
                    /\ EntriesBut(i)[k] = snap[j] /\ snap[j] # None /\ snap[j].id # i
           /\ \A j \in 1 .. Len(snap) : snap[j] # None /\ snap[j].id # i =>
                 \E k \in 1 .. Len(EntriesBut(i)) : EntriesBut(i)[k] = snap[j]
<1> DEFINE N == Len(snap)
           Other(j) == snap[j] # None /\ snap[j].id # i
<1>1. PICK kept :
               /\ EntriesBut(i) = kept[N]
               /\ kept[0] = <<>>
               /\ \A n \in 1 .. N :
                     kept[n] = IF Other(n) THEN Append(kept[n - 1], snap[n]) ELSE kept[n - 1]
  BY EntriesButUnfolds
<1> DEFINE Right(n) ==
             /\ kept[n] \in Snapshots
             /\ \A k \in 1 .. Len(kept[n]) : \E j \in 1 .. n : kept[n][k] = snap[j] /\ Other(j)
             /\ \A j \in 1 .. n : Other(j) =>
                   \E k \in 1 .. Len(kept[n]) : kept[n][k] = snap[j]
           Wrong == {n \in 0 .. N : ~Right(n)}
<1>2. N \in Nat /\ \A n \in 1 .. N : snap[n] \in SnapEntry \cup {None}
  BY DEF Snapshots
<1>3. Wrong = {}
  <2> SUFFICES ASSUME Wrong # {} PROVE FALSE
    OBVIOUS
  <2>1. PICK n \in Wrong : \A j \in Wrong : n <= j
    <3>1. Wrong \in SUBSET Nat
      BY <1>2
    <3> HIDE DEF Wrong
    <3> QED BY <3>1, LeastNatural
  <2>2. n \in 0 .. N /\ ~Right(n)
    BY <2>1
  <2>3. n # 0
    <3>1. Right(0)
      BY <1>1 DEF Snapshots
    <3> QED BY <2>2, <3>1
  <2>4. n \in 1 .. N /\ n - 1 \in 0 .. N /\ ~(n <= n - 1)
    BY <1>2, <2>2, <2>3
  <2>5. Right(n - 1)
    <3> HIDE DEF Right
    <3> QED BY <2>1, <2>4
  <2> DEFINE old == kept[n - 1]
             new == kept[n]
  <2>6. old \in Snapshots /\ Len(old) \in Nat
    BY <2>5 DEF Snapshots
  <2>7. CASE Other(n)
    <3>1. new = Append(old, snap[n])
      BY <1>1, <2>4, <2>7
    <3>2. /\ new \in Snapshots /\ Len(new) = Len(old) + 1
          /\ new[Len(old) + 1] = snap[n] /\ \A k \in 1 .. Len(old) : new[k] = old[k]
      <4>1. snap[n] \in SnapEntry \cup {None}
        BY <1>2, <2>4
      <4> QED BY <2>6, <3>1, <4>1, AppendProperties DEF Snapshots
    <3>3. \A k \in 1 .. Len(new) : \E j \in 1 .. n : new[k] = snap[j] /\ Other(j)
      <4> TAKE k \in 1 .. Len(new)
      <4>1. CASE k = Len(old) + 1
        BY <2>4, <2>7, <3>2, <4>1
      <4>2. CASE k # Len(old) + 1
        <5>1. k \in 1 .. Len(old)
          BY <2>6, <3>2, <4>2
        <5>2. PICK j \in 1 .. n - 1 : old[k] = snap[j] /\ Other(j)
          BY <2>5, <5>1
        <5> QED BY <2>4, <3>2, <5>1, <5>2
      <4> QED BY <4>1, <4>2
    <3>4. \A j \in 1 .. n : Other(j) => \E k \in 1 .. Len(new) : new[k] = snap[j]
      <4> TAKE j \in 1 .. n
      <4> HAVE Other(j)
      <4>1. CASE j = n
        BY <2>6, <3>2, <4>1
      <4>2. CASE j # n
        <5>1. j \in 1 .. n - 1
          BY <2>4, <4>2
        <5>2. PICK k \in 1 .. Len(old) : old[k] = snap[j]
          BY <2>5, <5>1
        <5> QED BY <2>6, <3>2, <5>2
      <4> QED BY <4>1, <4>2
    <3> QED BY <2>2, <3>2, <3>3, <3>4
  <2>8. CASE ~Other(n)
    <3>1. new = old
      BY <1>1, <2>4, <2>8
    <3>2. \A j \in 1 .. n - 1 : j \in 1 .. n
      BY <2>4
    <3>3. \A j \in 1 .. n : Other(j) => j \in 1 .. n - 1
      BY <2>4, <2>8
    <3>4. \A k \in 1 .. Len(new) : \E j \in 1 .. n : new[k] = snap[j] /\ Other(j)
      BY <2>5, <3>1, <3>2
    <3>5. \A j \in 1 .. n : Other(j) => \E k \in 1 .. Len(new) : new[k] = snap[j]
      BY <2>5, <3>1, <3>3
    <3> QED BY <2>2, <2>6, <3>1, <3>4, <3>5
  <2> QED BY <2>7, <2>8
<1>4. Right(N)
  BY <1>2, <1>3
<1> QED BY <1>1, <1>4

\* An entry is pinned after those of the others, or only they stay.
LEMMA PinEntryEnds ==
    ASSUME snap \in Snapshots, NEW i, NEW e \in SnapEntry
    PROVE  LET s == PinEntry(i, <<e>>)
               n == Len(EntriesBut(i))
           IN  /\ s \in Snapshots /\ n \in Nat /\ Len(s) = n + 1 /\ s[n + 1] = e
               /\ \A k \in 1 .. n : s[k] = EntriesBut(i)[k]
<1>1. EntriesBut(i) \in Seq(SnapEntry \cup {None}) /\ <<e>> \in Seq(SnapEntry \cup {None})
  BY EntriesButKeeps DEF Snapshots
<1>2. Len(<<e>>) = 1 /\ <<e>>[1] = e
  OBVIOUS
<1> DEFINE t == <<e>>
<1> HIDE DEF t
<1> QED
  BY <1>1, <1>2, ConcatProperties DEF PinEntry, Snapshots, t

LEMMA DropEntryEnds ==
    ASSUME snap \in Snapshots, NEW i
    PROVE  PinEntry(i, <<>>) = EntriesBut(i)
BY EntriesButKeeps, ConcatEmptySeq DEF PinEntry, Snapshots
-----------------------------------------------------------------------------
(* Types *)

\* A resolution is under way while its request runs, on a conflict it found.
Prompted ==
    /\ Answering => pc # "idle" /\ target \in asked
    /\ Answering /\ pc = "apply" => stage # "none"
    /\ stage \in {"write", "free", "pin"} => choice = "local"
    /\ stage \in {"adopt", "pinTheirs"} => choice = "remote"
    /\ stage # "none" => conflict.id = target
    /\ stage \in {"free", "pin"} => mine[target] # None
    /\ stage = "pinTheirs" => conflict.remote # None

QInv == TInv /\ RTypeOK /\ Prompted

LEMMA InitQInv == RInit => QInv
BY InitTInv DEF RInit, QInv, RTypeOK, TInv, Prompted, Answering

\* The entry a resolution finds for a record is one of the snapshot.
LEMMA BeforeFound ==
    ASSUME snap \in Snapshots, NEW i, Before(i) # None
    PROVE  \E k \in Slots(i) :
               Before(i) = snap[k] /\ snap[k] \in SnapEntry /\ k \in 1 .. Len(snap)
<1>1. Slots(i) # {} /\ Slots(i) \in SUBSET Nat
  BY DEF Before, Slots, Snapshots
<1>2. PICK k \in Slots(i) : \A j \in Slots(i) : k <= j
  BY <1>1, LeastNatural
<1>3. \E m \in Slots(i) : Before(i) = snap[m]
  BY <1>1, <1>2 DEF Before
<1> QED BY <1>3 DEF Slots, Snapshots

LEMMA ConflictsTyped ==
    ASSUME todo \in PlanType
    PROVE  \A c \in todo.conflicts :
               /\ c.id \in Ids /\ c.path \in Paths
               /\ c.remote \in Listed \cup {None}
BY DEF PlanType

\* The prompt is not there while the sync leaves it alone.
LEMMA RoundKeepsQInv ==
    ASSUME QInv, RoundOnly(Next)
    PROVE  QInv'
BY NextKeepsTInv DEF RoundOnly, QInv, RTypeOK, TInv, Prompted, Answering, prompt, history

\* The end of a resolution, whatever it has done to the store.
LEMMA ReturnKeepsQInv ==
    ASSUME QInv, NEW rest \in SUBSET Ids, Return(rest), backend' = backend, local' = local,
           remote' = remote, snap' \in Snapshots, lastError' \in Codes \cup {None},
           UNCHANGED <<edits, foreign, published>>, failures' \in Nat,
           unsent' \subseteq Paths \X Contents
    PROVE  QInv'
<1>1. TInv'
  BY LeaveKeepsTInv DEF QInv, TInv, TypeOK, Return
<1> QED
  BY <1>1 DEF Return, QInv, RTypeOK, TInv, Prompted, Answering

\* A round, the user and other devices leave the prompt alone.
LEMMA AskUserKeepsQInv == QInv /\ AskUser => QInv'
<1> SUFFICES ASSUME QInv, AskUser PROVE QInv'
  OBVIOUS
<1>1. TInv'
  BY FinalizeKeepsTInv DEF AskUser, Finalize, QInv
<1>2. asked' \subseteq Ids
  BY ConflictsTyped DEF AskUser, QInv, TInv, TypeOK
<1> QED
  BY <1>1, <1>2 DEF AskUser, FinalizeAsking, Leave, QInv, RTypeOK, TInv, Prompted, Answering,
     history

LEMMA OutsideKeepsQInv ==
    QInv /\ (Later \/ (asked = {} /\ User /\ UNCHANGED prompt) \/ Meanwhile) => QInv'
<1> SUFFICES ASSUME QInv,
                    Later \/ (asked = {} /\ User /\ UNCHANGED prompt)
                          \/ Meanwhile
             PROVE  QInv'
  OBVIOUS
<1> USE DEF prompt, history
<1>1. CASE Later
  <2>1. TInv'
    BY <1>1, NextKeepsTInv DEF Later, QInv
  <2> QED
    BY <1>1, <2>1 DEF Later, vars, bounds, QInv, RTypeOK, TInv, Prompted, Answering
<1>2. CASE asked = {} /\ User /\ UNCHANGED prompt
  <2>1. TInv'
    BY <1>2, UserKeepsTInv DEF QInv
  <2>2. ~Answering /\ stage = "none" /\ conflict = None
    BY <1>2 DEF QInv, RTypeOK, Prompted
  <2> QED
    BY <1>2, <2>1, <2>2 DEF QInv, RTypeOK, TInv, Prompted, Answering
<1>3. CASE Meanwhile
  <2>1. TInv'
    BY <1>3, OthersKeepTInv DEF QInv, Meanwhile
  <2>2. UNCHANGED <<pc, mine, todo>>
    BY <1>3 DEF Meanwhile, Others, ForeignDelete, ForeignWrite, round
  <2> QED
    BY <1>3, <2>1, <2>2 DEF Meanwhile, QInv, RTypeOK, TInv, Prompted, Answering
<1> QED BY <1>1, <1>2, <1>3

\* An answer given to the prompt, and the plan it is looked up in.
LEMMA FindConflictPlans == FindConflict => Plan
BY DEF FindConflict, Plan, stored, bounds

LEMMA LookKeepsQInv ==
    QInv /\ ((\E i \in Ids, side \in {"local", "remote"} : Resolve(i, side))
             \/ (Answering /\ (List \/ \E p \in Paths : HashFile(p)) /\ UNCHANGED prompt)
             \/ FindConflict)
        => QInv'
<1> SUFFICES ASSUME QInv,
                    \/ \E i \in Ids, side \in {"local", "remote"} : Resolve(i, side)
                    \/ Answering /\ (List \/ \E p \in Paths : HashFile(p)) /\ UNCHANGED prompt
                    \/ FindConflict
             PROVE  QInv'
  OBVIOUS
<1>1. Capture
  BY FindConflictPlans DEF Resolve, Capture
<1>2. TInv'
  BY <1>1, CaptureKeepsTInv DEF QInv
<1>3. ASSUME NEW i \in Ids, NEW side \in {"local", "remote"}, Resolve(i, side) PROVE QInv'
  <2>1. stage = "none" /\ conflict = None /\ i # None
    BY <1>3, NoneIsNoValue DEF Resolve, QInv, RTypeOK, TInv, TypeOK
  <2>2. side # None
    BY NoneIsNoAnswer
  <2> QED
    BY <1>2, <1>3, <2>1, <2>2 DEF Resolve, Collect, QInv, RTypeOK, TInv, Prompted, Answering, history
<1>4. CASE Answering /\ (List \/ \E p \in Paths : HashFile(p)) /\ UNCHANGED prompt
  <2>1. pc' = "hash" /\ pc # "apply"
    BY <1>4 DEF List, HashFile
  <2> QED
    BY <1>2, <1>4, <2>1 DEF QInv, RTypeOK, TInv, Prompted, Answering, prompt, history
<1>5. CASE FindConflict
  <2>1. PICK c \in planSync(snap, mine, ListedEntries).conflicts : c.id = target /\ conflict' = c
    BY <1>5 DEF FindConflict
  <2>2. c \in todo'.conflicts /\ c # None
    BY <1>2, <1>5, <2>1, NoneIsNoAnswer DEF FindConflict, TInv, TypeOK, PlanType
  <2>3. stage' = IF choice = "local" THEN "write" ELSE "adopt"
    BY <1>5 DEF FindConflict
  <2>4. choice \in {"local", "remote"}
    BY <1>5 DEF FindConflict, QInv, RTypeOK
  <2> QED
    BY <1>2, <1>5, <2>1, <2>2, <2>3, <2>4
       DEF FindConflict, QInv, RTypeOK, TInv, Prompted, Answering, history
<1> QED BY <1>3, <1>4, <1>5

\* Only the end of a resolution that throws changes nothing but the prompt.
LEMMA ThrowKeepsQInv ==
    QInv /\ (NoConflict \/ KeepVanished \/ KeepRefused \/ KeepFreeRefused) => QInv'
<1> SUFFICES ASSUME QInv, ResolveThrow PROVE QInv'
  BY DEF NoConflict, KeepVanished, KeepRefused, KeepFreeRefused
<1> QED
  BY ReturnKeepsQInv DEF ResolveThrow, QInv, RTypeOK, TInv, TypeOK, stored, bounds

LEMMA FailKeepsQInv == QInv /\ ResolveFail => QInv'
BY ReturnKeepsQInv DEF ResolveFail, QInv, RTypeOK, TInv, TypeOK, stored

LEMMA EndKeepsQInv == QInv /\ (ResolvedLast \/ ResolvedOne) => QInv'
<1>1. ASSUME QInv, ResolvedOne PROVE QInv'
  BY <1>1, ReturnKeepsQInv DEF ResolvedOne, QInv, RTypeOK, TInv, TypeOK, stored, bounds
<1>2. ASSUME QInv, ResolvedLast PROVE QInv'
  <2>1. snap' \in Snapshots
    BY <1>2, EntriesType DEF ResolvedLast, QInv, TInv, TypeOK
  <2>2. unsent' \subseteq Paths \X Contents
    <3>1. \A item \in todo.push : item.id \in Ids /\ mine[item.id] \in Record
      BY <1>2, TodoItems DEF QInv, TInv, TypeOK, PushesMine
    <3>2. Skipped \subseteq Paths \X Contents
      BY <1>2, <3>1, TodoItems DEF Skipped, Record, QInv, TInv, TypeOK
    <3> QED
      BY <1>2, <3>2 DEF ResolvedLast, QInv, RTypeOK
  <2>3. lastError' \in Codes \cup {None} /\ failures' \in Nat
    BY <1>2 DEF ResolvedLast, bounds, QInv, TInv, TypeOK
  <2>4. asked \ {target} \in SUBSET Ids
    BY <1>2 DEF QInv, RTypeOK
  <2> QED
    BY <1>2, <2>1, <2>2, <2>3, <2>4, ReturnKeepsQInv DEF ResolvedLast, bounds
<1> QED BY <1>1, <1>2

\* A step of one of the two ways to apply an answer.
LEMMA ApplyingKeepsQInv ==
    ASSUME QInv, Answering, pc = "apply", stage # "none", KeepFrame, TInv',
           backend' = backend, UNCHANGED <<unsent, crossed>>, given' \subseteq Paths \X Contents,
           freed' \subseteq Paths,
           \/ choice = "local" /\ stage' \in {"write", "free", "pin", "count"}
           \/ choice = "remote" /\ stage' \in {"adopt", "pinTheirs", "count"},
           stage' \in {"free", "pin"} => mine[target] # None,
           stage' = "pinTheirs" => conflict.remote # None
    PROVE  QInv'
BY DEF KeepFrame, QInv, RTypeOK, TInv, Prompted, Answering

LEMMA LocalKeepsQInv == QInv /\ (KeepWrite \/ KeepReadBack \/ KeepFree \/ KeepPin) => QInv'
<1> SUFFICES ASSUME QInv, KeepWrite \/ KeepReadBack \/ KeepFree \/ KeepPin PROVE QInv'
  OBVIOUS
<1> USE DEF stored, bounds, history
<1>0. target \in Ids /\ (mine[target] # None => mine[target] \in Record)
  BY DEF KeepWrite, KeepReadBack, KeepFree, KeepPin, KeepStep, QInv, RTypeOK, TInv, TypeOK,
     Stores, Answering
<1>1. CASE KeepWrite
  <2>1. mine[target].path \in Paths /\ mine[target].content \in Contents
    BY <1>0, <1>1 DEF KeepWrite, Record
  <2>2. remote' \in Files /\ published' \subseteq Paths \X Contents
    BY <1>1, <2>1 DEF KeepWrite, Write, QInv, TInv, TypeOK, Files
  <2>3. revs' \in Files /\ readback' \in Paths \cup {None}
    BY <1>1, <2>1 DEF KeepWrite, KeepStep, QInv, TInv, TypeOK, Files
  <2>4. TInv'
    BY <1>1, <2>2, <2>3 DEF KeepWrite, KeepStep, KeepFrame, QInv, TInv, TypeOK, PushesMine
  <2> QED
    BY <1>1, <2>4, ApplyingKeepsQInv DEF KeepWrite, KeepStep, QInv, RTypeOK, Prompted
<1>2. CASE KeepReadBack
  <2>1. TInv'
    BY <1>2, ApplyKeepsTInv DEF KeepReadBack, Apply, QInv
  <2> QED
    BY <1>2, <2>1 DEF KeepReadBack, ReadBack, QInv, RTypeOK, TInv, Prompted, Answering, prompt
<1>3. CASE KeepFree
  <2>1. remote' \in Files
    BY <1>3 DEF KeepFree, QInv, TInv, TypeOK, Files
  <2>2. TInv'
    BY <1>3, <2>1 DEF KeepFree, KeepStep, KeepFrame, QInv, TInv, TypeOK, PushesMine
  <2>3. freed' \subseteq Paths
    <3>1. Moved(target) => Before(target).path \in Paths
      BY BeforeFound DEF Moved, QInv, TInv, TypeOK, SnapEntry
    <3> QED
      BY <1>3, <3>1 DEF KeepFree, QInv, RTypeOK
  <2> QED
    BY <1>3, <2>2, <2>3, ApplyingKeepsQInv DEF KeepFree, KeepStep, QInv, RTypeOK, Prompted
<1>4. CASE KeepPin
  <2> DEFINE e == [id |-> target, path |-> mine[target].path,
                   hash |-> mine[target].content, rev |-> revs[mine[target].path]]
  <2>1. mine[target] \in Record
    BY <1>0, <1>4 DEF KeepPin, KeepStep, QInv, Prompted
  <2>2. e \in SnapEntry
    BY <1>0, <2>1 DEF SnapEntry, Record, QInv, TInv, TypeOK, Files
  <2>3. snap' = PinEntry(target, <<e>>)
    BY <1>4 DEF KeepPin
  <2>4. snap' \in Snapshots
    <3> HIDE DEF e
    <3> QED BY <2>2, <2>3, PinEntryEnds DEF QInv, TInv, TypeOK
  <2>5. TInv'
    BY <1>4, <2>4 DEF KeepPin, KeepStep, KeepFrame, QInv, TInv, TypeOK, PushesMine
  <2> QED
    BY <1>4, <2>5, ApplyingKeepsQInv DEF KeepPin, KeepStep, QInv, RTypeOK, Prompted
<1> QED BY <1>1, <1>2, <1>3, <1>4

LEMMA GiveTyped ==
    ASSUME QInv, target \in Ids, Give
    PROVE  /\ given' \subseteq Paths \X Contents /\ given \subseteq given'
           /\ UNCHANGED <<unsent, freed, crossed>>
<1>1. CASE mine[target] = None
  BY <1>1 DEF Give, QInv, RTypeOK
<1>2. CASE mine[target] # None
  <2>1. mine[target] \in Record
    BY <1>2 DEF QInv, TInv, TypeOK, Stores
  <2>2. <<mine[target].path, mine[target].content>> \in Paths \X Contents
    BY <2>1 DEF Record
  <2> QED BY <1>2, <2>2 DEF Give, QInv, RTypeOK
<1> QED BY <1>1, <1>2

LEMMA RemoteKeepsQInv == QInv /\ (TakeFile \/ PinTheirs \/ TakeDeletion) => QInv'
<1> SUFFICES ASSUME QInv, TakeFile \/ PinTheirs \/ TakeDeletion PROVE QInv'
  OBVIOUS
<1> USE DEF stored, bounds, history
<1>0. /\ target \in Ids /\ conflict.path \in Paths /\ conflict.remote \in Listed \cup {None}
      /\ mine[target] # None => mine[target] \in Record
  BY ConflictsTyped DEF TakeFile, PinTheirs, TakeDeletion, KeepStep, QInv, RTypeOK, TInv,
     TypeOK, Stores, Answering
<1>1. CASE TakeFile
  <2>1. TextOf(conflict.path) \in Contents
    BY <1>0, <1>1 DEF TakeFile, TextOf, QInv, TInv, TypeOK, Files
  <2>2. local' \in Stores
    <3>1. [path |-> conflict.path, content |-> TextOf(conflict.path)] \in Record
      BY <1>0, <2>1 DEF Record
    <3> QED BY <1>1, <3>1 DEF TakeFile, QInv, TInv, TypeOK, Stores
  <2>3. given' \subseteq Paths \X Contents /\ UNCHANGED <<unsent, freed, crossed>>
    BY <1>0, <1>1, GiveTyped DEF TakeFile
  <2>4. TInv'
    BY <1>1, <2>2 DEF TakeFile, KeepStep, KeepFrame, QInv, TInv, TypeOK, PushesMine
  <2> QED
    BY <1>1, <2>3, <2>4, ApplyingKeepsQInv DEF TakeFile, KeepStep, QInv, RTypeOK, Prompted
<1>2. CASE PinTheirs
  <2> DEFINE e == [id |-> target, path |-> conflict.path, hash |-> conflict.remote.hash,
                   rev |-> conflict.remote.rev]
  <2>1. e \in SnapEntry
    BY <1>0, <1>2 DEF PinTheirs, KeepStep, QInv, Prompted, SnapEntry, Listed
  <2>2. snap' = PinEntry(target, <<e>>)
    BY <1>2 DEF PinTheirs
  <2>3. snap' \in Snapshots
    <3> HIDE DEF e
    <3> QED BY <2>1, <2>2, PinEntryEnds DEF QInv, TInv, TypeOK
  <2>4. TInv'
    BY <1>2, <2>3 DEF PinTheirs, KeepStep, KeepFrame, QInv, TInv, TypeOK, PushesMine
  <2> QED
    BY <1>2, <2>4, ApplyingKeepsQInv DEF PinTheirs, KeepStep, QInv, RTypeOK, Prompted
<1>3. CASE TakeDeletion
  <2>1. snap' \in Snapshots
    BY <1>3, DropEntryEnds, EntriesButKeeps DEF TakeDeletion, QInv, TInv, TypeOK
  <2>2. TInv'
    BY <1>3, <2>1 DEF TakeDeletion, KeepStep, KeepFrame, QInv, TInv, TypeOK, PushesMine
  <2>3. given' \subseteq Paths \X Contents /\ UNCHANGED <<unsent, freed, crossed>>
    BY <1>0, <1>3, GiveTyped DEF TakeDeletion
  <2> QED
    BY <1>3, <2>2, <2>3, ApplyingKeepsQInv DEF TakeDeletion, KeepStep, QInv, RTypeOK, Prompted
<1> QED BY <1>1, <1>2, <1>3

LEMMA NextKeepsQInv == QInv /\ [RNext]_rvars => QInv'
<1> SUFFICES ASSUME QInv, [RNext]_rvars PROVE QInv'
  OBVIOUS
<1>1. CASE RNext
  <2>1. ASSUME RoundOnly((asked = {} /\ Capture) \/ Apply \/ FinalizeClean) \/ RoundOnly(Failure)
        PROVE  QInv'
    <3>1. RoundOnly(Next)
      BY <2>1 DEF RoundOnly, Next, RoundStep, Finalize
    <3> QED BY <3>1, RoundKeepsQInv
  <2>2. ASSUME ResolveStep PROVE QInv'
    BY <2>2, LookKeepsQInv, ThrowKeepsQInv, LocalKeepsQInv, RemoteKeepsQInv, EndKeepsQInv
       DEF ResolveStep
  <2> QED
    BY <1>1, <2>1, <2>2, AskUserKeepsQInv, OutsideKeepsQInv, LookKeepsQInv, FailKeepsQInv
       DEF RNext, Rounds
<1>2. CASE UNCHANGED rvars
  <2>1. TInv'
    BY <1>2, NextKeepsTInv DEF rvars, QInv
  <2> QED
    BY <1>2, <2>1 DEF rvars, vars, prompt, history, QInv, RTypeOK, TInv, Prompted, Answering
<1> QED BY <1>1, <1>2

\* In every interleaving of rounds, answers, failures and other devices, a
\* resolution holds its conflict exactly while it applies an answer to it, and
\* what it pins in the snapshot is of the kind a round reads there.
THEOREM ResolveTyped == RSpec => []RTypeOK
<1>1. QInv => RTypeOK
  BY DEF QInv
<1> QED BY InitQInv, NextKeepsQInv, <1>1, PTL DEF RSpec
-----------------------------------------------------------------------------
(***************************************************************************)
(* No local version is lost but those named.  Known are the versions that  *)
(* were published, those answered "theirs" and those the snapshot took for *)
(* synced without their push: the snapshot is made of known versions, also *)
(* when an answer pins one entry of it or advances all of it.              *)
(***************************************************************************)
Known == published \cup given \cup unsent

MineVersion(i) == <<mine[i].path, mine[i].content>>

\* While an answer is applied, the store is as it was collected but for the
\* record of the conflict, and that record is known once it is to be pinned.
OpenIn(K) == stage # "none" =>
    /\ conflict.remote # None =>
          conflict.remote.hash # None /\ conflict.remote.hash = hashes[conflict.path]
    /\ \A i \in Ids \ {target} : local[i] = mine[i]
    /\ stage \in {"write", "free", "pin", "adopt"} => local = mine
    /\ stage \in {"free", "pin"} => MineVersion(target) \in K
    /\ stage \in {"pinTheirs", "count"} /\ local[target] # None => Version(target) \in K
    /\ \A i \in Ids : mine[i] # None =>
          \/ MineVersion(i) \in K
          \/ \E item \in todo.push : item.id = i
          \/ \E c \in todo.conflicts : c.id = i

LInvIn(K) == QInv /\ KnownIn(K) /\ (stage = "none" => SInvIn(K)) /\ OpenIn(K)
LInv == LInvIn(Known)

\* L is what is known after a step, K what was known before.
Learns(K, L) == K \subseteq L /\ published' \cup given' \cup unsent' \subseteq L

LEMMA InitLInv == RInit => LInv
<1> SUFFICES ASSUME RInit PROVE LInv
  OBVIOUS
<1>1. SInvIn(Known)
  BY InitSInv DEF RInit, SInv, Known
<1> QED
  BY <1>1, InitQInv DEF LInv, LInvIn, SInvIn, OpenIn, RInit

\* Outside of a resolution, and until it has found its conflict, a step keeps
\* what it would keep of a round.
LEMMA IdlePromptKeeps ==
    ASSUME NEW L, QInv', SInvIn(L)', stage' = "none"
    PROVE  LInvIn(L)'
BY DEF LInvIn, SInvIn, OpenIn

LEMMA SameKeepsSInv ==
    ASSUME NEW K, NEW L, SInvIn(K), K \subseteq L, published' \subseteq L, UNCHANGED vars
    PROVE  SInvIn(L)'
<1>1. TInv'
  BY NextKeepsTInv DEF SInvIn, KnownIn
<1> QED
  BY <1>1 DEF vars, SInvIn, KnownIn, BaseIn, RemoteShared, ReadIn, LocalIsMine, DoomedIn,
     UnknownIsPlanned, Version

LEMMA RoundKeepsLInv ==
    ASSUME EditsDuringRound = FALSE, NEW K, NEW L, LInvIn(K), Learns(K, L), QInv',
           ~Answering, stage' = "none",
           Capture \/ Apply \/ Finalize \/ Failure \/ User \/ Others \/ UNCHANGED vars
    PROVE  LInvIn(L)'
<1>1. SInvIn(K) /\ K \subseteq L /\ published' \subseteq L
  BY DEF LInvIn, Learns, QInv, RTypeOK
<1>2. SInvIn(L)'
  BY <1>1, CaptureKeepsSInv, ApplyKeepsSInv, FinalizeKeepsSInv, FailureKeepsSInv,
     UserKeepsSInv, OthersKeepSInv, SameKeepsSInv
<1> QED BY <1>2, IdlePromptKeeps

\* A resolution until it looks for its conflict.
LEMMA LookKeepsLInv ==
    ASSUME NEW K, NEW L, LInvIn(K), Learns(K, L), QInv', stage' = "none",
           Answering, List \/ \E p \in Paths : HashFile(p)
    PROVE  LInvIn(L)'
<1>1. pc # "apply" /\ Capture
  BY DEF List, HashFile, Capture
<1>2. SInvIn(K) /\ K \subseteq L /\ published' \subseteq L
  BY <1>1 DEF LInvIn, Learns, QInv, RTypeOK
<1>3. SInvIn(L)'
  BY <1>1, <1>2, CaptureKeepsSInv
<1> QED BY <1>3, IdlePromptKeeps

\* The conflict it finds is between versions of the fresh plan.
LEMMA FoundConflict ==
    ASSUME QInv, FindConflict
    PROVE  /\ conflict'.remote # None =>
                 /\ conflict'.remote.hash = hashes[conflict'.path]
                 /\ conflict'.remote.hash # None
           /\ conflict'.remote = ListedEntries[conflict'.path]
           /\ conflict'.path \in Paths
           /\ \/ /\ target \in AskIds(snap, mine, ListedEntries)
                 /\ conflict'.path = mine[target].path
              \/ /\ conflict'.path \in RemoteOnly(mine, ListedEntries)
                 /\ AsksGone(SnapAt(snap, conflict'.path), ListedEntries[conflict'.path])
                 /\ target = SnapAt(snap, conflict'.path).id
<1> DEFINE plan == planSync(snap, mine, ListedEntries)
<1>1. PICK c \in plan.conflicts : c.id = target /\ conflict' = c
  BY DEF FindConflict
<1>2. \/ /\ c.id \in AskIds(snap, mine, ListedEntries) /\ c.path = mine[c.id].path
         /\ c.remote = ListedEntries[c.path]
      \/ /\ c.path \in RemoteOnly(mine, ListedEntries)
         /\ AsksGone(SnapAt(snap, c.path), ListedEntries[c.path])
         /\ c.remote = ListedEntries[c.path] /\ c.id = SnapAt(snap, c.path).id
  BY <1>1 DEF planSync, GoneConflict
<1>3. c.path \in Paths
  BY <1>2 DEF AskIds, Live, RemoteOnly, QInv, TInv, TypeOK, Stores, Record
<1>4. c.remote # None => c.remote.hash = hashes[c.path] /\ hashes[c.path] # None
  BY <1>2, <1>3 DEF ListedEntries
<1> QED BY <1>1, <1>2, <1>3, <1>4

LEMMA FindKeepsLInv ==
    ASSUME NEW K, NEW L, LInvIn(K), Learns(K, L), QInv', FindConflict
    PROVE  LInvIn(L)'
<1>1. Capture /\ pc = "hash" /\ Answering
  BY FindConflictPlans DEF FindConflict, Capture
<1>2. SInvIn(K) /\ K \subseteq L /\ published' \subseteq L
  BY <1>1 DEF LInvIn, Learns, QInv, RTypeOK, TInv, TypeOK
<1>3. SInvIn(L)'
  BY <1>1, <1>2, CaptureKeepsSInv
<1>4. /\ local' = mine' /\ mine' = mine /\ hashes' = hashes /\ stage' \in {"write", "adopt"}
      /\ todo' = planSync(snap, mine, ListedEntries)
  BY <1>1, <1>2 DEF FindConflict, stored, SInvIn, LocalIsMine
<1>5. \A i \in Ids : mine[i] # None =>
          \/ MineVersion(i) \in K
          \/ \E item \in todo'.push : item.id = i
          \/ \E c \in todo'.conflicts : c.id = i
  BY <1>2, <1>4, RestIsKnown, PushItems, ConflictItems DEF SInvIn, MineVersion
<1>6. OpenIn(L)'
  <2>1. conflict'.remote # None =>
            conflict'.remote.hash # None /\ conflict'.remote.hash = hashes'[conflict'.path]
    BY <1>4, FoundConflict DEF LInvIn
  <2> QED BY <1>2, <1>4, <1>5, <2>1 DEF OpenIn, MineVersion
<1> QED BY <1>3, <1>4, <1>6 DEF LInvIn, SInvIn

\* The end of a resolution that leaves the snapshot as it is.
LEMMA ReturnKeepsLInv ==
    ASSUME NEW K, NEW L, LInvIn(K), Learns(K, L), QInv', NEW rest, Return(rest),
           BaseIn(L)', remote' = remote, published' = published
    PROVE  LInvIn(L)'
<1>1. RemoteShared'
  BY DEF LInvIn, KnownIn, RemoteShared
<1>2. SInvIn(L)'
  BY <1>1, LeaveKeepsSInv DEF Return, Learns, QInv
<1> QED BY <1>2, IdlePromptKeeps DEF Return

LEMMA UnpinnedKeepsLInv ==
    ASSUME NEW K, NEW L, LInvIn(K), Learns(K, L), QInv',
           \/ NoConflict \/ KeepVanished \/ KeepRefused \/ KeepFreeRefused
           \/ ResolvedOne \/ ResolveFail
    PROVE  LInvIn(L)'
<1>1. PICK rest : Return(rest) /\ UNCHANGED <<snap, remote, published>>
  BY DEF NoConflict, KeepVanished, KeepRefused, KeepFreeRefused, ResolveThrow, ResolvedOne,
     ResolveFail, stored
<1>2. BaseIn(L)'
  BY <1>1 DEF LInvIn, KnownIn, BaseIn, Learns
<1> QED BY <1>1, <1>2, ReturnKeepsLInv

\* Of every record the last answer advances the snapshot over, the version is
\* known or its push is skipped, there being no other conflict.
LEMMA LastKeepsLInv ==
    ASSUME NEW K, NEW L, LInvIn(K), Learns(K, L), QInv', ResolvedLast
    PROVE  LInvIn(L)'
<1>1. /\ Return(asked \ {target}) /\ snap' = Entries(local, revs) /\ remote' = remote
      /\ published' = published /\ stage = "count" /\ todo.conflicts = {conflict}
      /\ unsent' = unsent \cup Skipped
  BY DEF ResolvedLast, KeepStep
<1>2. /\ conflict.id = target /\ local \in Stores /\ revs \in Files /\ PushesMine
      /\ todo \in PlanType
  BY <1>1 DEF LInvIn, QInv, Prompted, TInv, TypeOK
<1>3. \A item \in todo.push : MineVersion(item.id) \in L
  <2>1. \A item \in todo.push : MineVersion(item.id) \in Skipped
    BY <1>2 DEF Skipped, MineVersion, PushesMine
  <2> QED BY <1>1, <2>1 DEF Learns
<1>4. ASSUME NEW i \in Ids, local[i] # None PROVE Version(i) \in L
  <2>1. CASE i = target
    BY <1>1, <1>4, <2>1 DEF LInvIn, OpenIn, Learns
  <2>2. CASE i # target
    <3>1. local[i] = mine[i]
      BY <1>1, <2>2 DEF LInvIn, OpenIn
    <3>2. MineVersion(i) \in K \/ \E item \in todo.push : item.id = i
      BY <1>1, <1>2, <1>4, <2>2, <3>1 DEF LInvIn, OpenIn
    <3>3. MineVersion(i) \in L
      BY <1>3, <3>2 DEF Learns
    <3> QED BY <3>1, <3>3 DEF Version, MineVersion
  <2> QED BY <2>1, <2>2
<1>5. BaseIn(L)'
  BY <1>1, <1>2, <1>4, EntriesType DEF BaseIn, Version
<1> QED BY <1>1, <1>5, ReturnKeepsLInv

\* A pinned entry joins those of the others.
LEMMA PinKeepsBase ==
    ASSUME NEW K, NEW L, BaseIn(K), K \subseteq L, snap \in Snapshots, NEW i,
           \/ snap' = PinEntry(i, <<>>)
           \/ \E e \in SnapEntry : snap' = PinEntry(i, <<e>>) /\ <<e.path, e.hash>> \in L
    PROVE  BaseIn(L)'
<1> DEFINE s == EntriesBut(i)
<1>1. \A k \in 1 .. Len(s) : s[k] # None => <<s[k].path, s[k].hash>> \in L
  BY EntriesButKeeps DEF BaseIn
<1>2. CASE snap' = PinEntry(i, <<>>)
  BY <1>1, <1>2, DropEntryEnds DEF BaseIn
<1>3. ASSUME NEW e \in SnapEntry, snap' = PinEntry(i, <<e>>), <<e.path, e.hash>> \in L
      PROVE  BaseIn(L)'
  <2>1. /\ Len(s) \in Nat /\ Len(snap') = Len(s) + 1 /\ snap'[Len(s) + 1] = e
        /\ \A k \in 1 .. Len(s) : snap'[k] = s[k]
    BY <1>3, PinEntryEnds
  <2>2. \A k \in 1 .. Len(snap') : k \in 1 .. Len(s) \/ k = Len(s) + 1
    BY <2>1
  <2> HIDE DEF s
  <2>3. ASSUME NEW k \in 1 .. Len(snap'), snap'[k] # None
        PROVE  <<snap'[k].path, snap'[k].hash>> \in L
    BY <1>1, <1>3, <2>1, <2>2, <2>3
  <2> QED BY <2>3 DEF BaseIn
<1> QED BY <1>2, <1>3

\* A step that applies the answer: what stays as it was collected.
LEMMA LocalKeepsLInv ==
    ASSUME NEW K, NEW L, LInvIn(K), Learns(K, L), QInv',
           KeepWrite \/ KeepReadBack \/ KeepFree \/ KeepPin
    PROVE  LInvIn(L)'
<1> USE DEF stored, bounds, history, prompt
<1>0. /\ stage \in {"write", "free", "pin", "count"} /\ target \in Ids
      \/ KeepReadBack
  BY DEF KeepWrite, KeepFree, KeepPin, KeepStep, LInvIn, QInv, RTypeOK, Answering
<1>1. CASE KeepWrite
  <2> DEFINE p == mine[target].path
  <2>1. /\ Write(p, mine[target].content) /\ stage = "write" /\ stage' = "free"
        /\ UNCHANGED <<local, snap, mine, hashes, texts, todo, target, conflict>>
    BY <1>1 DEF KeepWrite, KeepStep, KeepFrame
  <2>2. \A q \in Paths : remote'[q] = IF q = p THEN mine[target].content ELSE remote[q]
    BY <2>1 DEF Write, LInvIn, QInv, TInv, TypeOK, Files
  <2>3. RemoteShared' /\ MineVersion(target) \in published'
    BY <2>1, <2>2 DEF Write, LInvIn, KnownIn, RemoteShared, MineVersion
  <2>4. KnownIn(L)'
    BY <2>1, <2>3 DEF LInvIn, QInv, KnownIn, BaseIn, ReadIn, Learns
  <2>5. OpenIn(L)'
    BY <2>1, <2>3 DEF LInvIn, OpenIn, Learns, MineVersion, Version
  <2> QED BY <2>1, <2>4, <2>5 DEF LInvIn
<1>2. CASE KeepReadBack
  <2>1. /\ UNCHANGED <<local, snap, mine, hashes, texts, todo, target, conflict, stage, remote,
                       published>>
        /\ stage # "none"
    BY <1>2 DEF KeepReadBack, ReadBack, LInvIn, QInv, Prompted, TInv, TypeOK
  <2>2. KnownIn(L)'
    BY <2>1 DEF LInvIn, QInv, KnownIn, BaseIn, ReadIn, RemoteShared, Learns
  <2>3. OpenIn(L)'
    BY <2>1 DEF LInvIn, OpenIn, Learns, MineVersion, Version
  <2> QED BY <2>1, <2>2, <2>3 DEF LInvIn
<1>3. CASE KeepFree
  <2>1. /\ UNCHANGED <<local, snap, mine, hashes, texts, todo, target, conflict, published>>
        /\ stage = "free" /\ stage' = "pin"
    BY <1>3 DEF KeepFree, KeepStep, KeepFrame
  <2>2. RemoteShared'
    BY <1>3 DEF KeepFree, LInvIn, QInv, TInv, TypeOK, Files, KnownIn, RemoteShared
  <2>3. KnownIn(L)'
    BY <2>1, <2>2 DEF LInvIn, QInv, KnownIn, BaseIn, ReadIn, Learns
  <2>4. OpenIn(L)'
    BY <2>1 DEF LInvIn, OpenIn, Learns, MineVersion, Version
  <2> QED BY <2>1, <2>3, <2>4 DEF LInvIn
<1>4. CASE KeepPin
  <2> DEFINE e == [id |-> target, path |-> mine[target].path,
                   hash |-> mine[target].content, rev |-> revs[mine[target].path]]
  <2>1. /\ UNCHANGED <<local, mine, hashes, texts, todo, target, conflict, remote, published>>
        /\ stage = "pin" /\ stage' = "count" /\ snap' = PinEntry(target, <<e>>)
    BY <1>4 DEF KeepPin, KeepStep, KeepFrame
  <2>2. mine[target] \in Record /\ target \in Ids
    BY <2>1 DEF LInvIn, QInv, RTypeOK, Prompted, TInv, TypeOK, Stores, Answering
  <2>3. e \in SnapEntry
    BY <2>2 DEF SnapEntry, Record, LInvIn, QInv, TInv, TypeOK, Files
  <2>4. <<e.path, e.hash>> \in K
    BY <2>1 DEF LInvIn, OpenIn, MineVersion
  <2>5. snap \in Snapshots /\ BaseIn(K) /\ K \subseteq L
    BY DEF LInvIn, QInv, KnownIn, TInv, TypeOK, Learns
  <2>6. BaseIn(L)'
    <3> HIDE DEF e
    <3> QED BY <2>1, <2>3, <2>4, <2>5, PinKeepsBase
  <2>7. KnownIn(L)'
    BY <2>1, <2>6 DEF LInvIn, QInv, KnownIn, ReadIn, RemoteShared, Learns
  <2>8. Version(target)' \in L /\ local' = mine'
    BY <2>1, <2>4, <2>5 DEF LInvIn, OpenIn, Version
  <2>9. OpenIn(L)'
    BY <2>1, <2>8 DEF LInvIn, OpenIn, Learns, MineVersion
  <2> QED BY <2>1, <2>7, <2>9 DEF LInvIn
<1> QED BY <1>1, <1>2, <1>3, <1>4

LEMMA RemoteKeepsLInv ==
    ASSUME NEW K, NEW L, LInvIn(K), Learns(K, L), QInv',
           TakeFile \/ PinTheirs \/ TakeDeletion
    PROVE  LInvIn(L)'
<1> USE DEF stored, bounds, history
<1>0. /\ target \in Ids /\ conflict.path \in Paths /\ conflict.remote \in Listed \cup {None}
      /\ K \subseteq L /\ snap \in Snapshots /\ BaseIn(K)
  BY ConflictsTyped DEF TakeFile, PinTheirs, TakeDeletion, KeepStep, LInvIn, QInv, RTypeOK,
     TInv, TypeOK, KnownIn, Answering, Learns
<1>1. CASE TakeFile
  <2> DEFINE p == conflict.path
  <2>1. /\ UNCHANGED <<snap, mine, hashes, texts, todo, target, conflict, remote, published>>
        /\ stage = "adopt" /\ stage' = "pinTheirs" /\ TextOf(p) # None
        /\ local' = [local EXCEPT ![target] = [path |-> p, content |-> TextOf(p)]]
    BY <1>1 DEF TakeFile, KeepStep, KeepFrame
  <2>2. <<p, TextOf(p)>> \in K
    BY <1>0, <2>1 DEF TextOf, LInvIn, KnownIn, ReadIn, RemoteShared
  <2>3. /\ local'[target] = [path |-> p, content |-> TextOf(p)]
        /\ \A i \in Ids \ {target} : local'[i] = local[i]
    BY <1>0, <2>1 DEF LInvIn, QInv, TInv, TypeOK, Stores
  <2>4. Version(target)' \in L
    BY <1>0, <2>1, <2>2, <2>3 DEF Version
  <2>5. KnownIn(L)'
    BY <2>1 DEF LInvIn, QInv, KnownIn, BaseIn, ReadIn, RemoteShared, Learns
  <2>6. OpenIn(L)'
    BY <2>1, <2>3, <2>4 DEF LInvIn, OpenIn, Learns, MineVersion
  <2> QED BY <2>1, <2>5, <2>6 DEF LInvIn
<1>2. CASE PinTheirs
  <2> DEFINE e == [id |-> target, path |-> conflict.path, hash |-> conflict.remote.hash,
                   rev |-> conflict.remote.rev]
  <2>1. /\ UNCHANGED <<local, mine, hashes, texts, todo, target, conflict, remote, published>>
        /\ stage = "pinTheirs" /\ stage' = "count" /\ snap' = PinEntry(target, <<e>>)
        /\ conflict.remote # None
    BY <1>2 DEF PinTheirs, KeepStep, KeepFrame, LInvIn, QInv, Prompted
  <2>2. e \in SnapEntry
    BY <1>0, <2>1 DEF SnapEntry, Listed
  <2>3. <<e.path, e.hash>> \in L
    BY <1>0, <2>1 DEF LInvIn, OpenIn, KnownIn, ReadIn
  <2>4. BaseIn(L)'
    <3> HIDE DEF e
    <3> QED BY <1>0, <2>1, <2>2, <2>3, PinKeepsBase
  <2>5. KnownIn(L)'
    BY <2>1, <2>4 DEF LInvIn, QInv, KnownIn, ReadIn, RemoteShared, Learns
  <2>6. OpenIn(L)'
    BY <2>1 DEF LInvIn, OpenIn, Learns, MineVersion, Version
  <2> QED BY <2>1, <2>5, <2>6 DEF LInvIn
<1>3. CASE TakeDeletion
  <2>1. /\ UNCHANGED <<local, mine, hashes, texts, todo, target, conflict, remote, published>>
        /\ stage = "adopt" /\ stage' = "count" /\ snap' = PinEntry(target, <<>>) /\ Give
    BY <1>3 DEF TakeDeletion, KeepStep, KeepFrame
  <2>2. BaseIn(L)'
    BY <1>0, <2>1, PinKeepsBase
  <2>3. KnownIn(L)'
    BY <2>1, <2>2 DEF LInvIn, QInv, KnownIn, ReadIn, RemoteShared, Learns
  <2>4. local = mine
    BY <2>1 DEF LInvIn, OpenIn
  <2>5. local'[target] # None => Version(target)' \in L
    BY <2>1, <2>4 DEF Give, Version, Learns
  <2>6. OpenIn(L)'
    BY <2>1, <2>4, <2>5 DEF LInvIn, OpenIn, Learns, MineVersion
  <2> QED BY <2>1, <2>3, <2>6 DEF LInvIn
<1> QED BY <1>1, <1>2, <1>3

\* Other devices, also while an answer is applied.
LEMMA OthersKeepLInv ==
    ASSUME NEW K, NEW L, LInvIn(K), Learns(K, L), QInv', Meanwhile
    PROVE  LInvIn(L)'
<1>0. Others /\ UNCHANGED <<asked, target, choice, conflict, stage>>
  BY DEF Meanwhile
<1>1. CASE stage = "none"
  BY <1>0, <1>1, OthersKeepSInv, IdlePromptKeeps DEF LInvIn, Learns
<1>2. CASE stage # "none"
  <2>1. RemoteShared' /\ UNCHANGED <<stored, round>>
    BY <1>0, OthersShare DEF LInvIn, KnownIn
  <2>2. KnownIn(L)'
    BY <2>1 DEF LInvIn, QInv, KnownIn, BaseIn, ReadIn, Learns, stored, round
  <2>3. OpenIn(L)'
    BY <1>0, <2>1 DEF LInvIn, OpenIn, Learns, MineVersion, Version, stored, round
  <2> QED BY <1>0, <1>2, <2>2, <2>3 DEF LInvIn
<1> QED BY <1>1, <1>2

LEMMA OutsideKeepsLInv ==
    ASSUME EditsDuringRound = FALSE, NEW K, NEW L, LInvIn(K), Learns(K, L), QInv',
           \/ Rounds \/ RoundOnly(Failure) \/ Later
           \/ \E i \in Ids, side \in {"local", "remote"} : Resolve(i, side)
           \/ asked = {} /\ User /\ UNCHANGED prompt
    PROVE  LInvIn(L)'
<1>1. /\ ~Answering
      /\ Capture \/ Apply \/ Finalize \/ Failure \/ User \/ UNCHANGED vars
      /\ stage' = stage
  <2>1. asked = {} \/ pc = "idle" => ~Answering
    BY DEF LInvIn, QInv, Prompted
  <2> QED
    BY <2>1 DEF Rounds, RoundOnly, AskUser, FinalizeAsking, Finalize, Later, Resolve, Capture,
       prompt, history
<1>2. stage' = "none"
  BY <1>1 DEF LInvIn, QInv, RTypeOK
<1> QED BY <1>1, <1>2, RoundKeepsLInv

\* What was in the repository stays in its history.
LEMMA PublishedGrows ==
    ASSUME [RNext]_rvars
    PROVE  published \subseteq published'
BY DEF RNext, rvars, vars, Rounds, RoundOnly, AskUser, Later, Resolve, ResolveStep,
   FindConflict, NoConflict, KeepVanished, KeepWrite, KeepReadBack, KeepRefused, KeepFree,
   KeepFreeRefused, KeepPin, TakeFile, PinTheirs, TakeDeletion, ResolvedLast, ResolvedOne,
   ResolveFail, ResolveThrow, Meanwhile, stored, bounds,
   Capture, Collect, List, HashFile, Plan, Collide, Apply, Push, PushRefused,
   ReadBack, Pull, DeleteRemote, DeleteRefused, DeleteLocal, Finalize, FinalizeClean,
   FinalizeAsking, Failure, PushUnanswered, DeleteUnanswered, Fail, Reload, Others,
   User, Create, Edit, Move, Delete, Change, ForeignWrite, ForeignDelete, Write

\* Whatever was known stays known.
LEMMA KnownGrows ==
    ASSUME QInv, [RNext]_rvars
    PROVE  Known \subseteq Known'
<1>1. published \subseteq published'
  BY PublishedGrows
<1>2. given \subseteq given' /\ unsent \subseteq unsent'
  <2>1. Give => given \subseteq given' /\ unsent \subseteq unsent'
    BY DEF Give
  <2> QED
    BY <2>1 DEF RNext, rvars, prompt, history, Rounds, RoundOnly, AskUser, Later, Resolve,
       ResolveStep, FindConflict, NoConflict, KeepVanished, KeepWrite, KeepReadBack,
       KeepRefused, KeepFree, KeepFreeRefused, KeepPin, TakeFile, PinTheirs, TakeDeletion,
       ResolvedLast, ResolvedOne, ResolveFail, ResolveThrow, Return, Meanwhile
<1> QED BY <1>1, <1>2 DEF Known

LEMMA NextKeepsLInv ==
    ASSUME EditsDuringRound = FALSE
    PROVE  LInv /\ [RNext]_rvars => LInv'
<1> SUFFICES ASSUME LInv, [RNext]_rvars PROVE LInv'
  OBVIOUS
<1>0. QInv /\ QInv'
  BY NextKeepsQInv DEF LInv, LInvIn
<1>1. PICK K : K = Known
  OBVIOUS
<1>2. PICK L : L = Known'
  OBVIOUS
<1>3. LInvIn(K) /\ Learns(K, L)
  BY <1>0, <1>1, <1>2, KnownGrows DEF LInv, Learns, Known
<1>4. LInvIn(L)'
  <2>1. CASE RNext
    <3>1. ASSUME ResolveStep PROVE LInvIn(L)'
      <4>1. ASSUME Answering, List \/ \E p \in Paths : HashFile(p), UNCHANGED prompt
            PROVE  LInvIn(L)'
        <5>1. stage' = "none"
          BY <1>0, <4>1 DEF List, HashFile, prompt, QInv, RTypeOK
        <5> QED BY <1>0, <1>3, <4>1, <5>1, LookKeepsLInv
      <4> QED
        BY <1>0, <1>3, <3>1, <4>1, FindKeepsLInv, UnpinnedKeepsLInv, LocalKeepsLInv,
           RemoteKeepsLInv, LastKeepsLInv DEF ResolveStep
    <3> QED
      BY <1>0, <1>3, <2>1, <3>1, OutsideKeepsLInv, OthersKeepLInv, UnpinnedKeepsLInv DEF RNext
  <2>2. CASE UNCHANGED rvars
    <3>1. UNCHANGED vars /\ UNCHANGED prompt
      BY <2>2 DEF rvars
    <3>2. CASE stage = "none"
      BY <1>0, <1>3, <3>1, <3>2, SameKeepsSInv, IdlePromptKeeps DEF LInvIn, Learns, prompt
    <3>3. CASE stage # "none"
      <4>1. KnownIn(L)'
        BY <1>0, <1>3, <3>1 DEF vars, LInvIn, QInv, KnownIn, BaseIn, ReadIn, RemoteShared, Learns
      <4>2. OpenIn(L)'
        BY <1>3, <3>1 DEF vars, prompt, LInvIn, OpenIn, Learns, MineVersion, Version
      <4> QED BY <1>0, <3>1, <3>3, <4>1, <4>2 DEF LInvIn, prompt
    <3> QED BY <3>2, <3>3
  <2> QED BY <2>1, <2>2
<1> QED
  BY <1>2, <1>4 DEF LInv, LInvIn, SInvIn, KnownIn, BaseIn, ReadIn, DoomedIn, UnknownIsPlanned,
     OpenIn

\* The steps of the sync and of an answer that touch the local store.
LEMMA LocalSteps ==
    ASSUME RNext
    PROVE  \/ local' = local
           \/ User
           \/ /\ ~Answering /\ UNCHANGED prompt
              /\ \/ \E item \in todo.pull : Pull(item)
                 \/ \E item \in todo.deleteLocal : DeleteLocal(item)
           \/ TakeFile
<1> USE DEF stored, bounds
<1>1. Capture => local' = local
  BY DEF Capture, Collect, List, HashFile, Plan, Collide
<1>2. Finalize \/ Failure \/ Others => local' = local
  BY DEF Finalize, FinalizeClean, FinalizeAsking, Failure, PushUnanswered,
     DeleteUnanswered, Fail, Reload, Others, ForeignWrite, ForeignDelete
<1>3. Apply => \/ local' = local
               \/ \E item \in todo.pull : Pull(item)
               \/ \E item \in todo.deleteLocal : DeleteLocal(item)
  BY DEF Apply, Push, PushRefused, ReadBack, DeleteRemote, DeleteRefused
<1>4. ResolveStep => local' = local \/ TakeFile
  BY DEF ResolveStep, List, HashFile, FindConflict, NoConflict, KeepVanished, KeepWrite,
     KeepReadBack, ReadBack, KeepRefused, KeepFree, KeepFreeRefused, KeepPin, PinTheirs,
     TakeDeletion, ResolvedLast, ResolvedOne, ResolveThrow
<1>5. Later \/ ResolveFail \/ (\E i \in Ids, side \in {"local", "remote"} : Resolve(i, side))
          => local' = local
  BY DEF Later, vars, ResolveFail, Resolve, Collect
<1> QED
  BY <1>1, <1>2, <1>3, <1>4, <1>5 DEF RNext, Rounds, RoundOnly, AskUser, Finalize, Meanwhile

\* If the user changes nothing while a round runs, then whatever other devices
\* write, in rounds and while a prompt is open, and whatever fails, a local
\* version that was never in the repository is lost in two ways only: the user
\* answered "theirs" to it, or the last answer to an earlier prompt advanced the
\* snapshot over its planned push.
THEOREM NamedVersionsLost ==
    ASSUME EditsDuringRound = FALSE
    PROVE  RSpec => OnlyNamedVersionsLost
<1> DEFINE Named == \A i \in Ids : ~Loses(i, published \cup given' \cup unsent)
<1>1. LInv /\ [RNext]_rvars => [Named]_rvars
  <2> SUFFICES ASSUME LInv, RNext, NEW i \in Ids, SyncMoves,
                      local[i] # None, local'[i] # local[i]
               PROVE  Version(i) \in published \cup given' \cup unsent
    BY DEF Loses, Version
  <2>0. QInv /\ local \in Stores /\ edits \in Nat /\ todo \in PlanType
    BY DEF LInv, LInvIn, QInv, TInv, TypeOK
  <2>1. ~User
    BY <2>0 DEF User, Create, Edit, Move, Delete, Change, SyncMoves
  <2>2. ASSUME ~Answering, UNCHANGED prompt,
               \/ \E item \in todo.pull : Pull(item)
               \/ \E item \in todo.deleteLocal : DeleteLocal(item)
        PROVE  Version(i) \in published \cup given' \cup unsent
    <3>1. SInvIn(Known)
      BY <2>0, <2>2 DEF LInv, LInvIn, QInv, RTypeOK
    <3>2. Known \subseteq published \cup given' \cup unsent
      BY <2>2 DEF Known, prompt, history
    <3>3. ASSUME NEW item \in todo.pull, Pull(item) PROVE Version(i) \in Known
      <4>1. PICK j : /\ j \in IF item.id = None THEN Fresh ELSE {item.id}
                     /\ local' = [local EXCEPT ![j] =
                            [path |-> item.path, content |-> TextOf(item.path)]]
        BY <3>3 DEF Pull
      <4>2. i = j
        BY <2>0, <4>1 DEF Stores
      <4>3. item.id = i /\ item.id # None
        BY <4>1, <4>2, NoneIsNoValue DEF Fresh
      <4> QED BY <3>1, <4>3 DEF SInvIn, DoomedIn
    <3>4. ASSUME NEW item \in todo.deleteLocal, DeleteLocal(item) PROVE Version(i) \in Known
      <4>1. item.id = i
        BY <2>0, <3>4 DEF DeleteLocal, Stores
      <4> QED BY <3>1, <4>1 DEF SInvIn, DoomedIn
    <3> QED BY <2>2, <3>2, <3>3, <3>4
  <2>3. ASSUME TakeFile PROVE Version(i) \in given'
    <3>1. i = target
      BY <2>0, <2>3 DEF TakeFile, Stores
    <3>2. local = mine
      BY <2>3 DEF TakeFile, KeepStep, LInv, LInvIn, OpenIn
    <3> QED BY <2>3, <3>1, <3>2 DEF TakeFile, Give, Version
  <2> QED BY <2>1, <2>2, <2>3, LocalSteps
<1>2. RSpec => []LInv
  BY InitLInv, NextKeepsLInv, PTL DEF RSpec
<1> QED BY <1>1, <1>2, PTL DEF RSpec, OnlyNamedVersionsLost
-----------------------------------------------------------------------------
(***************************************************************************)
(* An answer sticks.  What is pinned for the record of the conflict comes  *)
(* after the entries of all others and is what its record holds, or        *)
(* nothing is pinned and no entry of it is left.  Only an older entry of   *)
(* another record at that path could ask again.                            *)
(***************************************************************************)
OthersAt(p) == \E k \in 1 .. Len(snap) :
    snap[k] # None /\ snap[k].path = p /\ snap[k].id # target
Of(i) == {k \in 1 .. Len(snap) : snap[k] # None /\ snap[k].id = i}

OneEntryPerId == \A j, k \in 1 .. Len(snap) :
    snap[j] # None /\ snap[k] # None /\ snap[j].id = snap[k].id => snap[j] = snap[k]

\* A file the round did not read is planned with the hash of its last entry.
ReadOrBase == pc = "hash" => \A p \in Paths :
    /\ texts[p] # None => texts[p] = hashes[p]
    /\ hashes[p] # None /\ texts[p] = None => LastAt(p) # None /\ LastAt(p).hash = hashes[p]

\* The prompt being open, the store is as the resolution collected it.
Frozen == Answering /\ stage = "none" => local = mine

AskedAbout == stage # "none" =>
    LET p == conflict.path
    IN  /\ At(mine, p) \subseteq {target}
        /\ conflict.remote = None => hashes[p] = None
        /\ conflict.remote # None /\ texts[p] = None => OthersAt(p)
        /\ conflict.remote # None /\ texts[p] # None => texts[p] = conflict.remote.hash
        /\ choice = "local" => local = mine
        /\ \A i \in Ids \ {target} : local[i] = mine[i]

Taken == /\ local[target] # None /\ local[target].path = conflict.path
         /\ texts[conflict.path] # None => local[target].content = texts[conflict.path]

\* What the snapshot has of the record once the answer is applied.
PinnedAs(p, hash) ==
    Of(target) # {} /\ \A k \in Of(target) : snap[k].path = p /\ snap[k].hash = hash
Dropped == Of(target) = {} /\ (conflict.remote = None \/ OthersAt(conflict.path))

Answered ==
    /\ stage = "adopt" => local = mine
    /\ stage = "pinTheirs" => Taken
    /\ stage = "count" =>
          /\ \A j \in 1 .. Len(snap), k \in Of(target) :
                snap[j] # None /\ snap[j].id # target => j < k
          /\ choice = "local" =>
                mine[target] # None /\ PinnedAs(mine[target].path, mine[target].content)
          /\ choice = "remote" =>
                \/ /\ conflict.remote # None /\ Taken
                   /\ PinnedAs(conflict.path, conflict.remote.hash)
                \/ local = mine /\ Dropped

AInv == QInv /\ OneEntryPerId /\ ReadOrBase /\ Frozen /\ AskedAbout /\ Answered

LEMMA InitAInv == RInit => AInv
<1> SUFFICES ASSUME RInit PROVE AInv
  OBVIOUS
<1>1. Len(snap) = 0
  BY DEF RInit, Init
<1> QED
  BY <1>1, InitQInv DEF RInit, Init, AInv, OneEntryPerId, ReadOrBase, Frozen, AskedAbout, Answered,
     Answering

\* The entry of a path, and which one it is.
LEMMA SnapAtFirst ==
    ASSUME NEW snapshot \in Snapshots, NEW p
    PROVE  \/ HitsAt(snapshot, p) = {} /\ SnapAt(snapshot, p) = None
           \/ \E k \in HitsAt(snapshot, p) :
                 /\ SnapAt(snapshot, p) = snapshot[k]
                 /\ \A j \in HitsAt(snapshot, p) : k <= j
<1> DEFINE H == HitsAt(snapshot, p)
<1>1. CASE H = {}
  BY <1>1 DEF SnapAt
<1>2. CASE H # {}
  <2>1. H \in SUBSET Nat
    BY DEF HitsAt, Snapshots
  <2>2. PICK k \in H : \A j \in H : k <= j
    <3> HIDE DEF H
    <3> QED BY <1>2, <2>1, LeastNatural
  <2>3. PICK m \in H : SnapAt(snapshot, p) = snapshot[m] /\ \A j \in H : m <= j
    <3> HIDE DEF H
    <3> DEFINE m == CHOOSE n \in H : \A j \in H : n <= j
    <3>1. m \in H /\ \A j \in H : m <= j
      BY <2>2
    <3>2. SnapAt(snapshot, p) = snapshot[m]
      BY <1>2 DEF SnapAt, H
    <3> HIDE DEF m
    <3> QED BY <3>1, <3>2
  <2> QED BY <2>3
<1> QED BY <1>1, <1>2

\* An advanced snapshot has one entry per record, pinning leaves one.
LEMMA EntriesAreOne ==
    ASSUME local \in Stores, revs \in Files, snap' = Entries(local, revs)
    PROVE  OneEntryPerId'
<1> DEFINE entry(i) == [id |-> i, path |-> local[i].path, hash |-> local[i].content,
                        rev |-> revs[local[i].path]]
<1>1. \A k \in 1 .. Len(snap') : snap'[k] # None => snap'[k] = entry(IdOrder[k])
  BY EntriesType DEF Entries
<1>2. \A i : entry(i).id = i
  OBVIOUS
<1> HIDE DEF entry
<1>3. \A j, k \in 1 .. Len(snap') :
          snap'[j] # None /\ snap'[k] # None /\ snap'[j].id = snap'[k].id => snap'[j] = snap'[k]
  BY <1>1, <1>2
<1> QED BY <1>3 DEF OneEntryPerId

LEMMA PinIsLast ==
    ASSUME OneEntryPerId, snap \in Snapshots, target' = target,
           \/ snap' = PinEntry(target, <<>>)
           \/ \E e \in SnapEntry : snap' = PinEntry(target, <<e>>) /\ e.id = target
    PROVE  /\ OneEntryPerId'
           /\ \A j \in 1 .. Len(snap'), k \in Of(target)' :
                 snap'[j] # None /\ snap'[j].id # target => j < k
           /\ \A p : OthersAt(p) => OthersAt(p)'
           /\ snap' = PinEntry(target, <<>>) => Of(target)' = {}
           /\ \A e \in SnapEntry : snap' = PinEntry(target, <<e>>) /\ e.id = target =>
                 Of(target)' # {} /\ \A k \in Of(target)' : snap'[k] = e
<1> DEFINE s == EntriesBut(target)
           Old(k) == \E j \in 1 .. Len(snap) :
                        s[k] = snap[j] /\ snap[j] # None /\ snap[j].id # target
<1>0. s \in Snapshots /\ Len(s) \in Nat
  BY EntriesButKeeps DEF Snapshots
<1>1. /\ \A k \in 1 .. Len(s) : Old(k)
      /\ \A j \in 1 .. Len(snap) : snap[j] # None /\ snap[j].id # target =>
            \E k \in 1 .. Len(s) : s[k] = snap[j]
  BY EntriesButKeeps
<1>2. ASSUME NEW j \in 1 .. Len(s), NEW k \in 1 .. Len(s), s[j].id = s[k].id
      PROVE  s[j] = s[k]
  <2> HIDE DEF s
  <2>1. Old(j) /\ Old(k)
    BY <1>1
  <2> QED BY <1>2, <2>1 DEF OneEntryPerId
<1>3. CASE snap' = PinEntry(target, <<>>)
  <2>1. snap' = s
    BY <1>3, DropEntryEnds
  <2>2. Of(target)' = {}
    <3> HIDE DEF s
    <3> QED BY <1>1, <2>1 DEF Of
  <2>3. \A p : OthersAt(p) => OthersAt(p)'
    <3> HIDE DEF s
    <3> QED BY <1>1, <2>1 DEF OthersAt
  <2>4. OneEntryPerId'
    <3> HIDE DEF s
    <3> QED BY <1>2, <2>1 DEF OneEntryPerId
  <2>5. ASSUME NEW e \in SnapEntry, snap' = PinEntry(target, <<e>>) PROVE FALSE
    <3>1. Len(snap') = Len(s) + 1
      BY <2>5, PinEntryEnds
    <3> HIDE DEF s
    <3> QED BY <1>0, <2>1, <3>1
  <2> QED BY <2>2, <2>3, <2>4, <2>5
<1>4. ASSUME NEW e \in SnapEntry, snap' = PinEntry(target, <<e>>), e.id = target
      PROVE  /\ OneEntryPerId'
             /\ \A j \in 1 .. Len(snap'), k \in Of(target)' :
                   snap'[j] # None /\ snap'[j].id # target => j < k
             /\ \A p : OthersAt(p) => OthersAt(p)'
             /\ Of(target)' # {} /\ \A k \in Of(target)' : snap'[k] = e
  <2>1. /\ Len(snap') = Len(s) + 1 /\ snap'[Len(s) + 1] = e
        /\ \A k \in 1 .. Len(s) : snap'[k] = s[k]
    BY <1>4, PinEntryEnds
  <2>2. e # None
    BY <1>4, NoneIsNoAnswer
  <2> HIDE DEF s
  <2>3. Of(target)' = {Len(s) + 1}
    <3>1. \A k \in 1 .. Len(snap') : k \in 1 .. Len(s) \/ k = Len(s) + 1
      BY <1>0, <2>1
    <3>2. \A k \in 1 .. Len(s) : snap'[k] # None /\ snap'[k].id # target
      BY <1>1, <2>1
    <3>3. Len(s) + 1 \in Of(target)'
      BY <1>0, <1>4, <2>1, <2>2 DEF Of
    <3> QED BY <3>1, <3>2, <3>3 DEF Of
  <2>4. \A p : OthersAt(p) => OthersAt(p)'
    BY <1>0, <1>1, <2>1 DEF OthersAt
  <2>5. ASSUME NEW j \in 1 .. Len(snap'), NEW k \in 1 .. Len(snap'), snap'[j].id = snap'[k].id
        PROVE  snap'[j] = snap'[k]
    <3>1. \A m \in 1 .. Len(snap') :
             \/ m \in 1 .. Len(s) /\ snap'[m] = s[m] /\ s[m].id # target
             \/ m = Len(s) + 1 /\ snap'[m].id = target
      <4>1. \A m \in 1 .. Len(snap') : m \in 1 .. Len(s) \/ m = Len(s) + 1
        BY <1>0, <2>1
      <4>2. \A m \in 1 .. Len(s) : snap'[m] = s[m] /\ s[m].id # target
        BY <1>1, <2>1
      <4>3. snap'[Len(s) + 1].id = target
        BY <1>4, <2>1
      <4> QED BY <4>1, <4>2, <4>3
    <3> QED BY <1>2, <2>1, <2>5, <3>1
  <2>6. OneEntryPerId'
    BY <2>5 DEF OneEntryPerId
  <2>7. \A j \in 1 .. Len(snap'), k \in Of(target)' :
            snap'[j] # None /\ snap'[j].id # target => j < k
    BY <1>0, <1>4, <2>1, <2>3
  <2> QED BY <2>1, <2>3, <2>4, <2>6, <2>7
<1>5. ASSUME NEW e \in SnapEntry, snap' = PinEntry(target, <<e>>) PROVE snap' # PinEntry(target, <<>>)
  BY <1>0, <1>5, PinEntryEnds, DropEntryEnds
<1> QED BY <1>3, <1>4, <1>5

\* The part of it that rounds have to keep, too.
LEMMA NextKeepsEntries ==
    ASSUME QInv, OneEntryPerId, ReadOrBase, [Next]_vars
    PROVE  OneEntryPerId' /\ ReadOrBase'
<1> USE DEF stored, bounds, round
<1>1. OneEntryPerId'
  <2>1. CASE FinalizeClean
    BY <2>1, EntriesAreOne DEF FinalizeClean, QInv, TInv, TypeOK
  <2>2. CASE ~FinalizeClean
    <3>1. snap' = snap
      BY <2>2 DEF vars, Next, RoundStep, Capture, Collect, List, HashFile, Plan, Collide, Apply,
         Push, PushRefused, ReadBack, Pull, DeleteRemote, DeleteRefused, DeleteLocal,
         Finalize, FinalizeAsking, Failure, PushUnanswered, DeleteUnanswered, Fail, Reload,
         Throw, User, Create, Edit, Move, Delete, Change, Others, ForeignWrite, ForeignDelete
    <3> QED BY <3>1 DEF OneEntryPerId
  <2> QED BY <2>1, <2>2
<1>2. ReadOrBase'
  <2>1. CASE List
    <3>1. \A p \in Paths : texts[p] = None
      BY <2>1 DEF List, QInv, TInv, TypeOK, NoFiles
    <3>2. \A p : LastAt(p)' = LastAt(p)
      BY <2>1 DEF List, LastAt
    <3> QED BY <2>1, <3>1, <3>2 DEF List, Shortcut, ReadOrBase
  <2>2. ASSUME NEW p \in Paths, HashFile(p) PROVE ReadOrBase'
    <3>1. /\ texts' = [texts EXCEPT ![p] = remote[p]]
          /\ hashes' = [hashes EXCEPT ![p] = remote[p]] /\ pc = "hash" /\ snap' = snap
      BY <2>2 DEF HashFile
    <3>2. \A q : LastAt(q)' = LastAt(q)
      BY <3>1 DEF LastAt
    <3>3. texts \in [Paths -> Contents \cup {None}] /\ hashes \in [Paths -> Contents \cup {None}]
      BY DEF QInv, TInv, TypeOK, Files
    <3> QED BY <3>1, <3>2, <3>3 DEF ReadOrBase
  <2>3. CASE pc' = "hash" /\ UNCHANGED <<pc, texts, hashes, snap>>
    <3>1. \A q : LastAt(q)' = LastAt(q)
      BY <2>3 DEF LastAt
    <3> QED BY <2>3, <3>1 DEF ReadOrBase
  <2>4. CASE pc' # "hash"
    BY <2>4 DEF ReadOrBase
  <2>5. \/ List \/ (\E p \in Paths : HashFile(p)) \/ pc' # "hash"
        \/ UNCHANGED <<pc, texts, hashes, snap>>
    BY DEF vars, Next, RoundStep, Capture, Collect, Plan, Collide, Apply,
       Push, PushRefused, ReadBack, Pull, DeleteRemote, DeleteRefused, DeleteLocal,
       Finalize, FinalizeClean, FinalizeAsking, Failure, PushUnanswered, DeleteUnanswered,
       Fail, Reload, Throw, Leave,
       User, Create, Edit, Move, Delete, Change, Others, ForeignWrite, ForeignDelete
  <2> QED BY <2>1, <2>2, <2>3, <2>4, <2>5
<1> QED BY <1>1, <1>2

\* Nothing is claimed of an answer before it is given.
LEMMA NobodyKeepsAInv ==
    ASSUME QInv', OneEntryPerId', ReadOrBase', ~Answering', stage' = "none"
    PROVE  AInv'
BY DEF AInv, Frozen, AskedAbout, Answered

LEMMA OutsideKeepsAInv ==
    ASSUME AInv, QInv',
           \/ Rounds \/ RoundOnly(Failure) \/ Later
           \/ asked = {} /\ User /\ UNCHANGED prompt
    PROVE  AInv'
<1>1. ~Answering /\ [Next]_vars /\ UNCHANGED <<target, stage>>
  <2>1. asked = {} \/ pc = "idle" => ~Answering
    BY DEF AInv, QInv, Prompted
  <2> QED
    BY <2>1 DEF Rounds, RoundOnly, AskUser, Finalize, Later, Next, RoundStep, Capture,
       prompt, history
<1>2. ~Answering' /\ stage' = "none"
  BY <1>1 DEF AInv, QInv, RTypeOK, Answering
<1> QED BY <1>1, <1>2, NextKeepsEntries, NobodyKeepsAInv DEF AInv

\* Until it has found its conflict a resolution only reads.
LEMMA LookKeepsAInv ==
    ASSUME AInv, QInv',
           \/ \E i \in Ids, side \in {"local", "remote"} : Resolve(i, side)
           \/ Answering /\ (List \/ \E p \in Paths : HashFile(p)) /\ UNCHANGED prompt
    PROVE  AInv'
<1>1. [Next]_vars /\ stage' = stage /\ pc # "apply"
  BY DEF Resolve, Collect, List, HashFile, Next, RoundStep, Capture, prompt
<1>2. stage' = "none"
  BY <1>1 DEF AInv, QInv, RTypeOK
<1>3. local' = mine'
  <2>1. CASE Answering /\ (List \/ \E p \in Paths : HashFile(p)) /\ UNCHANGED prompt
    BY <1>1, <1>2, <2>1 DEF AInv, Frozen, List, HashFile, stored
  <2>2. ASSUME NEW i \in Ids, NEW side \in {"local", "remote"}, Resolve(i, side)
        PROVE  local' = mine'
    BY <2>2 DEF Resolve, Collect, stored
  <2> QED BY <2>1, <2>2
<1> QED
  BY <1>1, <1>2, <1>3, NextKeepsEntries DEF AInv, Frozen, AskedAbout, Answered

\* Other devices touch nothing a resolution holds.
LEMMA OthersKeepAInv ==
    ASSUME AInv, QInv', UNCHANGED <<local, snap, pc, mine, hashes, texts,
                                asked, target, choice, conflict, stage>>
    PROVE  AInv'
<1>1. \A p : LastAt(p)' = LastAt(p) /\ At(mine, p)' = At(mine, p)
  BY DEF LastAt
<1>2. UNCHANGED <<asked, target, choice, conflict, stage>>
  OBVIOUS
<1>3. Of(target)' = Of(target) /\ \A p : OthersAt(p)' = OthersAt(p)
  BY <1>2 DEF Of, OthersAt
<1>4. OneEntryPerId' /\ ReadOrBase' /\ Frozen'
  BY <1>1, <1>2 DEF AInv, OneEntryPerId, ReadOrBase, Frozen, Answering
<1>5. AskedAbout'
  BY <1>1, <1>2, <1>3 DEF AInv, AskedAbout
<1>6. Answered'
  BY <1>1, <1>2, <1>3 DEF AInv, Answered, Taken, PinnedAs, Dropped
<1> QED BY <1>4, <1>5, <1>6 DEF AInv

\* A conflict about a file that was not read: another record's entry stands
\* before the one that spared the reading.
LEMMA UnreadIsShadowed ==
    ASSUME AInv, NEW p \in Paths, pc = "hash", hashes[p] # None, texts[p] = None,
           SnapAt(snap, p) # None => SnapAt(snap, p).id # target \/ SnapAt(snap, p).hash # hashes[p]
    PROVE  OthersAt(p)
<1>1. LastAt(p) # None /\ LastAt(p).hash = hashes[p]
  BY DEF AInv, ReadOrBase
<1>2. snap \in Snapshots
  BY DEF AInv, QInv, TInv, TypeOK
<1>3. PICK k \in 1 .. Len(snap) : snap[k] = LastAt(p) /\ snap[k].path = p
  BY <1>1, <1>2, LastAtFound
<1>4. k \in HitsAt(snap, p)
  BY <1>1, <1>3 DEF HitsAt
<1>5. PICK m \in HitsAt(snap, p) : SnapAt(snap, p) = snap[m]
  BY <1>2, <1>4, SnapAtFirst
<1>6. m \in 1 .. Len(snap) /\ snap[m] # None /\ snap[m].path = p
  BY <1>5 DEF HitsAt
<1>7. snap[k].id # target \/ snap[m].id # target
  <2> SUFFICES ASSUME snap[k].id = target, snap[m].id = target PROVE FALSE
    OBVIOUS
  <2>1. snap[k] = snap[m]
    BY <1>1, <1>3, <1>6 DEF AInv, OneEntryPerId
  <2> QED BY <1>1, <1>3, <1>5, <1>6, <2>1
<1> QED BY <1>1, <1>3, <1>6, <1>7 DEF OthersAt

LEMMA FindKeepsAInv ==
    ASSUME AInv, QInv', FindConflict
    PROVE  AInv'
<1> DEFINE p == conflict'.path
<1>1. /\ UNCHANGED <<local, snap, mine, hashes, texts, target, choice>> /\ pc = "hash"
      /\ pc' = "apply" /\ stage' = IF choice = "local" THEN "write" ELSE "adopt"
      /\ Answering /\ collisions(mine) = {}
  BY DEF FindConflict, stored
<1>2. /\ conflict'.remote = ListedEntries[p] /\ p \in Paths
      /\ conflict'.remote # None => conflict'.remote.hash = hashes[p] /\ hashes[p] # None
      /\ \/ target \in AskIds(snap, mine, ListedEntries) /\ p = mine[target].path
         \/ /\ p \in RemoteOnly(mine, ListedEntries) /\ target = SnapAt(snap, p).id
            /\ AsksGone(SnapAt(snap, p), ListedEntries[p])
  BY FoundConflict DEF AInv
<1>3. stage = "none" /\ local = mine
  BY <1>1 DEF AInv, QInv, RTypeOK, Frozen
<1>4. At(mine, p) \subseteq {target}
  <2>1. CASE target \in AskIds(snap, mine, ListedEntries) /\ p = mine[target].path
    BY <1>1, <1>2, <2>1 DEF AskIds, At, collisions
  <2>2. CASE p \in RemoteOnly(mine, ListedEntries)
    BY <2>2 DEF RemoteOnly
  <2> QED BY <1>2, <2>1, <2>2
<1>5. conflict'.remote = None => hashes[p] = None
  <2> SUFFICES ASSUME hashes[p] # None PROVE ListedEntries[p] # None
    BY <1>2
  <2>1. [hash |-> hashes[p], rev |-> listing[p]] \in Listed
    BY <1>2 DEF Listed, AInv, QInv, TInv, TypeOK, Files
  <2> QED BY <1>2, <2>1, NoneIsNotListed DEF ListedEntries
<1>6. ASSUME conflict'.remote # None, texts[p] = None PROVE OthersAt(p)
  <2>1. ASSUME SnapAt(snap, p) # None, SnapAt(snap, p).id = target,
               SnapAt(snap, p).hash = hashes[p]
        PROVE  FALSE
    BY <1>2, <1>6, <2>1 DEF AskIds, Asks, AsksGone
  <2> QED BY <1>1, <1>2, <1>6, <2>1, UnreadIsShadowed
<1>7. texts[p] # None => texts[p] = hashes[p]
  BY <1>1, <1>2 DEF AInv, ReadOrBase
<1>8. OthersAt(p) => \E k \in 1 .. Len(snap') :
          snap'[k] # None /\ snap'[k].path = p /\ snap'[k].id # target'
  BY <1>1 DEF OthersAt
<1>9. AskedAbout'
  BY <1>1, <1>2, <1>3, <1>4, <1>5, <1>6, <1>7, <1>8 DEF AskedAbout, OthersAt, At, Live
<1>10. Answered'
  BY <1>1, <1>3 DEF Answered
<1>11. OneEntryPerId' /\ ReadOrBase' /\ Frozen'
  BY <1>1, <1>3 DEF AInv, OneEntryPerId, ReadOrBase, Frozen
<1> QED BY <1>9, <1>10, <1>11 DEF AInv

\* The end of a resolution.
LEMMA EndKeepsAInv ==
    ASSUME AInv, QInv',
           \/ NoConflict \/ KeepVanished \/ KeepRefused \/ KeepFreeRefused
           \/ ResolvedLast \/ ResolvedOne \/ ResolveFail
    PROVE  AInv'
<1>1. ~Answering' /\ stage' = "none" /\ pc' # "hash"
  BY DEF NoConflict, KeepVanished, KeepRefused, KeepFreeRefused, ResolvedLast, ResolvedOne,
     ResolveFail, ResolveThrow, Return, Leave, Answering
<1>2. ReadOrBase'
  BY <1>1 DEF ReadOrBase
<1>3. OneEntryPerId'
  <2>1. CASE ResolvedLast
    BY <2>1, EntriesAreOne DEF ResolvedLast, AInv, QInv, TInv, TypeOK
  <2>2. CASE ~ResolvedLast
    <3>1. snap' = snap
      BY <2>2 DEF NoConflict, KeepVanished, KeepRefused, KeepFreeRefused, ResolvedOne,
         ResolveFail, ResolveThrow, stored
    <3> QED BY <3>1 DEF AInv, OneEntryPerId
  <2> QED BY <2>1, <2>2
<1> QED BY <1>1, <1>2, <1>3, NobodyKeepsAInv

\* What an answer applies is of the record of the conflict alone.
LEMMA ApplyingKeepsAInv ==
    ASSUME AInv, stage # "none", stage' # "none", KeepFrame,
           OneEntryPerId', \A p : OthersAt(p) => OthersAt(p)',
           \A i \in Ids \ {target} : local'[i] = local[i],
           choice = "local" => local' = local
    PROVE  OneEntryPerId' /\ ReadOrBase' /\ Frozen' /\ AskedAbout'
<1>1. pc' = "apply" /\ UNCHANGED <<mine, hashes, texts, target, choice, conflict>>
  BY DEF KeepFrame, AInv, QInv, RTypeOK
<1>2. ReadOrBase' /\ Frozen'
  BY <1>1 DEF ReadOrBase, Frozen
<1>3. AskedAbout'
  BY <1>1 DEF AInv, AskedAbout, At, Live
<1> QED BY <1>2, <1>3

LEMMA LocalKeepsAInv ==
    ASSUME AInv, QInv', KeepWrite \/ KeepReadBack \/ KeepFree \/ KeepPin
    PROVE  AInv'
<1> USE DEF stored, history
<1>1. CASE KeepReadBack
  BY <1>1, OthersKeepAInv DEF KeepReadBack, ReadBack, prompt
<1>2. CASE KeepWrite \/ KeepFree
  <2>1. /\ KeepFrame /\ UNCHANGED <<local, snap>> /\ stage \in {"write", "free"}
        /\ stage' \in {"free", "pin"}
    BY <1>2 DEF KeepWrite, KeepFree, KeepStep
  <2>2. \A p : OthersAt(p) => OthersAt(p)'
    BY <2>1 DEF OthersAt, KeepFrame
  <2>3. OneEntryPerId'
    BY <2>1 DEF AInv, OneEntryPerId
  <2>4. OneEntryPerId' /\ ReadOrBase' /\ Frozen' /\ AskedAbout'
    BY <2>1, <2>2, <2>3, ApplyingKeepsAInv
  <2> QED BY <2>1, <2>4 DEF AInv, Answered
<1>3. CASE KeepPin
  <2> DEFINE e == [id |-> target, path |-> mine[target].path,
                   hash |-> mine[target].content, rev |-> revs[mine[target].path]]
  <2>1. /\ KeepFrame /\ local' = local /\ stage = "pin" /\ stage' = "count"
        /\ snap' = PinEntry(target, <<e>>) /\ Answering
    BY <1>3 DEF KeepPin, KeepStep
  <2>2. UNCHANGED <<mine, target, choice>> /\ choice = "local" /\ mine[target] # None
    BY <2>1 DEF KeepFrame, AInv, QInv, Prompted
  <2>3. mine[target] \in Record /\ target \in Ids
    BY <2>1, <2>2 DEF AInv, QInv, RTypeOK, TInv, TypeOK, Stores, Answering
  <2>4. e \in SnapEntry
    BY <2>3 DEF SnapEntry, Record, AInv, QInv, TInv, TypeOK, Files
  <2>5. /\ e.id = target /\ e.path = mine[target].path /\ e.hash = mine[target].content
    OBVIOUS
  <2> HIDE DEF e
  <2>6. snap \in Snapshots /\ OneEntryPerId
    BY DEF AInv, QInv, TInv, TypeOK
  <2>7. /\ OneEntryPerId' /\ \A p : OthersAt(p) => OthersAt(p)'
        /\ \A j \in 1 .. Len(snap'), k \in Of(target)' :
              snap'[j] # None /\ snap'[j].id # target => j < k
        /\ Of(target)' # {} /\ \A k \in Of(target)' : snap'[k] = e
    BY <2>1, <2>2, <2>4, <2>5, <2>6, PinIsLast
  <2>8. OneEntryPerId' /\ ReadOrBase' /\ Frozen' /\ AskedAbout'
    BY <2>1, <2>7, ApplyingKeepsAInv
  <2>9. PinnedAs(mine[target].path, mine[target].content)'
    BY <2>2, <2>5, <2>7 DEF PinnedAs
  <2>10. Answered'
    BY <2>1, <2>2, <2>7, <2>9, NoneIsNoAnswer DEF Answered
  <2> QED BY <2>8, <2>10 DEF AInv
<1> QED BY <1>1, <1>2, <1>3

LEMMA RemoteKeepsAInv ==
    ASSUME AInv, QInv', TakeFile \/ PinTheirs \/ TakeDeletion
    PROVE  AInv'
<1> USE DEF stored, history
<1>0. /\ KeepFrame /\ Answering /\ stage \in {"adopt", "pinTheirs"} /\ choice = "remote"
      /\ UNCHANGED <<mine, target, choice, conflict, texts>>
  BY DEF TakeFile, PinTheirs, TakeDeletion, KeepStep, KeepFrame, AInv, QInv, Prompted
<1>1. /\ target \in Ids /\ conflict.path \in Paths /\ conflict.remote \in Listed \cup {None}
      /\ snap \in Snapshots /\ OneEntryPerId /\ local \in Stores
  BY <1>0, ConflictsTyped DEF AInv, QInv, RTypeOK, TInv, TypeOK, Answering
<1>2. CASE TakeFile
  <2> DEFINE taken == [path |-> conflict.path, content |-> TextOf(conflict.path)]
  <2>1. /\ local' = [local EXCEPT ![target] = taken] /\ stage' = "pinTheirs" /\ snap' = snap
        /\ TextOf(conflict.path) # None
    BY <1>2 DEF TakeFile
  <2>2. local'[target] = taken /\ \A i \in Ids \ {target} : local'[i] = local[i]
    BY <1>1, <2>1 DEF Stores
  <2>3. OneEntryPerId' /\ \A p : OthersAt(p) => OthersAt(p)'
    BY <1>0, <1>1, <2>1 DEF OneEntryPerId, OthersAt
  <2>4. OneEntryPerId' /\ ReadOrBase' /\ Frozen' /\ AskedAbout'
    BY <1>0, <2>1, <2>2, <2>3, ApplyingKeepsAInv
  <2>5. Taken'
    <3>1. local' \in Stores
      BY DEF QInv, TInv, TypeOK
    <3>2. taken # None
      <4>1. TextOf(conflict.path) \in Contents
        BY <1>1, <2>1 DEF TextOf, AInv, QInv, TInv, TypeOK, Files
      <4>2. taken \in Record
        BY <1>1, <4>1 DEF Record
      <4> QED BY <4>2, NoneIsNoAnswer
    <3>3. texts[conflict.path] # None => taken.content = texts[conflict.path]
      BY DEF TextOf
    <3> QED BY <1>0, <2>2, <3>2, <3>3 DEF Taken
  <2> QED BY <2>1, <2>4, <2>5 DEF AInv, Answered
<1>3. CASE PinTheirs
  <2> DEFINE e == [id |-> target, path |-> conflict.path, hash |-> conflict.remote.hash,
                   rev |-> conflict.remote.rev]
  <2>1. /\ stage = "pinTheirs" /\ stage' = "count" /\ snap' = PinEntry(target, <<e>>)
        /\ local' = local /\ conflict.remote # None
    BY <1>3 DEF PinTheirs, KeepStep, AInv, QInv, Prompted
  <2>2. e \in SnapEntry
    BY <1>1, <2>1 DEF SnapEntry, Listed
  <2>3. e.id = target /\ e.path = conflict.path /\ e.hash = conflict.remote.hash
    OBVIOUS
  <2> HIDE DEF e
  <2>4. /\ OneEntryPerId' /\ \A p : OthersAt(p) => OthersAt(p)'
        /\ \A j \in 1 .. Len(snap'), k \in Of(target)' :
              snap'[j] # None /\ snap'[j].id # target => j < k
        /\ Of(target)' # {} /\ \A k \in Of(target)' : snap'[k] = e
    BY <1>0, <1>1, <2>1, <2>2, <2>3, PinIsLast
  <2>5. OneEntryPerId' /\ ReadOrBase' /\ Frozen' /\ AskedAbout'
    BY <1>0, <2>1, <2>4, ApplyingKeepsAInv
  <2>6. PinnedAs(conflict.path, conflict.remote.hash)'
    BY <1>0, <2>3, <2>4 DEF PinnedAs
  <2>7. Taken'
    BY <1>0, <2>1 DEF AInv, Answered, Taken
  <2>8. Answered'
    BY <1>0, <2>1, <2>4, <2>6, <2>7 DEF Answered
  <2> QED BY <2>5, <2>8 DEF AInv
<1>4. CASE TakeDeletion
  <2>1. /\ stage = "adopt" /\ stage' = "count" /\ snap' = PinEntry(target, <<>>)
        /\ local' = local /\ (conflict.remote = None \/ TextOf(conflict.path) = None)
    BY <1>4 DEF TakeDeletion, KeepStep
  <2>2. /\ OneEntryPerId' /\ \A p : OthersAt(p) => OthersAt(p)'
        /\ \A j \in 1 .. Len(snap'), k \in Of(target)' :
              snap'[j] # None /\ snap'[j].id # target => j < k
        /\ Of(target)' = {}
    BY <1>0, <1>1, <2>1, PinIsLast
  <2>3. OneEntryPerId' /\ ReadOrBase' /\ Frozen' /\ AskedAbout'
    BY <1>0, <2>1, <2>2, ApplyingKeepsAInv
  <2>4. conflict.remote = None \/ OthersAt(conflict.path)
    BY <2>1 DEF TextOf, AInv, AskedAbout
  <2>5. Dropped'
    BY <1>0, <2>2, <2>4 DEF Dropped
  <2>6. local' = mine'
    BY <1>0, <2>1 DEF AInv, Answered
  <2>7. Answered'
    BY <1>0, <2>1, <2>2, <2>5, <2>6 DEF Answered
  <2> QED BY <2>3, <2>7 DEF AInv
<1> QED BY <1>2, <1>3, <1>4

LEMMA NextKeepsAInv == AInv /\ [RNext]_rvars => AInv'
<1> SUFFICES ASSUME AInv, [RNext]_rvars PROVE AInv'
  OBVIOUS
<1>1. QInv'
  BY NextKeepsQInv DEF AInv
<1>2. CASE RNext
  <2>1. ASSUME Meanwhile PROVE AInv'
    BY <1>1, <2>1, OthersKeepAInv DEF Meanwhile, Others, ForeignWrite, ForeignDelete, stored, round
  <2>2. ASSUME ResolveStep PROVE AInv'
    BY <1>1, <2>2, LookKeepsAInv, FindKeepsAInv, EndKeepsAInv, LocalKeepsAInv, RemoteKeepsAInv
       DEF ResolveStep
  <2> QED
    BY <1>1, <1>2, <2>1, <2>2, OutsideKeepsAInv, LookKeepsAInv, EndKeepsAInv DEF RNext
<1>3. CASE UNCHANGED rvars
  BY <1>1, <1>3, OthersKeepAInv DEF rvars, vars, prompt
<1> QED BY <1>2, <1>3

\* A path is not asked about whose only record is what its entry says, or that
\* has no entry and no record, or no entry and no file.
LEMMA AgreedIsNotAsked ==
    ASSUME NEW snapshot, NEW records, NEW listed, NEW p, NEW i,
           At(records, p) \subseteq {i},
           \/ /\ i \in At(records, p) /\ SnapAt(snapshot, p) # None
              /\ SnapAt(snapshot, p).id = i /\ SnapAt(snapshot, p).hash = records[i].content
           \/ SnapAt(snapshot, p) = None /\ (At(records, p) = {} \/ listed[p] = None)
    PROVE  \A c \in planSync(snapshot, records, listed).conflicts : c.path # p
<1> SUFFICES ASSUME NEW c \in planSync(snapshot, records, listed).conflicts, c.path = p
             PROVE  FALSE
  OBVIOUS
<1>1. CASE c.id \in AskIds(snapshot, records, listed) /\ c.path = records[c.id].path
  <2>1. /\ c.id = i /\ i \in At(records, p) /\ records[i].path = p
        /\ Asks(SnapAt(snapshot, p), i, records[i].content, listed[p], Live(records))
    BY <1>1 DEF AskIds, At
  <2> QED BY <2>1 DEF Asks
<1>2. CASE p \in RemoteOnly(records, listed) /\ AsksGone(SnapAt(snapshot, p), listed[p])
  BY <1>2 DEF RemoteOnly, AsksGone
<1> QED BY <1>1, <1>2, ConflictItems

\* The steps that end a resolution after it has counted its conflicts.
LEMMA CountedSteps ==
    ASSUME AInv, RNext, stage = "count", stage' = "none"
    PROVE  /\ local' = local /\ remote' = remote
           /\ snap' = snap \/ snap' = Entries(local, revs)
<1> USE DEF stored, bounds
<1>1. Answering /\ pc = "apply" /\ asked # {}
  BY DEF AInv, QInv, RTypeOK, Prompted
<1>2. ResolvedLast \/ ResolvedOne \/ ResolveFail \/ ResolveThrow
  BY <1>1 DEF RNext, Rounds, RoundOnly, AskUser, Later, Resolve, ResolveStep, List, HashFile,
     FindConflict, NoConflict, KeepVanished, KeepWrite, KeepReadBack, KeepRefused, KeepFree,
     KeepFreeRefused, KeepPin, TakeFile, PinTheirs, TakeDeletion, KeepStep, prompt, Meanwhile
<1> QED BY <1>2 DEF ResolvedLast, ResolvedOne, ResolveFail, ResolveThrow

\* Which entry the path of the answered conflict has, and what it holds.
LEMMA AnsweredIsAgreed ==
    ASSUME AInv, stage = "count", ~Shadowed(conflict.path), ~CameBack(conflict.path)
    PROVE  LET p == conflict.path
               b == SnapAt(snap, p)
           IN  \/ /\ target \in At(local, p) /\ b # None
                  /\ b.id = target /\ b.hash = local[target].content
               \/ b = None /\ (At(local, p) = {} \/ remote[p] = None)
<1> DEFINE p == conflict.path
           b == SnapAt(snap, p)
<1>1. /\ snap \in Snapshots /\ target \in Ids /\ p \in Paths /\ local \in Stores
      /\ choice \in {"local", "remote"} /\ hashes \in Files
      /\ At(mine, p) \subseteq {target}
      /\ b = None \/ b.id = target
      /\ conflict.remote = None => hashes[p] = None
  BY ConflictsTyped DEF AInv, QInv, RTypeOK, TInv, TypeOK, AskedAbout, Shadowed, Answering
<1>2. b # None => \E k \in Of(target) : b = snap[k] /\ snap[k].path = p
  BY <1>1, SnapAtFirst DEF HitsAt, Of
<1>3. ASSUME NEW k \in Of(target), snap[k].path = p PROVE b # None
  <2>1. k \in HitsAt(snap, p)
    BY <1>3 DEF HitsAt, Of
  <2>2. PICK m \in HitsAt(snap, p) : b = snap[m]
    BY <1>1, <2>1, SnapAtFirst
  <2> QED BY <2>2 DEF HitsAt
<1>4. ASSUME OthersAt(p) PROVE b = None
  <2>0. SUFFICES ASSUME b # None PROVE FALSE
    OBVIOUS
  <2>1. PICK j \in 1 .. Len(snap) : snap[j] # None /\ snap[j].path = p /\ snap[j].id # target
    BY <1>4 DEF OthersAt
  <2>2. j \in HitsAt(snap, p)
    BY <2>1 DEF HitsAt
  <2>3. PICK m \in HitsAt(snap, p) : b = snap[m] /\ m <= j
    BY <1>1, <2>2, SnapAtFirst
  <2>4. m \in Of(target)
    BY <1>1, <2>0, <2>3 DEF HitsAt, Of
  <2>5. j < m
    BY <2>1, <2>4 DEF AInv, Answered
  <2> QED BY <1>1, <2>3, <2>4, <2>5 DEF HitsAt, Snapshots
<1>5. CASE choice = "local"
  <2>1. /\ local = mine /\ mine[target] # None
        /\ PinnedAs(mine[target].path, mine[target].content)
    BY <1>5 DEF AInv, AskedAbout, Answered
  <2>2. CASE mine[target].path = p
    <3>1. target \in At(local, p)
      BY <1>1, <2>1, <2>2 DEF At, Live
    <3>2. b # None
      BY <1>3, <2>1, <2>2 DEF PinnedAs
    <3> QED BY <1>2, <2>1, <3>1, <3>2, <1>1 DEF PinnedAs
  <2>3. CASE mine[target].path # p
    <3>1. target \notin At(local, p)
      BY <2>1, <2>3 DEF At
    <3>2. At(local, p) \subseteq {target}
      BY <1>1, <2>1
    <3>3. At(local, p) = {}
      BY <3>1, <3>2
    <3>4. b = None
      BY <1>2, <2>1, <2>3 DEF PinnedAs
    <3> QED BY <3>3, <3>4
  <2> QED BY <2>2, <2>3
<1>6. ASSUME choice = "remote", conflict.remote # None, Taken,
             PinnedAs(p, conflict.remote.hash)
      PROVE  /\ target \in At(local, p) /\ b # None
             /\ b.id = target /\ b.hash = local[target].content
  <2>1. target \in At(local, p)
    BY <1>1, <1>6 DEF Taken, At, Live
  <2>2. b # None /\ b.id = target /\ b.hash = conflict.remote.hash
    BY <1>1, <1>2, <1>3, <1>6 DEF PinnedAs
  <2>3. ~OthersAt(p)
    BY <1>4, <2>2
  <2>4. texts[p] # None /\ texts[p] = conflict.remote.hash
    BY <1>6, <2>3 DEF AInv, AskedAbout
  <2> QED BY <1>6, <2>1, <2>2, <2>4 DEF Taken
<1>7. ASSUME choice = "remote", Dropped
      PROVE  b = None /\ remote[p] = None
  <2>1. b = None /\ ~OthersAt(p)
    <3>1. b = None
      BY <1>2, <1>7 DEF Dropped
    <3>2. ASSUME OthersAt(p) PROVE b # None
      <4>1. HitsAt(snap, p) # {}
        BY <3>2 DEF OthersAt, HitsAt
      <4> QED BY <1>1, <4>1, SnapAtFirst DEF HitsAt
    <3> QED BY <3>1, <3>2
  <2>2. hashes[p] = None
    BY <1>1, <1>7, <2>1 DEF Dropped
  <2> QED BY <1>7, <2>1, <2>2 DEF CameBack
<1>8. CASE choice = "remote"
  BY <1>6, <1>7, <1>8 DEF AInv, Answered
<1> QED BY <1>1, <1>5, <1>8

\* The entry of a path in a snapshot made of the store.
LEMMA AdvancedIsAgreed ==
    ASSUME local \in Stores, revs \in Files, NEW p, NEW i \in Ids, At(local, p) \subseteq {i}
    PROVE  LET b == SnapAt(Entries(local, revs), p)
           IN  \/ i \in At(local, p) /\ b # None /\ b.id = i /\ b.hash = local[i].content
               \/ b = None /\ At(local, p) = {}
<1> DEFINE E == Entries(local, revs)
           b == SnapAt(E, p)
           entry(j) == [id |-> j, path |-> local[j].path, hash |-> local[j].content,
                        rev |-> revs[local[j].path]]
<1>1. /\ E \in Snapshots /\ Len(E) = Len(IdOrder)
      /\ \A k \in 1 .. Len(IdOrder) :
            E[k] = IF local[IdOrder[k]] = None THEN None ELSE entry(IdOrder[k])
  BY EntriesType DEF Entries
<1>2. \A j : entry(j).id = j /\ entry(j).path = local[j].path /\ entry(j).hash = local[j].content
  OBVIOUS
<1>3. \A k \in 1 .. Len(IdOrder) : IdOrder[k] \in Ids
  BY IdOrderNamesIds
<1> HIDE DEF entry, E
<1>4. ASSUME b # None PROVE i \in At(local, p) /\ b.id = i /\ b.hash = local[i].content
  <2>1. PICK k \in HitsAt(E, p) : b = E[k]
    BY <1>1, <1>4, SnapAtFirst
  <2>2. k \in 1 .. Len(IdOrder) /\ E[k] # None /\ E[k].path = p
    BY <1>1, <2>1 DEF HitsAt
  <2>3. E[k] = entry(IdOrder[k]) /\ IdOrder[k] \in At(local, p)
    BY <1>1, <1>2, <1>3, <2>2 DEF At, Live
  <2> QED BY <1>2, <2>1, <2>3
<1>5. ASSUME i \in At(local, p) PROVE b # None
  <2>1. PICK k \in 1 .. Len(IdOrder) : IdOrder[k] = i
    BY IdOrderNamesIds
  <2>2. local[i] # None /\ local[i].path = p /\ local[i] \in Record
    BY <1>5 DEF At, Live, Stores
  <2>3. E[k] = entry(i)
    BY <1>1, <2>1, <2>2
  <2>4. p \in Paths /\ entry(i) # None
    <3>1. entry(i) \in SnapEntry
      BY <2>2 DEF entry, SnapEntry, Record, Files
    <3> QED BY <2>2, <3>1, NoneIsNoAnswer DEF Record
  <2>5. k \in HitsAt(E, p)
    BY <1>1, <1>2, <2>1, <2>2, <2>3, <2>4 DEF HitsAt
  <2>6. PICK m \in HitsAt(E, p) : b = E[m]
    BY <1>1, <2>5, SnapAtFirst
  <2> QED BY <2>6 DEF HitsAt
<1> QED BY <1>4, <1>5 DEF E

\* Whatever fails, whatever other devices do and wherever the tab is closed:
\* once an answer is applied, the next plan does not ask about its path again,
\* but for a path whose first entry is another record's and a file that came
\* back after its deletion was accepted.
THEOREM AnswersStick == RSpec => AnswerSticks
<1> DEFINE Sticks == stage = "count" /\ stage' = "none"
                         /\ ~Shadowed(conflict.path) /\ ~CameBack(conflict.path) =>
                     \A c \in PlanNow'.conflicts : c.path # conflict.path
<1>1. AInv /\ [RNext]_rvars => [Sticks]_rvars
  <2> SUFFICES ASSUME AInv, RNext, stage = "count", stage' = "none",
                      ~Shadowed(conflict.path), ~CameBack(conflict.path)
               PROVE  \A c \in PlanNow'.conflicts : c.path # conflict.path
    OBVIOUS
  <2> DEFINE p == conflict.path
             listed == [q \in Paths |-> IF remote'[q] = None THEN None
                                        ELSE [hash |-> remote'[q], rev |-> remote'[q]]]
  <2>1. /\ target \in Ids /\ p \in Paths /\ local \in Stores /\ revs \in Files
        /\ At(mine, p) \subseteq {target}
        /\ \A i \in Ids \ {target} : local[i] = mine[i]
    BY ConflictsTyped DEF AInv, QInv, RTypeOK, TInv, TypeOK, AskedAbout, Answering
  <2>2. At(local, p) \subseteq {target}
    BY <2>1 DEF At, Live
  <2>3. /\ local' = local /\ remote' = remote
        /\ snap' = snap \/ snap' = Entries(local, revs)
    BY CountedSteps
  <2>4. \/ /\ target \in At(local', p) /\ SnapAt(snap', p) # None
           /\ SnapAt(snap', p).id = target /\ SnapAt(snap', p).hash = local'[target].content
        \/ SnapAt(snap', p) = None /\ (At(local', p) = {} \/ remote'[p] = None)
    BY <2>1, <2>2, <2>3, AnsweredIsAgreed, AdvancedIsAgreed
  <2>5. remote'[p] = None => listed[p] = None
    BY <2>1
  <2>6. At(local', p) \subseteq {target}
    BY <2>2, <2>3
  <2>7. PlanNow' = planSync(snap', local', listed)
    BY DEF PlanNow
  <2> HIDE DEF listed
  <2>8. \A c \in planSync(snap', local', listed).conflicts : c.path # p
    BY <2>4, <2>5, <2>6, AgreedIsNotAsked
  <2> QED BY <2>7, <2>8
<1>2. RSpec => []AInv
  BY InitAInv, NextKeepsAInv, PTL DEF RSpec
<1> QED BY <1>1, <1>2, PTL DEF RSpec, AnswerSticks
-----------------------------------------------------------------------------
(***************************************************************************)
(* While no other device writes during a prompt, of the versions that were *)
(* never in the repository only those answered "theirs" are lost, and      *)
(* those at a path whose file an answer has deleted.                       *)
(*                                                                         *)
(* What has to be seen is that the last answer skips no push of another    *)
(* version.  A round stops to ask when every record has its content at its *)
(* path in the repository or is asked about.  Nothing but an answer        *)
(* disturbs that until the last one is given, and an answer disturbs it    *)
(* for the record it is about, whose version is let go or shared by then,  *)
(* and for a record at the path it frees.                                  *)
(***************************************************************************)

\* The versions a step of the sync may take away.
Excused == published \cup given \cup (freed \X Contents)

\* A record that is as its file, or has no file because of an answer, or that
\* a plan made now would ask about.
FileAt(p) == IF remote[p] = None THEN None ELSE [hash |-> remote[p], rev |-> remote[p]]
Same(i) == remote[local[i].path] = local[i].content
LetGo(i) == remote[local[i].path] = None /\ (local[i].path \in freed \/ Version(i) \in given)
AsksNow(i) == Asks(SnapAt(snap, local[i].path), i, local[i].content, FileAt(local[i].path),
                   Live(local))
Kept(i) == Same(i) \/ LetGo(i)
OneEach == \A i, j \in Live(local) : local[i].path = local[j].path => i = j
Fits(i) == revs[local[i].path] \in {None, local[i].content}
ToAsk(i) == \E c \in todo.conflicts : c.id = i

\* Also on gitlab the revision pinned is that of the content, nobody else
\* having written the file.
NamesHash == \A k \in 1 .. Len(snap) :
    snap[k] # None => snap[k].rev \in {None, snap[k].hash}

\* Nobody writes beside a round, so it knows every file as it is.
Undisturbed ==
    /\ pc = "hash" => \A p \in Paths :
          /\ listing[p] = remote[p] /\ revs[p] = remote[p]
          /\ p \notin toHash => hashes[p] = remote[p]
          /\ texts[p] \in {None, remote[p]}
    /\ pc = "apply" => \A p \in Paths :
          remote[p] # None /\ readback # p => revs[p] = remote[p]

\* No round starts while a prompt is open.
InRound == pc # "idle" /\ ~Answering => asked = {}

\* While a prompt is open, no record waits to be sent but those to ask about.
Prompting == asked # {} /\ pc # "apply" =>
    OneEach /\ \A i \in Live(local) : Kept(i) \/ AsksNow(i)

\* A round leaves a record different from its file only to ask about it.
Applying == pc = "apply" /\ ~Answering =>
    /\ OneEach /\ PullsApart
    /\ \A i \in Live(local) :
          \/ Same(i)
          \/ AsksNow(i) /\ ToAsk(i)
          \/ \E item \in todo.push \cup todo.pull \cup todo.deleteLocal : item.id = i
    /\ \A a \in todo.pull : texts[a.path] \in {None, remote[a.path]} /\ remote[a.path] # None
    /\ \A d \in todo.deleteRemote :
          /\ \A i \in Live(local) : local[i].path # d.path
          /\ \A a \in todo.pull : a.path # d.path

\* An answer has its side of the conflict before it, or has given it: the
\* record agrees with its file or has been let go.
AnswerGiven ==
    /\ stage = "adopt" =>
          /\ conflict.remote # None => TextOf(conflict.path) = remote[conflict.path]
          /\ conflict.remote = None <=> remote[conflict.path] = None
          /\ revs[conflict.path] = remote[conflict.path]
          /\ \/ mine[target] # None /\ mine[target].path = conflict.path
             \/ /\ conflict.remote # None
                /\ \E k \in Of(target) : snap[k].path = conflict.path
    /\ stage \in {"free", "pin", "pinTheirs"} => Same(target)
    /\ stage = "pinTheirs" => local[target].path = conflict.path
    /\ stage \in {"free", "pin", "pinTheirs", "count"} /\ local[target] # None =>
          Kept(target) /\ (readback = None => Fits(target))
    /\ stage = "pin" => \A k \in Of(target) : snap[k].path # mine[target].path =>
          \A i \in Live(local) : local[i].path = snap[k].path => LetGo(i)

\* The other records are still as they were when the prompt was open.
Resolving == stage # "none" =>
    /\ OneEach
    /\ \A i \in Live(local) \ {target} :
          \/ Kept(i) /\ Fits(i)
          \/ (Kept(i) \/ AsksNow(i)) /\ ToAsk(i)
    /\ \A item \in todo.push : MineVersion(item.id) \in Excused
    /\ conflict.remote # None => conflict.remote.rev \in {None, conflict.remote.hash}
    /\ readback # None => stage = "free" /\ readback = mine[target].path
    /\ AnswerGiven

EParts == NamesHash /\ Undisturbed /\ InRound /\ Prompting /\ Applying /\ Resolving
EInv == AInv /\ LInv /\ (~crossed => EParts /\ unsent \subseteq Excused)
-----------------------------------------------------------------------------
(* What an answer pins or drops changes which entry of a path is the first *)
(* only where it was the record's own.                                     *)

\* The kept entries stay in their order.
LEMMA EntriesButInOrder ==
    ASSUME snap \in Snapshots, NEW i, NEW m \in 1 .. Len(snap), snap[m] # None, snap[m].id # i
    PROVE  \E k \in 1 .. Len(EntriesBut(i)) :
               /\ EntriesBut(i)[k] = snap[m]
               /\ \A h \in 1 .. k - 1 : \E j \in 1 .. m - 1 : EntriesBut(i)[h] = snap[j]
<1> DEFINE N == Len(snap)
           Other(j) == snap[j] # None /\ snap[j].id # i
<1>1. PICK kept :
               /\ EntriesBut(i) = kept[N]
               /\ kept[0] = <<>>
               /\ \A n \in 1 .. N :
                     kept[n] = IF Other(n) THEN Append(kept[n - 1], snap[n]) ELSE kept[n - 1]
  BY EntriesButUnfolds
<1>2. N \in Nat /\ \A n \in 1 .. N : snap[n] \in SnapEntry \cup {None}
  BY DEF Snapshots
<1> DEFINE Old(n) ==
               /\ kept[n] \in Snapshots
               /\ \A h \in 1 .. Len(kept[n]) : \E j \in 1 .. n : kept[n][h] = snap[j]
           InPlace(n) ==
               \E k \in 1 .. Len(kept[n]) :
                   /\ kept[n][k] = snap[m]
                   /\ \A h \in 1 .. k - 1 : \E j \in 1 .. m - 1 : kept[n][h] = snap[j]
           Right(n) == Old(n) /\ (m <= n => InPlace(n))
           Wrong == {n \in 0 .. N : ~Right(n)}
<1>3. Wrong = {}
  <2> SUFFICES ASSUME Wrong # {} PROVE FALSE
    OBVIOUS
  <2>1. PICK n \in Wrong : \A j \in Wrong : n <= j
    <3>1. Wrong \in SUBSET Nat
      BY <1>2
    <3> HIDE DEF Wrong
    <3> QED BY <3>1, LeastNatural
  <2>2. n \in 0 .. N /\ ~Right(n)
    BY <2>1
  <2>3. n # 0
    <3>1. Old(0) /\ ~(m <= 0)
      BY <1>1, <1>2 DEF Snapshots
    <3> QED BY <2>2, <3>1
  <2>4. n \in 1 .. N /\ n - 1 \in 0 .. N /\ ~(n <= n - 1)
    BY <1>2, <2>2, <2>3
  <2>5. Right(n - 1)
    <3> HIDE DEF Right
    <3> QED BY <2>1, <2>4
  <2> DEFINE old == kept[n - 1]
             new == kept[n]
  <2>6. old \in Snapshots /\ Len(old) \in Nat
    BY <2>5 DEF Snapshots
  <2>7. CASE Other(n)
    <3>1. new = Append(old, snap[n])
      BY <1>1, <2>4, <2>7
    <3>2. /\ new \in Snapshots /\ Len(new) = Len(old) + 1
          /\ new[Len(old) + 1] = snap[n] /\ \A k \in 1 .. Len(old) : new[k] = old[k]
      <4>1. snap[n] \in SnapEntry \cup {None}
        BY <1>2, <2>4
      <4> QED BY <2>6, <3>1, <4>1, AppendProperties DEF Snapshots
    <3>3. ASSUME NEW h \in 1 .. Len(old) PROVE \E j \in 1 .. n - 1 : new[h] = snap[j]
      BY <2>5, <3>2
    <3>4. \A h \in 1 .. Len(new) : \E j \in 1 .. n : new[h] = snap[j]
      <4> TAKE h \in 1 .. Len(new)
      <4>1. CASE h = Len(old) + 1
        BY <2>4, <3>2, <4>1
      <4>2. CASE h # Len(old) + 1
        <5>1. h \in 1 .. Len(old)
          BY <2>6, <3>2, <4>2
        <5>2. PICK j \in 1 .. n - 1 : new[h] = snap[j]
          BY <3>3, <5>1
        <5> QED BY <2>4, <5>2
      <4> QED BY <4>1, <4>2
    <3>5. CASE m = n
      <4>1. \A h \in 1 .. (Len(old) + 1) - 1 : h \in 1 .. Len(old)
        BY <2>6
      <4>2. Len(old) + 1 \in 1 .. Len(new)
        BY <2>6, <3>2
      <4>3. InPlace(n)
        BY <3>2, <3>3, <3>5, <4>1, <4>2
      <4> QED BY <2>2, <3>2, <3>4, <4>3
    <3>6. CASE m < n
      <4>1. m <= n - 1
        BY <2>4, <3>6
      <4>2. PICK k \in 1 .. Len(old) :
                /\ old[k] = snap[m]
                /\ \A h \in 1 .. k - 1 : \E j \in 1 .. m - 1 : old[h] = snap[j]
        BY <2>5, <4>1
      <4>3. k \in 1 .. Len(new) /\ \A h \in 1 .. k - 1 : h \in 1 .. Len(old)
        BY <2>6, <3>2, <4>2
      <4>4. InPlace(n)
        BY <3>2, <4>2, <4>3
      <4> QED BY <2>2, <3>2, <3>4, <4>4
    <3>7. CASE ~(m <= n)
      BY <2>2, <3>2, <3>4, <3>7
    <3> QED BY <2>4, <3>5, <3>6, <3>7
  <2>8. CASE ~Other(n)
    <3>1. new = old
      BY <1>1, <2>4, <2>8
    <3>2. \A j \in 1 .. n - 1 : j \in 1 .. n
      BY <2>4
    <3>3. Old(n)
      BY <2>5, <3>1, <3>2
    <3>4. m <= n => m <= n - 1
      BY <2>4, <2>8
    <3> QED BY <2>2, <2>5, <3>1, <3>3, <3>4
  <2> QED BY <2>7, <2>8
<1>4. N \in 0 .. N /\ m <= N
  BY <1>2
<1>5. Right(N)
  <2> HIDE DEF Right
  <2> QED BY <1>3, <1>4
<1>6. InPlace(N)
  <2> HIDE DEF Old, InPlace
  <2> QED BY <1>4, <1>5
<1>7. EntriesBut(i) = kept[N]
  BY <1>1
<1> HIDE DEF N, Other
<1> QED BY <1>6, <1>7

\* The first entry of a path, if it is not that record's, stays the first, and
\* where there is none there is none.
LEMMA FirstStays ==
    ASSUME snap \in Snapshots, NEW i, NEW p,
           SnapAt(snap, p) # None => SnapAt(snap, p).id # i,
           \/ snap' = PinEntry(i, <<>>)
           \/ \E e \in SnapEntry : snap' = PinEntry(i, <<e>>) /\ e.path # p
    PROVE  SnapAt(snap', p) = SnapAt(snap, p)
<1> DEFINE s == EntriesBut(i)
<1>1. s \in Snapshots /\ Len(s) \in Nat
  BY EntriesButKeeps DEF Snapshots
<1>2. /\ snap' \in Snapshots /\ Len(snap') \in Nat /\ Len(s) <= Len(snap')
      /\ \A k \in 1 .. Len(s) : snap'[k] = s[k]
      /\ HitsAt(snap', p) = HitsAt(s, p)
  <2>1. CASE snap' = PinEntry(i, <<>>)
    <3>1. snap' = s
      BY <2>1, DropEntryEnds
    <3> HIDE DEF s
    <3> QED BY <1>1, <3>1
  <2>2. ASSUME NEW e \in SnapEntry, snap' = PinEntry(i, <<e>>), e.path # p
        PROVE  /\ snap' \in Snapshots /\ Len(snap') \in Nat /\ Len(s) <= Len(snap')
               /\ \A k \in 1 .. Len(s) : snap'[k] = s[k]
               /\ HitsAt(snap', p) = HitsAt(s, p)
    <3>1. /\ snap' \in Snapshots /\ Len(snap') = Len(s) + 1 /\ snap'[Len(s) + 1] = e
          /\ \A k \in 1 .. Len(s) : snap'[k] = s[k]
      BY <2>2, PinEntryEnds
    <3> HIDE DEF s
    <3>2. \A k \in 1 .. Len(snap') : k \in 1 .. Len(s) \/ k = Len(s) + 1
      BY <1>1, <3>1
    <3>3. \A k \in 1 .. Len(s) : k \in 1 .. Len(snap')
      BY <1>1, <3>1
    <3>4. HitsAt(snap', p) = HitsAt(s, p)
      BY <2>2, <3>1, <3>2, <3>3 DEF HitsAt
    <3> QED BY <1>1, <3>1, <3>4
  <2> QED BY <2>1, <2>2
<1>3. SnapAt(snap', p) = SnapAt(s, p)
  <2> HIDE DEF s
  <2>1. CASE HitsAt(s, p) = {}
    BY <1>2, <2>1 DEF SnapAt
  <2>2. CASE HitsAt(s, p) # {}
    <3>1. \A k \in HitsAt(s, p) : snap'[k] = s[k]
      BY <1>2 DEF HitsAt
    <3>2. HitsAt(s, p) \in SUBSET Nat
      BY <1>1 DEF HitsAt
    <3>3. PICK k \in HitsAt(s, p) : \A j \in HitsAt(s, p) : k <= j
      BY <2>2, <3>2, LeastNatural
    <3> DEFINE first == CHOOSE n \in HitsAt(s, p) : \A j \in HitsAt(s, p) : n <= j
    <3>4. first \in HitsAt(s, p)
      BY <3>3
    <3>5. SnapAt(snap', p) = snap'[first] /\ SnapAt(s, p) = s[first]
      BY <1>2, <2>2 DEF SnapAt
    <3> HIDE DEF first
    <3> QED BY <3>1, <3>4, <3>5
  <2> QED BY <2>1, <2>2
<1>4. CASE SnapAt(snap, p) = None
  <2>1. \A j \in 1 .. Len(snap) : snap[j] # None => snap[j].path # p
    BY <1>4, SnapAtExists
  <2>2. \A k \in 1 .. Len(s) : \E j \in 1 .. Len(snap) : s[k] = snap[j]
    BY EntriesButKeeps
  <2> HIDE DEF s
  <2>3. HitsAt(s, p) = {}
    BY <2>1, <2>2 DEF HitsAt
  <2> QED BY <1>3, <1>4, <2>3 DEF SnapAt
<1>5. CASE SnapAt(snap, p) # None
  <2>1. PICK m \in HitsAt(snap, p) :
            SnapAt(snap, p) = snap[m] /\ \A j \in HitsAt(snap, p) : m <= j
    BY <1>5, SnapAtFirst
  <2>2. m \in 1 .. Len(snap) /\ snap[m] # None /\ snap[m].id # i /\ snap[m].path = p
    BY <1>5, <2>1 DEF HitsAt
  <2>3. PICK k \in 1 .. Len(s) :
            /\ s[k] = snap[m]
            /\ \A h \in 1 .. k - 1 : \E j \in 1 .. m - 1 : s[h] = snap[j]
    BY <2>2, EntriesButInOrder
  <2>4. Len(snap) \in Nat
    BY DEF Snapshots
  <2> HIDE DEF s
  <2>5. \A h \in 1 .. k - 1 : h \notin HitsAt(s, p)
    <3> SUFFICES ASSUME NEW h \in 1 .. k - 1, h \in HitsAt(s, p) PROVE FALSE
      OBVIOUS
    <3>1. PICK j \in 1 .. m - 1 : s[h] = snap[j]
      BY <2>3
    <3>2. j \in 1 .. Len(snap) /\ ~(m <= j)
      BY <2>2, <2>4, <3>1
    <3>3. snap[j] # None /\ snap[j].path = p
      BY <3>1 DEF HitsAt
    <3> QED BY <2>1, <3>2, <3>3 DEF HitsAt
  <2>6. k \in HitsAt(s, p)
    BY <2>2, <2>3 DEF HitsAt
  <2>7. PICK h \in HitsAt(s, p) : SnapAt(s, p) = s[h] /\ \A j \in HitsAt(s, p) : h <= j
    BY <1>1, <2>6, SnapAtFirst
  <2>8. h = k
    <3>1. h \in 1 .. Len(s) /\ h <= k
      BY <2>6, <2>7 DEF HitsAt
    <3>2. h \notin 1 .. k - 1
      BY <2>5, <2>7
    <3> QED BY <1>1, <3>1, <3>2
  <2> QED BY <1>3, <2>1, <2>3, <2>7, <2>8
<1> QED BY <1>4, <1>5
-----------------------------------------------------------------------------
(* What stays of a record that a step leaves alone *)

LEMMA StillAsks ==
    ASSUME NEW i, AsksNow(i), local'[i] = local[i], remote'[local[i].path] = remote[local[i].path],
           SnapAt(snap', local[i].path) = SnapAt(snap, local[i].path),
           SnapAt(snap, local[i].path) # None =>
               \/ SnapAt(snap, local[i].path).id = i
               \/ SnapAt(snap, local[i].path).id \notin Live(local') \ Live(local)
    PROVE  AsksNow(i)'
BY DEF AsksNow, FileAt, Asks

LEMMA StillKept ==
    ASSUME NEW i, local'[i] = local[i], remote'[local[i].path] = remote[local[i].path],
           given \subseteq given', freed \subseteq freed'
    PROVE  /\ Same(i) => Same(i)'
           /\ LetGo(i) => LetGo(i)'
           /\ Kept(i) => Kept(i)'
BY DEF Kept, Same, LetGo, Version

\* The version of such a record may be taken away.
LEMMA KeptIsExcused ==
    ASSUME TInv, RemoteShared, NEW i \in Live(local), Kept(i)
    PROVE  Version(i) \in Excused
<1>1. local[i] \in Record /\ local[i].path \in Paths /\ local[i].content \in Contents
  BY DEF TInv, TypeOK, Stores, Live, Record
<1>2. local[i].content # None
  BY <1>1, NoneIsNoValue
<1> QED
  BY <1>1, <1>2 DEF Kept, Same, LetGo, Version, Excused, RemoteShared

\* A record that is pushed is not asked about.
LEMMA PushedIsNotAsked ==
    ASSUME NEW b, NEW i, NEW c, NEW r, NEW live, Pushes(b, i, c, r, live)
    PROVE  ~Asks(b, i, c, r, live)
BY DEF Pushes, Asks

\* Where the round knows every file as it is, it plans with the files.
LEMMA PlansWithFiles ==
    ASSUME TInv, Undisturbed, pc = "hash", toHash = {}
    PROVE  /\ ListedEntries = [p \in Paths |-> FileAt(p)]
           /\ \A p \in Paths : hashes[p] = remote[p] /\ revs[p] = remote[p] /\ listing[p] = remote[p]
BY DEF Undisturbed, ListedEntries, FileAt

\* What such a plan does with a record.
LEMMA PlannedFor ==
    ASSUME TInv, Undisturbed, pc = "hash", toHash = {}, local = mine, NEW i \in Live(local)
    PROVE  LET plan == planSync(snap, mine, ListedEntries)
           IN  \/ Same(i)
               \/ AsksNow(i) /\ \E c \in plan.conflicts : c.id = i
               \/ \E item \in plan.push \cup plan.pull \cup plan.deleteLocal : item.id = i
<1>1. local[i].path \in Paths
  BY DEF TInv, TypeOK, Stores, Live, Record
<1>2. ListedEntries[local[i].path] = FileAt(local[i].path)
  BY <1>1, PlansWithFiles
<1>3. CASE i \in AskIds(snap, mine, ListedEntries)
  BY <1>2, <1>3, ConflictItems DEF AskIds, AsksNow
<1>4. CASE i \in PushIds(snap, mine, ListedEntries) \cup PullIds(snap, mine, ListedEntries)
                    \cup DropIds(snap, mine, ListedEntries)
  BY <1>4, PushItems, PullItems, DeleteLocalItems
<1>5. CASE i \notin PushIds(snap, mine, ListedEntries) \cup PullIds(snap, mine, ListedEntries)
                    \cup DropIds(snap, mine, ListedEntries) \cup AskIds(snap, mine, ListedEntries)
  BY <1>2, <1>5, RestAgrees DEF Same, FileAt
<1> QED BY <1>3, <1>4, <1>5
-----------------------------------------------------------------------------
(* Rounds *)

LEMMA InitEInv == RInit => EInv
<1> SUFFICES ASSUME RInit PROVE EInv
  OBVIOUS
<1>1. EParts
  BY DEF RInit, Init, EParts, NamesHash, Undisturbed, InRound, Prompting, Applying, Resolving
<1> QED BY <1>1, InitAInv, InitLInv DEF EInv, RInit

\* Nothing is promised outside of rounds and prompts but of the snapshot.
LEMMA QuietKeepsEParts ==
    ASSUME NamesHash, snap' = snap, pc' = "idle", asked' = {}, stage' = "none"
    PROVE  EParts'
BY DEF EParts, NamesHash, Undisturbed, InRound, Prompting, Applying, Resolving

\* A round or an answer begins and reads.
LEMMA LookKeepsEParts ==
    ASSUME EParts, QInv, stage' = "none", asked' = asked, UNCHANGED history,
           Collect \/ List \/ \E p \in Paths : HashFile(p),
           ~Answering' => asked = {}
    PROVE  EParts'
<1> USE DEF stored
<1>1. pc' \in {"list", "hash"} /\ UNCHANGED <<local, remote, snap, given, freed>>
  BY DEF Collect, List, HashFile, history
<1>2. NamesHash'
  BY <1>1 DEF EParts, NamesHash
<1>3. Prompting'
  <2>1. pc # "apply"
    BY DEF Collect, List, HashFile
  <2> QED
    BY <1>1, <2>1 DEF EParts, Prompting, OneEach, Kept, Same, LetGo, AsksNow, FileAt, Version
<1>4. Undisturbed'
  <2>1. CASE Collect
    BY <2>1 DEF Collect, Undisturbed
  <2>2. CASE List
    <3>1. texts = NoFiles /\ snap \in Snapshots /\ texts' = texts
      BY <2>2 DEF List, QInv, TInv, TypeOK
    <3>2. ASSUME NEW p \in Paths, p \notin toHash' PROVE hashes'[p] = remote[p]
      <4>1. CASE Shortcut(p)
        <5>1. LastAt(p).rev \in {None, LastAt(p).hash}
          BY <3>1, <4>1, LastAtFound DEF Shortcut, EParts, NamesHash
        <5> QED BY <2>2, <4>1, <5>1 DEF List, Shortcut
      <4>2. CASE ~Shortcut(p)
        BY <2>2, <3>2, <4>2 DEF List
      <4> QED BY <4>1, <4>2
    <3> QED BY <2>2, <3>1, <3>2 DEF List, Undisturbed, NoFiles
  <2>3. ASSUME NEW p \in Paths, HashFile(p) PROVE Undisturbed'
    BY <2>3 DEF HashFile, Undisturbed, EParts, QInv, TInv, TypeOK, Files
  <2> QED BY <2>1, <2>2, <2>3
<1>5. InRound' /\ Applying' /\ Resolving'
  BY <1>1 DEF InRound, Applying, Resolving
<1> QED BY <1>2, <1>3, <1>4, <1>5 DEF EParts

\* The plan of a round: each record that is not as its file has an item.
LEMMA PlanKeepsEParts ==
    ASSUME EParts, SInvIn(Known), QInv, ~Answering, Plan, UNCHANGED prompt
    PROVE  EParts'
<1> DEFINE plan == planSync(snap, mine, ListedEntries)
<1> USE DEF stored
<1>1. /\ local = mine /\ todo' = plan /\ pc = "hash" /\ pc' = "apply" /\ toHash = {}
      /\ UNCHANGED <<local, remote, snap, mine, texts, revs, readback>>
      /\ UNCHANGED <<asked, stage, target, given, freed>> /\ stage = "none"
      /\ local \in Stores /\ snap \in Snapshots /\ collisions(mine) = {}
  BY DEF Plan, SInvIn, LocalIsMine, prompt, history, QInv, RTypeOK, TInv, TypeOK, Answering
<1>2. NamesHash'
  BY <1>1 DEF EParts, NamesHash
<1>3. Undisturbed'
  BY <1>1 DEF EParts, Undisturbed
<1>4. InRound' /\ Prompting' /\ Resolving'
  BY <1>1 DEF EParts, InRound, Answering, Prompting, Resolving
<1>5. Undisturbed /\ TInv
  BY DEF EParts, QInv
<1>6. \A p \in Paths : ListedEntries[p] = FileAt(p) /\ hashes[p] = remote[p]
  BY <1>1, <1>5, PlansWithFiles
<1>7. \A i \in Live(local) : i \in Ids /\ local[i] # None /\ local[i].path \in Paths
  BY <1>1 DEF Live, Stores, Record
<1>8. OneEach
  BY <1>1, OneTravels DEF OneEach
<1> DEFINE Pulled == PullIds(snap, mine, ListedEntries)
           Pushed == PushIds(snap, mine, ListedEntries)
<1>9. Pushed \subseteq Live(local) /\ Pulled \subseteq Live(local) /\ Pushed \cap Pulled = {}
      /\ None \notin Pulled
  BY <1>1, <1>7, NoneIsNoValue DEF PushIds, PullIds, Pushes, Pulls
<1>10. \A item \in plan.pull :
          /\ item.path \in Paths /\ ListedEntries[item.path] # None
          /\ \/ item.id \in Pulled /\ item.path = local[item.id].path
             \/ item.id = None /\ item.path \in RemoteOnly(mine, ListedEntries)
  BY <1>1, <1>7, <1>9, PullItems DEF RemoteOnly, PullIds, Pulls
<1>11. ASSUME NEW a \in plan.pull, NEW b \in plan.pull, a.path = b.path PROVE a = b
  <2>1. a.id = b.id
    BY <1>1, <1>7, <1>8, <1>9, <1>10, <1>11 DEF RemoteOnly, At, OneEach
  <2> QED BY <1>11, <2>1, PullCarries
<1>12. ASSUME NEW a \in plan.pull, NEW u \in plan.push PROVE a.path # u.path
  <2>1. u.id \in Pushed /\ u.path = local[u.id].path
    BY <1>1, PushItems
  <2> QED BY <1>1, <1>7, <1>8, <1>9, <1>10, <2>1 DEF RemoteOnly, At, OneEach
<1>13. ASSUME NEW a \in plan.pull
       PROVE  IF a.id = None THEN \A i \in Ids : local[i] # None => local[i].path # a.path
              ELSE local[a.id] # None /\ local[a.id].path = a.path
  BY <1>1, <1>7, <1>9, <1>10 DEF RemoteOnly, At, Live
<1>14. PullsApart'
  BY <1>1, <1>11, <1>12, <1>13 DEF PullsApart
<1>15. ASSUME NEW i \in Live(local)
       PROVE  \/ Same(i)
              \/ AsksNow(i) /\ ToAsk(i)'
              \/ \E item \in plan.push \cup plan.pull \cup plan.deleteLocal : item.id = i
  BY <1>1, <1>5, PlannedFor DEF ToAsk
<1>16. \A a \in plan.pull : texts[a.path] \in {None, remote[a.path]} /\ remote[a.path] # None
  BY <1>1, <1>5, <1>6, <1>10 DEF Undisturbed, FileAt
<1>17. ASSUME NEW d \in plan.deleteRemote
       PROVE  /\ \A i \in Live(local) : local[i].path # d.path
              /\ \A a \in plan.pull : a.path # d.path
  <2>1. d.path \in RemoteOnly(mine, ListedEntries) /\ SnapAt(snap, d.path) # None
    BY DeleteRemoteItems DEF DropsRemote
  <2>2. \A i \in Live(local) : local[i].path # d.path
    BY <1>1, <1>7, <2>1 DEF RemoteOnly, At
  <2>3. ASSUME NEW a \in plan.pull PROVE a.path # d.path
    <3>1. CASE a.id \in Pulled
      BY <1>9, <1>10, <2>2, <3>1
    <3>2. CASE a.id \notin Pulled
      BY <2>1, <3>2, PullItems DEF Arrives
    <3> QED BY <3>1, <3>2
  <2> QED BY <2>2, <2>3
<1> HIDE DEF plan
<1>18. Applying'
  <2>1. OneEach' /\ Live(local') = Live(local)
    BY <1>1, <1>8 DEF OneEach
  <2>2. \A i \in Live(local) : (Same(i) => Same(i)') /\ (AsksNow(i) => AsksNow(i)')
    BY <1>1 DEF Same, AsksNow, FileAt
  <2> QED
    BY <1>1, <1>14, <1>15, <1>16, <1>17, <2>1, <2>2 DEF Applying
<1> QED BY <1>2, <1>3, <1>4, <1>18 DEF EParts

\* What a step that applies the plan leaves alone.
LEMMA ApplyFrame ==
    ASSUME EParts, QInv, ~Answering, UNCHANGED prompt, pc = "apply", pc' = "apply", snap' = snap,
           Undisturbed', Applying'
    PROVE  EParts'
<1>1. stage = "none" /\ UNCHANGED <<asked, stage, target>>
  BY DEF QInv, RTypeOK, prompt
<1> QED
  BY <1>1 DEF EParts, NamesHash, InRound, Prompting, Resolving, Answering

LEMMA PushKeepsEParts ==
    ASSUME EParts, SInvIn(Known), QInv, ~Answering, UNCHANGED prompt,
           NEW item \in todo.push, Push(item)
    PROVE  EParts'
<1> USE DEF stored, bounds
<1> DEFINE c == mine[item.id].content
<1>1. /\ local = mine /\ local[item.id] \in Record /\ item.id \in Ids
      /\ local[item.id].path = item.path /\ item.path \in Paths
      /\ pc = "apply" /\ pc' = "apply" /\ UNCHANGED <<local, snap, texts>>
      /\ remote' = [remote EXCEPT ![item.path] = c] /\ todo \in PlanType /\ readback = None
      /\ todo' = [todo EXCEPT !.push = @ \ {item}]
      /\ UNCHANGED <<asked, target, given, freed>>
  BY TodoItems DEF Push, Pushing, Write, SInvIn, LocalIsMine, QInv, TInv, TypeOK, PushesMine,
     prompt, history
<1>2. item.id \in Live(local) /\ local' = local /\ c = local[item.id].content
  BY <1>1, NoneIsNoAnswer DEF Live
<1>3. /\ \A q \in Paths : remote'[q] = IF q = item.path THEN c ELSE remote[q]
      /\ \A i \in Live(local) : i \in Ids /\ local[i].path \in Paths
  BY <1>1 DEF QInv, TInv, TypeOK, Files, Live, Stores, Record
<1>4. /\ todo'.push = todo.push \ {item} /\ todo'.pull = todo.pull
      /\ todo'.deleteRemote = todo.deleteRemote /\ todo'.deleteLocal = todo.deleteLocal
      /\ todo'.conflicts = todo.conflicts
  BY <1>1 DEF PlanType
<1>5. Applying
  BY DEF EParts
<1>6. Undisturbed'
  <2>1. \A q \in Paths : remote[q] # None => revs[q] = remote[q]
    BY <1>1, NoneIsNoValue DEF EParts, Undisturbed
  <2>2. \/ revs' = [revs EXCEPT ![item.path] = c] /\ UNCHANGED readback
        \/ readback' = item.path /\ UNCHANGED revs
    BY DEF Push
  <2>3. revs \in Files
    BY DEF QInv, TInv, TypeOK
  <2> QED BY <1>1, <1>3, <2>1, <2>2, <2>3 DEF Undisturbed, Files
<1>7. ASSUME NEW i \in Live(local)
      PROVE  \/ Same(i)'
             \/ AsksNow(i)' /\ ToAsk(i)'
             \/ \E a \in todo'.push \cup todo'.pull \cup todo'.deleteLocal : a.id = i
  <2>1. CASE i = item.id
    BY <1>1, <1>2, <1>3, <2>1 DEF Same
  <2>2. CASE i # item.id
    <3>1. local[i].path # item.path
      BY <1>1, <1>2, <1>5, <2>2 DEF Applying, OneEach
    <3>2. remote'[local[i].path] = remote[local[i].path]
      BY <1>3, <3>1
    <3>3. (Same(i) => Same(i)') /\ (AsksNow(i) => AsksNow(i)') /\ (ToAsk(i) => ToAsk(i)')
      BY <1>1, <1>4, <3>2, StillAsks DEF Same, AsksNow, FileAt, ToAsk
    <3> QED BY <1>1, <1>4, <1>5, <2>2, <3>3 DEF Applying
  <2> QED BY <2>1, <2>2
<1>8. PullsApart'
  BY <1>1, <1>4, <1>5 DEF Applying, PullsApart
<1>9. \A a \in todo.pull : a.path # item.path /\ a.path \in Paths
  BY <1>1, <1>5, TodoItems DEF Applying, PullsApart
<1>10. \A a \in todo'.pull : texts'[a.path] \in {None, remote'[a.path]} /\ remote'[a.path] # None
  BY <1>1, <1>3, <1>4, <1>5, <1>9 DEF Applying
<1>11. Applying'
  BY <1>1, <1>4, <1>5, <1>7, <1>8, <1>10 DEF Applying, OneEach, Answering
<1> QED BY <1>1, <1>6, <1>11, ApplyFrame

LEMMA ReadBackKeepsEParts ==
    ASSUME EParts, QInv, ~Answering, UNCHANGED prompt, ReadBack
    PROVE  EParts'
<1> USE DEF stored
<1>1. /\ pc = "apply" /\ pc' = "apply" /\ UNCHANGED <<local, remote, snap, texts, todo>>
      /\ UNCHANGED <<asked, target, given, freed>>
  BY DEF ReadBack, QInv, TInv, TypeOK, prompt, history
<1>2. Undisturbed'
  BY <1>1 DEF ReadBack, EParts, Undisturbed, QInv, TInv, TypeOK, Files
<1>3. Applying'
  BY <1>1 DEF EParts, Applying, OneEach, PullsApart, Same, AsksNow, FileAt, ToAsk, Answering
<1> QED BY <1>1, <1>2, <1>3, ApplyFrame

LEMMA DeleteRemoteKeepsEParts ==
    ASSUME EParts, QInv, ~Answering, UNCHANGED prompt,
           NEW item \in todo.deleteRemote, DeleteRemote(item)
    PROVE  EParts'
<1> USE DEF stored
<1>1. /\ pc = "apply" /\ pc' = "apply" /\ UNCHANGED <<local, snap, texts, revs, readback>>
      /\ remote' = [remote EXCEPT ![item.path] = None] /\ todo.pull = {}
      /\ todo' = [todo EXCEPT !.deleteRemote = @ \ {item}] /\ todo \in PlanType
      /\ UNCHANGED <<asked, target, given, freed>>
  BY DEF DeleteRemote, Deleting, QInv, TInv, TypeOK, prompt, history
<1>2. /\ \A q \in Paths : remote'[q] = IF q = item.path THEN None ELSE remote[q]
      /\ \A i \in Live(local) : i \in Ids /\ local[i].path \in Paths
  BY <1>1 DEF QInv, TInv, TypeOK, Files, Live, Stores, Record
<1>3. /\ todo'.deleteRemote = todo.deleteRemote \ {item}
      /\ todo'.push = todo.push /\ todo'.pull = todo.pull /\ todo'.deleteLocal = todo.deleteLocal
      /\ todo'.conflicts = todo.conflicts
  BY <1>1 DEF PlanType
<1>4. Applying
  BY DEF EParts
<1>5. Undisturbed'
  BY <1>1, <1>2 DEF EParts, Undisturbed
<1>6. \A i \in Live(local) : (Same(i) => Same(i)') /\ (AsksNow(i) => AsksNow(i)')
  <2>1. \A i \in Live(local) : remote'[local[i].path] = remote[local[i].path]
    BY <1>1, <1>2, <1>4 DEF Applying
  <2> QED BY <1>1, <2>1 DEF Same, AsksNow, FileAt
<1>7. Applying'
  BY <1>1, <1>3, <1>4, <1>6 DEF Applying, OneEach, PullsApart, ToAsk, Answering
<1> QED BY <1>1, <1>5, <1>7, ApplyFrame

\* A record that goes leaves the questions about others as they were.
LEMMA DeleteLocalKeepsEParts ==
    ASSUME EParts, QInv, ~Answering, UNCHANGED prompt,
           NEW item \in todo.deleteLocal, DeleteLocal(item)
    PROVE  EParts'
<1>1. /\ pc = "apply" /\ pc' = "apply" /\ UNCHANGED <<remote, snap, texts, revs, readback>>
      /\ local' = [local EXCEPT ![item.id] = None] /\ item.id \in Ids /\ local \in Stores
      /\ todo.push = {} /\ todo.pull = {} /\ todo.deleteRemote = {}
      /\ todo' = [todo EXCEPT !.deleteLocal = @ \ {item}] /\ todo \in PlanType
      /\ UNCHANGED <<asked, target, given, freed>>
  BY TodoItems DEF DeleteLocal, QInv, TInv, TypeOK, prompt, history
<1>2. \A i \in Ids : local'[i] = IF i = item.id THEN None ELSE local[i]
  BY <1>1 DEF Stores
<1>3. Live(local') = Live(local) \ {item.id} /\ Live(local) \subseteq Ids
  BY <1>1, <1>2 DEF Live
<1>4. /\ todo'.deleteLocal = todo.deleteLocal \ {item} /\ todo'.deleteRemote = {}
      /\ todo'.push = {} /\ todo'.pull = {} /\ todo'.conflicts = todo.conflicts
  BY <1>1 DEF PlanType
<1>5. Applying
  BY DEF EParts
<1>6. Undisturbed'
  BY <1>1 DEF EParts, Undisturbed
<1>7. \A i \in Live(local') : (Same(i) => Same(i)') /\ (AsksNow(i) => AsksNow(i)')
  <2>1. ASSUME NEW i \in Live(local'), AsksNow(i) PROVE AsksNow(i)'
    <3>1. local'[i] = local[i]
      BY <1>2, <1>3, <2>1
    <3> QED BY <1>1, <1>3, <2>1, <3>1, StillAsks
  <2> QED BY <1>1, <1>2, <1>3, <2>1 DEF Same
<1>8. \A i \in Live(local') :
          \/ Same(i)'
          \/ AsksNow(i)' /\ ToAsk(i)'
          \/ \E a \in todo'.push \cup todo'.pull \cup todo'.deleteLocal : a.id = i
  BY <1>1, <1>3, <1>4, <1>5, <1>7 DEF Applying, ToAsk, Answering
<1>9. OneEach'
  BY <1>1, <1>2, <1>3, <1>5 DEF Applying, OneEach
<1>10. Applying'
  BY <1>1, <1>4, <1>8, <1>9 DEF Applying, PullsApart
<1> QED BY <1>1, <1>6, <1>10, ApplyFrame

\* A pulled record is as its file; a new one owns no entry that could change
\* what is asked about the others.
LEMMA PullKeepsEParts ==
    ASSUME EParts, QInv, ~Answering, UNCHANGED prompt, NEW item \in todo.pull, Pull(item)
    PROVE  EParts'
<1> DEFINE text == remote[item.path]
<1>1. /\ pc = "apply" /\ pc' = "apply" /\ UNCHANGED <<remote, snap, texts, revs, readback>>
      /\ local \in Stores /\ item.path \in Paths /\ item.id \in Ids \cup {None}
      /\ todo' = [todo EXCEPT !.pull = @ \ {item}] /\ todo \in PlanType /\ todo.push = {}
      /\ UNCHANGED <<asked, target, given, freed>>
  BY TodoItems DEF Pull, Pulling, QInv, TInv, TypeOK, prompt, history
<1>2. Applying
  BY DEF EParts
<1>3. TextOf(item.path) = text /\ text # None
  BY <1>1, <1>2 DEF Applying, TextOf
<1>4. PICK j \in IF item.id = None THEN Fresh ELSE {item.id} :
          local' = [local EXCEPT ![j] = [path |-> item.path, content |-> text]]
  BY <1>3 DEF Pull
<1>5. j \in Ids /\ j # None
  BY <1>1, <1>4, NoneIsNoValue DEF Fresh
<1>6. /\ local'[j] = [path |-> item.path, content |-> text]
      /\ \A i \in Ids \ {j} : local'[i] = local[i]
  BY <1>1, <1>4, <1>5 DEF Stores
<1>7. [path |-> item.path, content |-> text] # None
  BY <1>1, <1>3, NoneIsNoAnswer DEF Record, QInv, TInv, TypeOK, Files
<1>8. Live(local') = Live(local) \cup {j} /\ Live(local) \subseteq Ids
  BY <1>5, <1>6, <1>7 DEF Live
<1>9. /\ todo'.pull = todo.pull \ {item} /\ todo'.push = {}
      /\ todo'.deleteRemote = todo.deleteRemote /\ todo'.deleteLocal = todo.deleteLocal
      /\ todo'.conflicts = todo.conflicts
  BY <1>1 DEF PlanType
<1>10. PullsApart
  BY <1>1, <1>2 DEF Applying
\* Nobody but j is at that path, and j, if it was there, was at it.
<1>11. /\ \A i \in Live(local) \ {j} : local[i].path # item.path
       /\ j \in Live(local) => j = item.id /\ local[j].path = item.path
  <2>1. CASE item.id = None
    BY <1>1, <1>4, <1>8, <1>10, <2>1 DEF PullsApart, Fresh, Live
  <2>2. CASE item.id # None
    <3>1. j = item.id /\ j \in Live(local) /\ local[j].path = item.path
      BY <1>1, <1>4, <1>5, <1>10, <2>2 DEF PullsApart, Live
    <3> QED BY <1>2, <1>1, <3>1 DEF Applying, OneEach
  <2> QED BY <2>1, <2>2
<1>12. OneEach'
  <2>1. OneEach
    BY <1>1, <1>2 DEF Applying
  <2> QED BY <1>6, <1>8, <1>11, <2>1 DEF OneEach
<1>13. PullsApart'
  <2>1. \A a, b \in todo'.pull : a.path = b.path => a = b
    BY <1>1, <1>9, <1>10 DEF PullsApart
  <2>2. \A a \in todo'.pull : a.path # item.path
    BY <1>1, <1>9, <1>10 DEF PullsApart
  <2>3. ASSUME NEW a \in todo'.pull
        PROVE  IF a.id = None THEN \A i \in Ids : local'[i] # None => local'[i].path # a.path
               ELSE local'[a.id] # None /\ local'[a.id].path = a.path
    <3>1. a \in todo.pull /\ a.id \in Ids \cup {None}
      BY <1>1, <1>9, TodoItems
    <3>2. CASE a.id = None
      BY <1>1, <1>6, <1>10, <2>2, <3>1, <3>2 DEF PullsApart
    <3>3. CASE a.id # None
      <4>1. local[a.id] # None /\ local[a.id].path = a.path
        BY <1>1, <1>10, <3>1, <3>3 DEF PullsApart
      <4>2. a.id # j
        BY <1>5, <1>11, <2>2, <3>1, <4>1 DEF Live
      <4> QED BY <1>6, <3>1, <3>3, <4>1, <4>2
    <3> QED BY <3>2, <3>3
  <2> QED BY <1>9, <2>1, <2>3 DEF PullsApart
<1>14. ASSUME NEW i \in Live(local) \ {j}, AsksNow(i) PROVE AsksNow(i)'
  <2>1. i \in Ids /\ local'[i] = local[i]
    BY <1>6, <1>8
  <2>2. ASSUME j \notin Live(local), SnapAt(snap, local[i].path) # None
        PROVE  SnapAt(snap, local[i].path).id # j
    <3>1. j \in Fresh
      BY <1>1, <1>4, <1>5, <1>10, <2>2 DEF PullsApart, Live
    <3>2. \E k \in 1 .. Len(snap) :
              snap[k] = SnapAt(snap, local[i].path) /\ snap[k] # None
      BY <2>2, SnapAtFound DEF QInv, TInv, TypeOK
    <3> QED BY <3>1, <3>2 DEF Fresh
  <2> QED BY <1>1, <1>8, <1>14, <2>1, <2>2, StillAsks
<1>15. ASSUME NEW i \in Live(local')
       PROVE  \/ Same(i)'
              \/ AsksNow(i)' /\ ToAsk(i)'
              \/ \E a \in todo'.push \cup todo'.pull \cup todo'.deleteLocal : a.id = i
  <2>1. CASE i = j
    BY <1>1, <1>6, <2>1 DEF Same
  <2>2. CASE i # j
    <3>1. i \in Live(local) \ {j} /\ local'[i] = local[i]
      BY <1>6, <1>8, <2>2
    <3>2. CASE Same(i)
      BY <1>1, <3>1, <3>2 DEF Same
    <3>3. CASE AsksNow(i) /\ ToAsk(i)
      BY <1>9, <1>14, <3>1, <3>3 DEF ToAsk
    <3>4. ASSUME NEW a \in todo.push \cup todo.pull \cup todo.deleteLocal, a.id = i
          PROVE  \E b \in todo'.push \cup todo'.pull \cup todo'.deleteLocal : b.id = i
      <4>1. a # item
        BY <1>4, <1>8, <2>2, <3>1, <3>4, NoneIsNoValue
      <4> QED BY <1>1, <1>9, <3>4, <4>1
    <3> QED BY <1>1, <1>2, <3>1, <3>2, <3>3, <3>4 DEF Applying
  <2> QED BY <2>1, <2>2
<1>16. \A a \in todo'.pull : texts'[a.path] \in {None, remote'[a.path]} /\ remote'[a.path] # None
  BY <1>1, <1>2, <1>9 DEF Applying
<1>17. ASSUME NEW d \in todo'.deleteRemote
       PROVE  /\ \A i \in Live(local') : local'[i].path # d.path
              /\ \A a \in todo'.pull : a.path # d.path
  BY <1>1, <1>2, <1>6, <1>8, <1>9 DEF Applying
<1>18. Applying'
  BY <1>12, <1>13, <1>15, <1>16, <1>17 DEF Applying
<1>19. Undisturbed'
  BY <1>1 DEF EParts, Undisturbed
<1> QED BY <1>1, <1>18, <1>19, ApplyFrame

\* A clean round pins of every record the revision of its file.
LEMMA FinalizeKeepsEParts ==
    ASSUME EParts, QInv, ~Answering, UNCHANGED prompt, FinalizeClean
    PROVE  EParts'
<1>1. /\ snap' = Entries(local, revs) /\ pc = "apply" /\ pc' = "idle" /\ readback = None
      /\ stage = "none" /\ stage' = "none" /\ asked' = asked /\ asked = {}
  BY DEF FinalizeClean, Applied, Leave, EParts, InRound, QInv, RTypeOK, prompt, Answering
<1>2. \A i \in Live(local) : Same(i) /\ local[i].path \in Paths /\ local[i].content # None
  BY NoneIsNoValue DEF FinalizeClean, Applied, EParts, Applying, ToAsk, QInv, TInv, TypeOK,
     Stores, Live, Record
<1>3. \A i \in Live(local) : revs[local[i].path] = local[i].content
  BY <1>1, <1>2, NoneIsNoValue DEF EParts, Undisturbed, Same
<1>4. NamesHash'
  <2>1. local \in Stores /\ revs \in Files
    BY DEF QInv, TInv, TypeOK
  <2>2. Len(snap') = Len(IdOrder)
    BY <1>1, <2>1, EntriesType
  <2>3. ASSUME NEW k \in 1 .. Len(IdOrder), snap'[k] # None PROVE snap'[k].rev = snap'[k].hash
    <3>1. /\ IdOrder[k] \in Live(local)
          /\ snap'[k] = [id |-> IdOrder[k], path |-> local[IdOrder[k]].path,
                         hash |-> local[IdOrder[k]].content,
                         rev |-> revs[local[IdOrder[k]].path]]
      BY <1>1, <2>3, EntriesPin DEF Live
    <3> QED BY <1>3, <3>1
  <2> QED BY <2>2, <2>3 DEF NamesHash
<1> QED BY <1>1, <1>4 DEF EParts, Undisturbed, InRound, Prompting, Applying, Resolving

\* A round stops to ask about all records that are not as their files.
LEMMA AskUserKeepsEParts ==
    ASSUME EParts, QInv, AskUser
    PROVE  EParts'
<1>1. /\ pc' = "idle" /\ pc = "apply" /\ UNCHANGED <<snap, local, remote, given, freed>>
      /\ stage = "none" /\ stage' = "none" /\ ~Answering
  BY DEF AskUser, FinalizeAsking, Applied, Leave, stored, QInv, RTypeOK, history
<1>2. OneEach /\ \A i \in Live(local) : Same(i) \/ AsksNow(i)
  BY <1>1 DEF AskUser, FinalizeAsking, Applied, EParts, Applying
<1>3. Prompting'
  BY <1>1, <1>2 DEF Prompting, OneEach, Kept, Same, LetGo, AsksNow, FileAt
<1>4. NamesHash'
  BY <1>1 DEF EParts, NamesHash
<1> QED BY <1>1, <1>3, <1>4 DEF EParts, Undisturbed, InRound, Applying, Resolving

\* A round that ends without having finished.
LEMMA FailKeepsEParts ==
    ASSUME EParts, QInv, ~Answering, UNCHANGED prompt,
           \/ Collide \/ Failure
           \/ \E item \in todo.push : PushRefused(item)
           \/ \E item \in todo.deleteRemote : DeleteRefused(item)
    PROVE  EParts'
<1>1. pc # "idle" /\ pc' = "idle" /\ snap' = snap
  BY DEF Collide, Failure, PushUnanswered, DeleteUnanswered, Fail, Reload, PushRefused,
     DeleteRefused, Pushing, Deleting, Throw, Leave, stored
<1>2. asked' = {} /\ stage' = "none"
  BY <1>1 DEF EParts, InRound, QInv, RTypeOK, prompt, Answering
<1> QED BY <1>1, <1>2, QuietKeepsEParts DEF EParts

\* The user, and other devices between rounds.
LEMMA BetweenKeepsEParts ==
    ASSUME EParts, QInv, UNCHANGED <<asked, target, conflict, stage, snap, pc>>,
           pc = "idle", asked = {}
    PROVE  EParts'
<1>1. stage' = "none" /\ asked' = {}
  BY DEF QInv, RTypeOK
<1> QED BY <1>1, QuietKeepsEParts DEF EParts
-----------------------------------------------------------------------------
(* Answers *)

\* The plan of an answer asks about every record that is not kept, so what it
\* pushes may be taken away.
LEMMA FindKeepsEParts ==
    ASSUME EParts, AInv, LInv, FindConflict
    PROVE  EParts'
<1> DEFINE plan == planSync(snap, mine, ListedEntries)
<1> USE DEF stored
<1>0. QInv /\ TInv /\ RemoteShared
  BY DEF AInv, QInv, LInv, LInvIn, KnownIn
<1>1. /\ todo' = plan /\ pc = "hash" /\ pc' = "apply" /\ toHash = {} /\ stage = "none"
      /\ UNCHANGED <<local, remote, snap, mine, texts, revs, readback, target, choice>>
      /\ UNCHANGED <<published, given, freed>> /\ readback = None
      /\ stage' \in {"write", "adopt"} /\ Answering /\ target \in asked
  BY <1>0 DEF FindConflict, QInv, RTypeOK, TInv, TypeOK, Prompted, history
<1>2. local = mine
  BY <1>1 DEF AInv, Frozen
<1>3. OneEach /\ \A i \in Live(local) : Kept(i) \/ AsksNow(i)
  BY <1>1 DEF EParts, Prompting
<1>4. Undisturbed
  BY DEF EParts
<1>5. /\ ListedEntries = [p \in Paths |-> FileAt(p)]
      /\ \A p \in Paths : hashes[p] = remote[p] /\ revs[p] = remote[p] /\ listing[p] = remote[p]
  BY <1>0, <1>1, <1>4, PlansWithFiles
<1>6. \A i \in Live(local) :
          /\ i \in Ids /\ local[i] # None /\ local[i].path \in Paths
          /\ local[i].content \in Contents /\ local[i].content # None
  BY <1>0, NoneIsNoValue DEF TInv, TypeOK, Live, Stores, Record
<1>7. \A i \in Live(local) : Kept(i) => Fits(i)
  BY <1>5, <1>6 DEF Kept, Same, LetGo, Fits
<1>8. ASSUME NEW i \in Live(local), AsksNow(i) PROVE ToAsk(i)'
  <2>1. i \in AskIds(snap, mine, ListedEntries)
    BY <1>2, <1>5, <1>6, <1>8 DEF AsksNow, AskIds
  <2> QED BY <1>1, <2>1, ConflictItems DEF ToAsk
<1>9. ASSUME NEW item \in plan.push PROVE MineVersion(item.id) \in Excused
  <2>1. item.id \in PushIds(snap, mine, ListedEntries)
    BY PushItems
  <2>2. item.id \in Live(local) /\ ~AsksNow(item.id)
    <3>1. item.id \in Live(local)
      BY <1>2, <2>1 DEF PushIds
    <3> QED
      BY <1>2, <1>5, <1>6, <2>1, <3>1, PushedIsNotAsked DEF PushIds, AsksNow
  <2> QED BY <1>0, <1>2, <1>3, <2>2, KeptIsExcused DEF MineVersion, Version
<1>10. /\ conflict'.remote = ListedEntries[conflict'.path] /\ conflict'.path \in Paths
       /\ \/ /\ target \in AskIds(snap, mine, ListedEntries)
             /\ conflict'.path = mine[target].path
          \/ /\ conflict'.path \in RemoteOnly(mine, ListedEntries)
             /\ AsksGone(SnapAt(snap, conflict'.path), ListedEntries[conflict'.path])
             /\ target = SnapAt(snap, conflict'.path).id
  BY <1>0, FoundConflict
<1>11. conflict'.remote = FileAt(conflict'.path)
  BY <1>5, <1>10
<1>12. conflict'.remote # None => conflict'.remote.rev = conflict'.remote.hash
  BY <1>11 DEF FileAt
<1>13. TextOf(conflict'.path) = remote[conflict'.path]
  BY <1>1, <1>4, <1>10 DEF Undisturbed, TextOf
<1>14. conflict'.remote = None <=> remote[conflict'.path] = None
  BY <1>0, <1>10, <1>11, NoneIsNotListed DEF FileAt, Listed, TInv, TypeOK, Files
<1>15. \/ mine[target] # None /\ mine[target].path = conflict'.path
       \/ /\ conflict'.remote # None
          /\ \E k \in Of(target) : snap[k].path = conflict'.path
  <2>1. CASE target \in AskIds(snap, mine, ListedEntries) /\ conflict'.path = mine[target].path
    BY <2>1 DEF AskIds, Live
  <2>2. CASE /\ conflict'.path \in RemoteOnly(mine, ListedEntries)
             /\ AsksGone(SnapAt(snap, conflict'.path), ListedEntries[conflict'.path])
             /\ target = SnapAt(snap, conflict'.path).id
    <3>1. SnapAt(snap, conflict'.path) # None /\ conflict'.remote # None
      BY <1>10, <2>2 DEF RemoteOnly, AsksGone
    <3>2. \E k \in 1 .. Len(snap) :
              snap[k] = SnapAt(snap, conflict'.path) /\ snap[k].path = conflict'.path
      BY <1>0, <3>1, SnapAtFound DEF TInv, TypeOK
    <3> QED BY <2>2, <3>1, <3>2 DEF Of
  <2> QED BY <1>10, <2>1, <2>2
<1> HIDE DEF plan
<1>16. AnswerGiven'
  BY <1>1, <1>5, <1>10, <1>13, <1>14, <1>15 DEF AnswerGiven, TextOf, Of
<1>17. \A i \in Live(local) : (Kept(i) => Kept(i)') /\ (Fits(i) => Fits(i)') /\ (AsksNow(i) => AsksNow(i)')
  BY <1>1 DEF Kept, Same, LetGo, Version, Fits, AsksNow, FileAt
<1>18. Resolving'
  <2>1. OneEach' /\ Live(local') = Live(local)
    BY <1>1, <1>3 DEF OneEach
  <2>2. ASSUME NEW i \in Live(local)
        PROVE  \/ Kept(i)' /\ Fits(i)'
               \/ (Kept(i)' \/ AsksNow(i)') /\ ToAsk(i)'
    <3>1. CASE Kept(i)
      BY <1>7, <1>17, <3>1
    <3>2. CASE AsksNow(i)
      BY <1>8, <1>17, <3>2
    <3> QED BY <1>3, <3>1, <3>2
  <2>3. \A item \in todo'.push : MineVersion(item.id)' \in Excused'
    BY <1>1, <1>9 DEF MineVersion, Excused
  <2> QED BY <1>1, <1>12, <1>16, <2>1, <2>2, <2>3 DEF Resolving
<1>19. NamesHash' /\ Undisturbed'
  BY <1>1, <1>5 DEF EParts, NamesHash, Undisturbed
<1> QED
  BY <1>1, <1>18, <1>19 DEF EParts, InRound, Prompting, Applying, Answering

\* A step that applies an answer.
LEMMA AnswerFrame ==
    ASSUME QInv, stage # "none", UNCHANGED <<pc, target>>, NamesHash', Undisturbed', Resolving'
    PROVE  EParts'
BY DEF QInv, RTypeOK, EParts, InRound, Prompting, Applying, Answering

\* A record the answer is not about, if the step leaves it and its file alone.
LEMMA RestStays ==
    ASSUME Resolving, stage # "none", NEW i \in Live(local) \ {target}, todo' = todo,
           local'[i] = local[i], remote'[local[i].path] = remote[local[i].path],
           revs'[local[i].path] = revs[local[i].path],
           given \subseteq given', freed \subseteq freed',
           AsksNow(i) => AsksNow(i)' \/ Kept(i)
    PROVE  \/ Kept(i)' /\ Fits(i)'
           \/ (Kept(i)' \/ AsksNow(i)') /\ ToAsk(i)'
<1>1. (Kept(i) => Kept(i)') /\ (Fits(i) => Fits(i)') /\ (ToAsk(i) => ToAsk(i)')
  BY StillKept DEF Fits, ToAsk
<1> QED BY <1>1 DEF Resolving

\* What the steps of an answer have in common.
LEMMA ApplyingAnswer ==
    ASSUME AInv, LInv, EParts, stage # "none"
    PROVE  /\ TInv /\ QInv /\ Answering /\ pc = "apply" /\ target \in Ids /\ Resolving /\ Undisturbed
           /\ stage \in {"write", "free", "pin", "adopt"} => local = mine
           /\ Live(local) \subseteq Ids
           /\ \A i \in Live(local) :
                 /\ local[i] # None /\ local[i].path \in Paths
                 /\ local[i].content \in Contents /\ local[i].content # None
<1>1. QInv /\ TInv
  BY DEF AInv, QInv
<1>2. Answering /\ pc = "apply" /\ target \in Ids
  BY <1>1 DEF QInv, RTypeOK, Answering
<1>3. Resolving /\ Undisturbed
  BY DEF EParts
<1>4. stage \in {"write", "free", "pin", "adopt"} => local = mine
  BY DEF LInv, LInvIn, OpenIn
<1>5. Live(local) \subseteq Ids /\ \A i \in Live(local) :
          /\ local[i] # None /\ local[i].path \in Paths
          /\ local[i].content \in Contents /\ local[i].content # None
  BY <1>1, NoneIsNoValue DEF TInv, TypeOK, Live, Stores, Record
<1> QED BY <1>1, <1>2, <1>3, <1>4, <1>5

LEMMA KeepWriteKeepsEParts ==
    ASSUME AInv, LInv, EParts, KeepWrite
    PROVE  EParts'
<1> DEFINE p == mine[target].path
           c == mine[target].content
<1> USE DEF stored, history
<1>1. /\ stage = "write" /\ stage' = "free" /\ readback = None /\ mine[target] # None
      /\ UNCHANGED <<local, snap, pc, mine, todo, target, choice, conflict, texts, given, freed>>
      /\ remote' = [remote EXCEPT ![p] = c] /\ published \subseteq published'
      /\ \/ revs' = [revs EXCEPT ![p] = c] /\ readback' = readback
         \/ readback' = p /\ revs' = revs
  BY DEF KeepWrite, KeepStep, KeepFrame, Write
<1>2. /\ TInv /\ QInv /\ target \in Ids /\ Resolving /\ Undisturbed /\ pc = "apply"
      /\ local = mine /\ Live(local) \subseteq Ids
      /\ \A i \in Live(local) : local[i].path \in Paths /\ local[i].content # None
  BY <1>1, ApplyingAnswer
<1>3. target \in Live(local) /\ p \in Paths /\ p = local[target].path /\ c = local[target].content
      /\ c # None /\ choice = "local"
  BY <1>1, <1>2 DEF Live, QInv, Prompted
<1>4. /\ \A q \in Paths : remote'[q] = IF q = p THEN c ELSE remote[q]
      /\ \A q \in Paths \ {p} : revs'[q] = revs[q]
      /\ readback' = None => revs'[p] = c
      /\ readback' \in {None, p}
  BY <1>1, <1>2, <1>3, NoneIsNoValue DEF TInv, TypeOK, Files
<1>5. NamesHash'
  BY <1>1 DEF EParts, NamesHash
<1>6. Undisturbed'
  BY <1>1, <1>2, <1>3, <1>4, NoneIsNoValue DEF Undisturbed
<1>7. ASSUME NEW i \in Live(local) \ {target}
      PROVE  \/ Kept(i)' /\ Fits(i)'
             \/ (Kept(i)' \/ AsksNow(i)') /\ ToAsk(i)'
  <2>1. local[i].path # p /\ local[i].path \in Paths
    BY <1>1, <1>2, <1>3 DEF Resolving, OneEach
  <2>2. remote'[local[i].path] = remote[local[i].path] /\ revs'[local[i].path] = revs[local[i].path]
    BY <1>4, <2>1
  <2>3. AsksNow(i) => AsksNow(i)'
    BY <1>1, <2>2 DEF AsksNow, FileAt
  <2> QED BY <1>1, <1>2, <2>2, <2>3, RestStays
<1>8. Same(target)' /\ Kept(target)' /\ (readback' = None => Fits(target)')
  BY <1>1, <1>3, <1>4 DEF Same, Kept, Fits
<1>9. AnswerGiven'
  BY <1>1, <1>8 DEF AnswerGiven
<1>10. Resolving'
  BY <1>1, <1>2, <1>3, <1>4, <1>7, <1>9 DEF Resolving, OneEach, MineVersion, Excused
<1> QED BY <1>1, <1>2, <1>5, <1>6, <1>10, AnswerFrame

LEMMA KeepReadBackKeepsEParts ==
    ASSUME AInv, LInv, EParts, KeepReadBack
    PROVE  EParts'
<1> USE DEF stored
<1>1. /\ UNCHANGED <<local, remote, snap, pc, mine, todo, texts, published>>
      /\ UNCHANGED prompt /\ Answering /\ readback # None /\ readback' = None
      /\ revs' = [revs EXCEPT ![readback] = IF remote[readback] = None THEN @ ELSE remote[readback]]
  BY DEF KeepReadBack, ReadBack
<1>2. stage # "none" /\ UNCHANGED <<stage, target, choice, conflict, given, freed>>
  BY <1>1 DEF AInv, QInv, Prompted, TInv, TypeOK, prompt, history
<1>3. /\ TInv /\ QInv /\ target \in Ids /\ Resolving /\ Undisturbed /\ pc = "apply"
      /\ stage = "free" => local = mine
      /\ \A i \in Live(local) : local[i].path \in Paths /\ local[i].content # None
  BY <1>2, ApplyingAnswer
<1>4. stage = "free" /\ readback = mine[target].path /\ Same(target) /\ local = mine
      /\ target \in Live(local) /\ revs \in Files
  BY <1>1, <1>2, <1>3 DEF Resolving, AnswerGiven, QInv, Prompted, Live, TInv, TypeOK
<1>5. \A q \in Paths : revs'[q] = IF q = readback THEN remote[q] ELSE revs[q]
  BY <1>1, <1>3, <1>4 DEF Same, Files
<1>6. NamesHash'
  BY <1>1 DEF EParts, NamesHash
<1>7. Undisturbed'
  BY <1>1, <1>3, <1>5 DEF Undisturbed
<1>8. ASSUME NEW i \in Live(local) \ {target}
      PROVE  \/ Kept(i)' /\ Fits(i)'
             \/ (Kept(i)' \/ AsksNow(i)') /\ ToAsk(i)'
  <2>1. local[i].path # readback /\ local[i].path \in Paths
    BY <1>2, <1>3, <1>4 DEF Resolving, OneEach
  <2>2. revs'[local[i].path] = revs[local[i].path]
    BY <1>5, <2>1
  <2>3. AsksNow(i) => AsksNow(i)'
    BY <1>1 DEF AsksNow, FileAt
  <2> QED BY <1>1, <1>2, <1>3, <2>2, <2>3, RestStays
<1>9. Same(target)' /\ Kept(target)' /\ Fits(target)'
  BY <1>1, <1>2, <1>3, <1>4, <1>5 DEF Same, Kept, Fits
<1>10. AnswerGiven'
  BY <1>2, <1>4, <1>9 DEF AnswerGiven
<1>11. Resolving'
  BY <1>1, <1>2, <1>3, <1>8, <1>10 DEF Resolving, OneEach, MineVersion, Excused
<1> QED BY <1>1, <1>2, <1>3, <1>6, <1>7, <1>11, AnswerFrame

\* Whoever lives where the file is deleted has been let go.
LEMMA KeepFreeKeepsEParts ==
    ASSUME AInv, LInv, EParts, KeepFree
    PROVE  EParts'
<1> USE DEF stored
<1>1. /\ stage = "free" /\ stage' = "pin" /\ readback = None /\ freed \subseteq freed'
      /\ UNCHANGED <<local, snap, pc, mine, todo, target, choice, conflict, texts, revs, readback,
                     published, given>>
  BY DEF KeepFree, KeepStep, KeepFrame
<1>2. /\ TInv /\ QInv /\ target \in Ids /\ Resolving /\ Undisturbed /\ pc = "apply"
      /\ local = mine /\ Live(local) \subseteq Ids
      /\ \A i \in Live(local) : local[i].path \in Paths /\ local[i].content # None
  BY <1>1, ApplyingAnswer
<1>3. /\ target \in Live(local) /\ Same(target) /\ Fits(target)
      /\ snap \in Snapshots
  BY <1>1, <1>2 DEF Live, QInv, Prompted, Resolving, AnswerGiven, TInv, TypeOK
<1> DEFINE p == Before(target).path
<1>4. /\ ~Moved(target) => remote' = remote
      /\ Moved(target) =>
            /\ remote' = [remote EXCEPT ![p] = None] /\ p # local[target].path
            /\ \A i \in Live(local) : local[i].path = p => p \in freed'
  <2>1. ASSUME NEW i \in Live(local), local[i].path = p PROVE At(local, p) # {}
    BY <2>1 DEF At
  <2> QED BY <1>2, <2>1 DEF KeepFree, Moved
<1>5. \A q \in Paths : remote'[q] = IF Moved(target) /\ q = p THEN None ELSE remote[q]
  BY <1>2, <1>4 DEF TInv, TypeOK, Files
<1>6. NamesHash'
  BY <1>1 DEF EParts, NamesHash
<1>7. Undisturbed'
  BY <1>1, <1>2, <1>5 DEF Undisturbed
<1>8. ASSUME NEW i \in Live(local), Moved(target), local[i].path = p PROVE LetGo(i)'
  BY <1>1, <1>2, <1>4, <1>5, <1>8 DEF LetGo
<1>9. ASSUME NEW i \in Live(local) \ {target}
      PROVE  \/ Kept(i)' /\ Fits(i)'
             \/ (Kept(i)' \/ AsksNow(i)') /\ ToAsk(i)'
  <2>1. CASE Moved(target) /\ local[i].path = p
    <3>1. Kept(i)'
      BY <1>8, <2>1 DEF Kept
    <3>2. (Fits(i) => Fits(i)') /\ (ToAsk(i) => ToAsk(i)')
      BY <1>1 DEF Fits, ToAsk
    <3> QED BY <1>1, <1>2, <3>1, <3>2 DEF Resolving
  <2>2. CASE ~(Moved(target) /\ local[i].path = p)
    <3>1. remote'[local[i].path] = remote[local[i].path]
      BY <1>2, <1>5, <2>2
    <3>2. AsksNow(i) => AsksNow(i)'
      BY <1>1, <3>1 DEF AsksNow, FileAt
    <3> QED BY <1>1, <1>2, <3>1, <3>2, RestStays
  <2> QED BY <2>1, <2>2
<1>10. Same(target)' /\ Kept(target)' /\ Fits(target)'
  <2>1. remote'[local[target].path] = remote[local[target].path]
    BY <1>2, <1>3, <1>4, <1>5
  <2> QED BY <1>1, <1>3, <2>1 DEF Same, Kept, Fits
\* The record has one entry, so that one was the first.
<1>11. ASSUME NEW k \in Of(target), snap[k].path # mine[target].path
       PROVE  Moved(target) /\ snap[k].path = p
  <2>1. Slots(target) # {} /\ Slots(target) \in SUBSET Nat
    BY <1>3 DEF Of, Slots, Snapshots
  <2>2. PICK m \in Slots(target) : \A j \in Slots(target) : m <= j
    BY <2>1, LeastNatural
  <2>3. \E n \in Slots(target) : Before(target) = snap[n]
    BY <2>1, <2>2 DEF Before
  <2>4. Before(target) = snap[k]
    BY <2>3 DEF AInv, OneEntryPerId, Of, Slots
  <2> QED BY <1>11, <2>4 DEF Moved, Of
<1>12. AnswerGiven'
  <2>1. \A k \in Of(target)' : snap'[k].path # mine'[target'].path =>
            \A i \in Live(local') : local'[i].path = snap'[k].path => LetGo(i)'
    BY <1>1, <1>8, <1>11 DEF Of
  <2> QED BY <1>1, <1>10, <2>1 DEF AnswerGiven
<1>13. \A item \in todo'.push : MineVersion(item.id)' \in Excused'
  BY <1>1, <1>2 DEF Resolving, MineVersion, Excused
<1>14. Resolving'
  BY <1>1, <1>2, <1>9, <1>12, <1>13 DEF Resolving, OneEach
<1> QED BY <1>1, <1>2, <1>6, <1>7, <1>14, AnswerFrame

LEMMA PinKeepsNames ==
    ASSUME NamesHash, snap \in Snapshots, NEW i,
           \/ snap' = PinEntry(i, <<>>)
           \/ \E e \in SnapEntry : snap' = PinEntry(i, <<e>>) /\ e.rev \in {None, e.hash}
    PROVE  NamesHash'
<1> DEFINE s == EntriesBut(i)
<1>1. s \in Snapshots /\ Len(s) \in Nat
  BY EntriesButKeeps DEF Snapshots
<1>2. \A k \in 1 .. Len(s) : s[k] # None => s[k].rev \in {None, s[k].hash}
  BY EntriesButKeeps DEF NamesHash
<1>3. CASE snap' = PinEntry(i, <<>>)
  BY <1>2, <1>3, DropEntryEnds DEF NamesHash
<1>4. ASSUME NEW e \in SnapEntry, snap' = PinEntry(i, <<e>>), e.rev \in {None, e.hash}
      PROVE  NamesHash'
  <2>1. /\ Len(snap') = Len(s) + 1 /\ snap'[Len(s) + 1] = e
        /\ \A k \in 1 .. Len(s) : snap'[k] = s[k]
    BY <1>4, PinEntryEnds
  <2> HIDE DEF s
  <2>2. \A k \in 1 .. Len(snap') : k \in 1 .. Len(s) \/ k = Len(s) + 1
    BY <1>1, <2>1
  <2> QED BY <1>2, <1>4, <2>1, <2>2 DEF NamesHash
<1> QED BY <1>3, <1>4

\* A question about another record is asked after the pin, too, or it was one of
\* a path whose first entry was that of the record pinned.
LEMMA PinStillAsks ==
    ASSUME snap \in Snapshots, NEW i, NEW j, AsksNow(i),
           UNCHANGED <<local, remote>>,
           \/ snap' = PinEntry(j, <<>>)
           \/ \E e \in SnapEntry : snap' = PinEntry(j, <<e>>) /\ e.path # local[i].path
    PROVE  \/ AsksNow(i)'
           \/ /\ SnapAt(snap, local[i].path) # None
              /\ SnapAt(snap, local[i].path).id = j
<1> SUFFICES ASSUME SnapAt(snap, local[i].path) # None => SnapAt(snap, local[i].path).id # j
             PROVE  AsksNow(i)'
  OBVIOUS
<1>1. SnapAt(snap', local[i].path) = SnapAt(snap, local[i].path)
  BY FirstStays
<1> QED BY <1>1 DEF AsksNow, FileAt

\* An entry of a path that is found by its id.
LEMMA FoundIsOf ==
    ASSUME snap \in Snapshots, NEW p, NEW j, SnapAt(snap, p) # None, SnapAt(snap, p).id = j
    PROVE  \E k \in Of(j) : snap[k].path = p
<1>1. \E k \in 1 .. Len(snap) : snap[k] = SnapAt(snap, p) /\ snap[k].path = p
  BY SnapAtFound
<1> QED BY <1>1 DEF Of

LEMMA KeepPinKeepsEParts ==
    ASSUME AInv, LInv, EParts, KeepPin
    PROVE  EParts'
<1> USE DEF stored, history
<1> DEFINE e == [id |-> target, path |-> mine[target].path,
                 hash |-> mine[target].content, rev |-> revs[mine[target].path]]
<1>1. /\ stage = "pin" /\ stage' = "count" /\ readback = None /\ snap' = PinEntry(target, <<e>>)
      /\ UNCHANGED <<local, remote, pc, mine, todo, target, choice, conflict, texts, revs, readback>>
      /\ UNCHANGED <<published, given, freed>>
  BY DEF KeepPin, KeepStep, KeepFrame
<1>2. /\ TInv /\ QInv /\ target \in Ids /\ Resolving /\ Undisturbed /\ pc = "apply"
      /\ local = mine /\ Live(local) \subseteq Ids
      /\ \A i \in Live(local) : local[i].path \in Paths /\ local[i].content # None
  BY <1>1, ApplyingAnswer
<1>3. target \in Live(local) /\ Kept(target) /\ Fits(target) /\ snap \in Snapshots
  BY <1>1, <1>2 DEF Live, QInv, Prompted, Resolving, AnswerGiven, TInv, TypeOK
<1>4. e \in SnapEntry
  BY <1>2, <1>3 DEF SnapEntry, Record, TInv, TypeOK, Files, Stores, Live
<1>5. e.rev \in {None, e.hash} /\ e.path = local[target].path
  BY <1>2, <1>3 DEF Fits
<1> HIDE DEF e
<1>6. NamesHash'
  BY <1>1, <1>3, <1>4, <1>5, PinKeepsNames DEF EParts
<1>7. Undisturbed'
  BY <1>1, <1>2 DEF Undisturbed
<1>8. ASSUME NEW i \in Live(local) \ {target}
      PROVE  \/ Kept(i)' /\ Fits(i)'
             \/ (Kept(i)' \/ AsksNow(i)') /\ ToAsk(i)'
  <2>1. e.path # local[i].path
    BY <1>1, <1>2, <1>3, <1>5 DEF Resolving, OneEach
  <2>2. ASSUME AsksNow(i) PROVE AsksNow(i)' \/ Kept(i)
    <3>1. \/ AsksNow(i)'
          \/ SnapAt(snap, local[i].path) # None /\ SnapAt(snap, local[i].path).id = target
      BY <1>1, <1>3, <1>4, <2>1, <2>2, PinStillAsks
    <3>2. ASSUME SnapAt(snap, local[i].path) # None, SnapAt(snap, local[i].path).id = target
          PROVE  Kept(i)
      <4>1. PICK k \in Of(target) : snap[k].path = local[i].path
        BY <1>3, <3>2, FoundIsOf
      <4> QED BY <1>1, <1>2, <1>5, <2>1, <4>1 DEF Resolving, AnswerGiven, Kept
    <3> QED BY <3>1, <3>2
  <2> QED BY <1>1, <1>2, <2>2, RestStays
<1>9. Kept(target)' /\ Fits(target)'
  BY <1>1, <1>3 DEF Kept, Same, LetGo, Version, Fits
<1>10. AnswerGiven'
  BY <1>1, <1>9 DEF AnswerGiven
<1>11. Resolving'
  BY <1>1, <1>2, <1>8, <1>10 DEF Resolving, OneEach, MineVersion, Excused
<1> QED BY <1>1, <1>2, <1>6, <1>7, <1>11, AnswerFrame

\* Theirs: a record at the file's path again is no vanished one, and no record
\* but it can be at the path of its entry.
LEMMA TakeFileKeepsEParts ==
    ASSUME AInv, LInv, EParts, TakeFile
    PROVE  EParts'
<1> USE DEF stored, history
<1> DEFINE p == conflict.path
<1>1. /\ stage = "adopt" /\ stage' = "pinTheirs" /\ readback = None
      /\ conflict.remote # None /\ TextOf(p) # None
      /\ local' = [local EXCEPT ![target] = [path |-> p, content |-> TextOf(p)]]
      /\ UNCHANGED <<snap, remote, pc, mine, todo, target, choice, conflict, texts, revs, readback>>
      /\ UNCHANGED <<published, freed>> /\ Give
  BY DEF TakeFile, KeepStep, KeepFrame, Give
<1>2. /\ TInv /\ QInv /\ target \in Ids /\ Resolving /\ Undisturbed /\ pc = "apply"
      /\ local = mine /\ Live(local) \subseteq Ids
      /\ \A i \in Live(local) : local[i].path \in Paths /\ local[i].content # None
  BY <1>1, ApplyingAnswer
<1>3. /\ TextOf(p) = remote[p] /\ remote[p] # None /\ revs[p] = remote[p] /\ p \in Paths
      /\ given \subseteq given' /\ local \in Stores /\ snap \in Snapshots /\ remote \in Files
  BY <1>1, <1>2, GiveTyped, ConflictsTyped DEF Resolving, AnswerGiven, QInv, RTypeOK, TInv, TypeOK
<1>4. /\ local'[target] = [path |-> p, content |-> remote[p]]
      /\ \A i \in Ids \ {target} : local'[i] = local[i]
  BY <1>1, <1>2, <1>3 DEF Stores
<1>5. [path |-> p, content |-> remote[p]] # None
  BY <1>3, NoneIsNoAnswer DEF Record, Files
<1>6. Live(local') = Live(local) \cup {target}
  BY <1>2, <1>4, <1>5 DEF Live
<1>7. \A i \in Live(local) \ {target} : local[i].path # p
  BY <1>1, <1>2 DEF AInv, AskedAbout, At
<1>8. OneEach'
  <2>1. OneEach
    BY <1>1, <1>2 DEF Resolving
  <2> QED BY <1>2, <1>4, <1>6, <1>7, <2>1 DEF OneEach
<1>9. NamesHash'
  BY <1>1 DEF EParts, NamesHash
<1>10. Undisturbed'
  BY <1>1, <1>2 DEF Undisturbed
<1>11. ASSUME NEW i \in Live(local) \ {target}
       PROVE  \/ Kept(i)' /\ Fits(i)'
              \/ (Kept(i)' \/ AsksNow(i)') /\ ToAsk(i)'
  <2>1. local'[i] = local[i]
    BY <1>2, <1>4
  <2>2. ASSUME target \notin Live(local), SnapAt(snap, local[i].path) # None
        PROVE  SnapAt(snap, local[i].path).id # target
    <3>1. PICK k \in Of(target) : snap[k].path = p
      BY <1>1, <1>2, <2>2 DEF Resolving, AnswerGiven, Live
    <3>2. \A m \in Of(target) : snap[m] = snap[k]
      BY <3>1 DEF AInv, OneEntryPerId, Of
    <3> QED BY <1>3, <1>7, <2>2, <3>1, <3>2, FoundIsOf
  <2>3. AsksNow(i) => AsksNow(i)'
    BY <1>1, <1>6, <2>1, <2>2, StillAsks
  <2> QED BY <1>1, <1>2, <1>3, <2>1, <2>3, RestStays
<1>12. Same(target)' /\ Kept(target)' /\ Fits(target)' /\ local'[target].path = p
  BY <1>1, <1>3, <1>4 DEF Same, Kept, Fits
<1>13. AnswerGiven'
  BY <1>1, <1>12 DEF AnswerGiven
<1>14. \A item \in todo'.push : MineVersion(item.id)' \in Excused'
  BY <1>1, <1>2, <1>3 DEF Resolving, MineVersion, Excused
<1>15. Resolving'
  BY <1>1, <1>2, <1>6, <1>8, <1>11, <1>13, <1>14 DEF Resolving
<1> QED BY <1>1, <1>2, <1>9, <1>10, <1>15, AnswerFrame

\* While the record is there nobody is asked about a path for its having vanished.
LEMMA OwnerIsThere ==
    ASSUME NEW i, AsksNow(i), SnapAt(snap, local[i].path) # None,
           SnapAt(snap, local[i].path).id \in Live(local) \ {i}
    PROVE  FALSE
BY DEF AsksNow, Asks

LEMMA PinTheirsKeepsEParts ==
    ASSUME AInv, LInv, EParts, PinTheirs
    PROVE  EParts'
<1> USE DEF stored, history
<1> DEFINE e == [id |-> target, path |-> conflict.path, hash |-> conflict.remote.hash,
                 rev |-> conflict.remote.rev]
<1>1. /\ stage = "pinTheirs" /\ stage' = "count" /\ readback = None
      /\ snap' = PinEntry(target, <<e>>)
      /\ UNCHANGED <<local, remote, pc, mine, todo, target, choice, conflict, texts, revs, readback>>
      /\ UNCHANGED <<published, given, freed>>
  BY DEF PinTheirs, KeepStep, KeepFrame
<1>2. /\ TInv /\ QInv /\ target \in Ids /\ Resolving /\ Undisturbed /\ pc = "apply"
      /\ Live(local) \subseteq Ids
      /\ \A i \in Live(local) : local[i].path \in Paths /\ local[i].content # None
  BY <1>1, ApplyingAnswer
<1>3. /\ target \in Live(local) /\ Kept(target) /\ Fits(target) /\ snap \in Snapshots
      /\ local[target].path = conflict.path /\ conflict.remote # None
  BY <1>1, <1>2 DEF Live, QInv, Prompted, Resolving, AnswerGiven, TInv, TypeOK, AInv, Answered, Taken
<1>4. e \in SnapEntry
  BY <1>1, <1>2, <1>3, ConflictsTyped DEF QInv, RTypeOK, TInv, TypeOK, SnapEntry, Listed
<1>5. e.rev \in {None, e.hash} /\ e.path = local[target].path
  BY <1>1, <1>2, <1>3 DEF Resolving
<1> HIDE DEF e
<1>6. NamesHash'
  BY <1>1, <1>3, <1>4, <1>5, PinKeepsNames DEF EParts
<1>7. Undisturbed'
  BY <1>1, <1>2 DEF Undisturbed
<1>8. ASSUME NEW i \in Live(local) \ {target}
      PROVE  \/ Kept(i)' /\ Fits(i)'
             \/ (Kept(i)' \/ AsksNow(i)') /\ ToAsk(i)'
  <2>1. e.path # local[i].path
    BY <1>1, <1>2, <1>3, <1>5 DEF Resolving, OneEach
  <2>2. ASSUME AsksNow(i) PROVE AsksNow(i)'
    BY <1>1, <1>3, <1>4, <2>1, <2>2, PinStillAsks, OwnerIsThere
  <2> QED BY <1>1, <1>2, <2>2, RestStays
<1>9. Kept(target)' /\ Fits(target)'
  BY <1>1, <1>3 DEF Kept, Same, LetGo, Version, Fits
<1>10. AnswerGiven'
  BY <1>1, <1>9 DEF AnswerGiven
<1>11. Resolving'
  BY <1>1, <1>2, <1>8, <1>10 DEF Resolving, OneEach, MineVersion, Excused
<1> QED BY <1>1, <1>2, <1>6, <1>7, <1>11, AnswerFrame

\* A deletion accepted lets the version go.
LEMMA TakeDeletionKeepsEParts ==
    ASSUME AInv, LInv, EParts, TakeDeletion
    PROVE  EParts'
<1> USE DEF stored, history
<1>1. /\ stage = "adopt" /\ stage' = "count" /\ readback = None
      /\ conflict.remote = None \/ TextOf(conflict.path) = None
      /\ snap' = PinEntry(target, <<>>)
      /\ UNCHANGED <<local, remote, pc, mine, todo, target, choice, conflict, texts, revs, readback>>
      /\ UNCHANGED <<published, freed>> /\ Give
  BY DEF TakeDeletion, KeepStep, KeepFrame, Give
<1>2. /\ TInv /\ QInv /\ target \in Ids /\ Resolving /\ Undisturbed /\ pc = "apply"
      /\ local = mine /\ Live(local) \subseteq Ids
      /\ \A i \in Live(local) : local[i].path \in Paths /\ local[i].content # None
  BY <1>1, ApplyingAnswer
<1>3. AnswerGiven /\ given \subseteq given' /\ snap \in Snapshots
  BY <1>1, <1>2, GiveTyped DEF Resolving, TInv, TypeOK
<1>4. /\ conflict.remote = None /\ remote[conflict.path] = None /\ revs[conflict.path] = None
      /\ mine[target] # None /\ mine[target].path = conflict.path
  BY <1>1, <1>3 DEF AnswerGiven
<1>5. target \in Live(local)
  BY <1>2, <1>4 DEF Live
<1>6. NamesHash'
  BY <1>1, <1>3, PinKeepsNames DEF EParts
<1>7. Undisturbed'
  BY <1>1, <1>2 DEF Undisturbed
<1>8. ASSUME NEW i \in Live(local) \ {target}
      PROVE  \/ Kept(i)' /\ Fits(i)'
             \/ (Kept(i)' \/ AsksNow(i)') /\ ToAsk(i)'
  <2>1. ASSUME AsksNow(i) PROVE AsksNow(i)'
    BY <1>1, <1>3, <1>5, <2>1, PinStillAsks, OwnerIsThere
  <2> QED BY <1>1, <1>2, <1>3, <2>1, RestStays
<1>9. Kept(target)' /\ Fits(target)'
  <2>1. Version(target)' \in given'
    BY <1>1, <1>2, <1>4 DEF Give, Version
  <2> QED BY <1>1, <1>2, <1>4, <2>1 DEF Kept, LetGo, Fits
<1>10. AnswerGiven'
  BY <1>1, <1>9 DEF AnswerGiven
<1>11. \A item \in todo'.push : MineVersion(item.id)' \in Excused'
  BY <1>1, <1>2, <1>3 DEF Resolving, MineVersion, Excused
<1>12. Resolving'
  BY <1>1, <1>2, <1>8, <1>10, <1>11 DEF Resolving, OneEach
<1> QED BY <1>1, <1>2, <1>6, <1>7, <1>12, AnswerFrame

\* What an answered resolution leaves: the record of the answer is kept.
LEMMA AnswerLeaves ==
    ASSUME AInv, LInv, EParts, KeepStep("count")
    PROVE  /\ OneEach
           /\ \A i \in Live(local) \ {target} :
                 \/ Kept(i) /\ Fits(i)
                 \/ (Kept(i) \/ AsksNow(i)) /\ ToAsk(i)
           /\ target \in Live(local) => Kept(target) /\ Fits(target)
<1>1. Resolving /\ stage = "count" /\ readback = None
  BY ApplyingAnswer DEF KeepStep
<1> QED BY <1>1 DEF Resolving, AnswerGiven, Live

\* The next prompt is shown.
LEMMA ResolvedOneKeepsEParts ==
    ASSUME AInv, LInv, EParts, ResolvedOne
    PROVE  EParts'
<1>1. /\ UNCHANGED <<snap, local, remote, given, freed>> /\ pc' = "idle" /\ stage' = "none"
      /\ asked' = asked \ {target} /\ KeepStep("count")
  BY DEF ResolvedOne, Return, Leave, stored
<1>2. OneEach /\ \A i \in Live(local) : Kept(i) \/ AsksNow(i)
  BY <1>1, AnswerLeaves
<1>3. Prompting'
  BY <1>1, <1>2 DEF Prompting, OneEach, Kept, Same, LetGo, Version, AsksNow, FileAt
<1>4. NamesHash'
  BY <1>1 DEF EParts, NamesHash
<1> QED BY <1>1, <1>3, <1>4 DEF EParts, Undisturbed, InRound, Applying, Resolving

\* After the last one nothing is left to ask about, so every record is pinned
\* with the revision of its content or with none.
LEMMA ResolvedLastKeepsEParts ==
    ASSUME AInv, LInv, EParts, ResolvedLast
    PROVE  EParts'
<1>1. /\ UNCHANGED <<local, remote, given, freed>> /\ pc' = "idle" /\ stage' = "none"
      /\ snap' = Entries(local, revs) /\ todo.conflicts = {conflict}
      /\ asked' = asked \ {target} /\ KeepStep("count")
  BY DEF ResolvedLast, Return, Leave
<1>2. QInv /\ TInv /\ conflict.id = target
  BY <1>1 DEF AInv, QInv, Prompted, KeepStep
<1>3. \A i \in Live(local) \ {target} : ~ToAsk(i)
  BY <1>1, <1>2 DEF ToAsk
<1>4. OneEach /\ \A i \in Live(local) : Kept(i) /\ Fits(i)
  BY <1>1, <1>3, AnswerLeaves
<1>5. Prompting'
  BY <1>1, <1>4 DEF Prompting, OneEach, Kept, Same, LetGo, Version
<1>6. NamesHash'
  <2>1. local \in Stores /\ revs \in Files
    BY <1>2 DEF TInv, TypeOK
  <2>2. Len(snap') = Len(IdOrder)
    BY <1>1, <2>1, EntriesType
  <2>3. ASSUME NEW k \in 1 .. Len(IdOrder), snap'[k] # None
        PROVE  snap'[k].rev \in {None, snap'[k].hash}
    <3>1. /\ IdOrder[k] \in Live(local)
          /\ snap'[k] = [id |-> IdOrder[k], path |-> local[IdOrder[k]].path,
                         hash |-> local[IdOrder[k]].content,
                         rev |-> revs[local[IdOrder[k]].path]]
      BY <1>1, <2>3, EntriesPin DEF Live
    <3> QED BY <1>4, <3>1 DEF Fits
  <2> QED BY <2>2, <2>3 DEF NamesHash
<1> QED BY <1>1, <1>5, <1>6 DEF EParts, Undisturbed, InRound, Applying, Resolving

\* A resolution that throws, or a prompt put off, leaves nothing to keep.
LEMMA ThrowKeepsEParts ==
    ASSUME EParts, QInv,
           \/ Later \/ ResolveFail
           \/ NoConflict \/ KeepVanished \/ KeepRefused \/ KeepFreeRefused
    PROVE  EParts'
<1>1. pc' = "idle" /\ snap' = snap /\ asked' = {} /\ stage' = "none"
  <2>1. CASE Later
    <3>1. pc = "idle" /\ UNCHANGED <<pc, snap, stage>> /\ asked' = {}
      BY <2>1 DEF Later, vars, stored, round
    <3> QED BY <3>1 DEF QInv, RTypeOK
  <2>2. CASE ~Later
    BY <2>2 DEF ResolveFail, NoConflict, KeepVanished, KeepRefused, KeepFreeRefused,
       ResolveThrow, Return, Leave, stored
  <2> QED BY <2>1, <2>2
<1> QED BY <1>1, QuietKeepsEParts DEF EParts
-----------------------------------------------------------------------------
(* All steps *)

\* A step of a round.
LEMMA RoundsKeepEParts ==
    ASSUME AInv, LInv, EParts, Rounds \/ RoundOnly(Failure)
    PROVE  EParts'
<1>1. QInv /\ TInv
  BY DEF AInv, QInv
<1>2. CASE AskUser
  BY <1>1, <1>2, AskUserKeepsEParts
<1>3. CASE RoundOnly((asked = {} /\ Capture) \/ Apply \/ FinalizeClean \/ Failure)
  <2>1. ~Answering /\ UNCHANGED prompt /\ stage = "none" /\ SInvIn(Known)
    BY <1>1, <1>3 DEF RoundOnly, QInv, RTypeOK, LInv, LInvIn
  <2>2. CASE asked = {} /\ Capture
    <3>1. CASE Plan
      BY <1>1, <2>1, <3>1, PlanKeepsEParts
    <3>2. CASE Collide
      BY <1>1, <2>1, <3>2, FailKeepsEParts
    <3>3. CASE Collect \/ List \/ \E p \in Paths : HashFile(p)
      <4>1. stage' = "none" /\ asked' = asked /\ UNCHANGED history
        BY <2>1 DEF prompt
      <4> QED BY <1>1, <2>2, <3>3, <4>1, LookKeepsEParts
    <3> QED BY <2>2, <3>1, <3>2, <3>3 DEF Capture
  <2>3. CASE Apply
    BY <1>1, <2>1, <2>3, PushKeepsEParts, FailKeepsEParts, ReadBackKeepsEParts, PullKeepsEParts,
       DeleteRemoteKeepsEParts, DeleteLocalKeepsEParts DEF Apply
  <2>4. CASE FinalizeClean
    BY <1>1, <2>1, <2>4, FinalizeKeepsEParts
  <2>5. CASE Failure
    BY <1>1, <2>1, <2>5, FailKeepsEParts
  <2> QED BY <1>3, <2>2, <2>3, <2>4, <2>5 DEF RoundOnly
<1> QED BY <1>2, <1>3 DEF Rounds, RoundOnly

\* A step of an answer.
LEMMA ResolveStepKeepsEParts ==
    ASSUME AInv, LInv, EParts,
           ResolveStep \/ \E i \in Ids, side \in {"local", "remote"} : Resolve(i, side)
    PROVE  EParts'
<1>1. QInv /\ TInv
  BY DEF AInv, QInv
<1>2. CASE \E i \in Ids, side \in {"local", "remote"} : Resolve(i, side)
  <2>1. PICK i \in Ids : \E side \in {"local", "remote"} : Resolve(i, side)
    BY <1>2
  <2>2. Collect /\ target' = i /\ UNCHANGED <<asked, stage, history>> /\ pc = "idle"
    BY <2>1 DEF Resolve
  <2>3. stage' = "none"
    BY <1>1, <2>2 DEF QInv, RTypeOK
  <2> QED BY <1>1, <2>2, <2>3, LookKeepsEParts, NoneIsNoValue DEF Answering
<1>3. CASE Answering /\ (List \/ \E p \in Paths : HashFile(p)) /\ UNCHANGED prompt
  <2>1. pc # "apply" /\ UNCHANGED <<stage, asked, history, target>>
    BY <1>3 DEF List, HashFile, prompt
  <2>2. stage' = "none" /\ Answering'
    BY <1>1, <1>3, <2>1 DEF QInv, RTypeOK, Answering
  <2> QED BY <1>1, <1>3, <2>1, <2>2, LookKeepsEParts
<1>4. CASE FindConflict
  BY <1>4, FindKeepsEParts
<1>5. CASE NoConflict \/ KeepVanished \/ KeepRefused \/ KeepFreeRefused
  BY <1>1, <1>5, ThrowKeepsEParts
<1>6. CASE KeepWrite \/ KeepReadBack \/ KeepFree \/ KeepPin
  BY <1>6, KeepWriteKeepsEParts, KeepReadBackKeepsEParts, KeepFreeKeepsEParts, KeepPinKeepsEParts
<1>7. CASE TakeFile \/ PinTheirs \/ TakeDeletion
  BY <1>7, TakeFileKeepsEParts, PinTheirsKeepsEParts, TakeDeletionKeepsEParts
<1>8. CASE ResolvedLast \/ ResolvedOne
  BY <1>8, ResolvedLastKeepsEParts, ResolvedOneKeepsEParts
<1> QED BY <1>2, <1>3, <1>4, <1>5, <1>6, <1>7, <1>8 DEF ResolveStep

LEMMA NextKeepsEParts ==
    ASSUME EditsDuringRound = FALSE, AInv, LInv, EParts, [RNext]_rvars, ~crossed'
    PROVE  EParts'
<1>1. QInv /\ TInv
  BY DEF AInv, QInv
<1>2. CASE asked = {} /\ User /\ UNCHANGED prompt
  <2>1. pc = "idle" /\ UNCHANGED <<snap, pc>>
    BY <1>2 DEF User, Create, Edit, Move, Delete, Change, UserMay, round
  <2> QED BY <1>1, <1>2, <2>1, BetweenKeepsEParts DEF prompt
<1>3. CASE Meanwhile
  <2>1. pc = "idle" /\ asked = {} /\ asked' = {} /\ UNCHANGED <<snap, pc, target, conflict, stage>>
    BY <1>3 DEF Meanwhile, Others, ForeignWrite, ForeignDelete, stored, round
  <2> QED BY <1>1, <1>3, <2>1, BetweenKeepsEParts
<1>4. CASE UNCHANGED rvars
  <2>1. UNCHANGED <<local, remote, snap, pc, mine, listing, toHash, hashes, texts, revs, todo,
                    readback, published, asked, target, choice, conflict, stage, given, freed>>
    BY <1>4 DEF rvars, vars, prompt, history
  <2>2. /\ OneEach' = OneEach /\ Excused' = Excused /\ PullsApart' = PullsApart
        /\ Answering' = Answering
        /\ \A i : /\ Kept(i)' <=> Kept(i)
                  /\ AsksNow(i)' <=> AsksNow(i)
                  /\ Same(i)' <=> Same(i)
                  /\ LetGo(i)' <=> LetGo(i)
                  /\ Fits(i)' <=> Fits(i)
                  /\ ToAsk(i)' <=> ToAsk(i)
    BY <2>1 DEF OneEach, Excused, PullsApart, Answering, Kept, AsksNow, Same, LetGo, Fits,
       ToAsk, FileAt, Version
  <2>3. NamesHash' /\ Undisturbed' /\ InRound'
    BY <2>1, <2>2 DEF EParts, NamesHash, Undisturbed, InRound
  <2>4. Prompting'
    BY <2>1, <2>2 DEF EParts, Prompting
  <2>5. Applying'
    BY <2>1, <2>2 DEF EParts, Applying
  <2>6. Resolving'
    BY <2>1, <2>2 DEF EParts, Resolving, AnswerGiven, MineVersion, TextOf, Of
  <2> QED BY <2>3, <2>4, <2>5, <2>6 DEF EParts
<1> QED
  BY <1>1, <1>2, <1>3, <1>4, RoundsKeepEParts, ResolveStepKeepsEParts, ThrowKeepsEParts DEF RNext

\* What may be taken away stays so, and the last answer skips only such versions.
LEMMA UnsentStaysExcused ==
    ASSUME QInv, EParts, unsent \subseteq Excused, [RNext]_rvars
    PROVE  unsent' \subseteq Excused'
<1>1. published \subseteq published'
  BY PublishedGrows
<1>2. /\ given \subseteq given' /\ freed \subseteq freed'
      /\ unsent' = unsent \/ ResolvedLast
  <2>1. Give => given \subseteq given' /\ UNCHANGED <<unsent, freed>>
    BY DEF Give
  <2>2. KeepFree => UNCHANGED <<given, unsent>> /\ freed \subseteq freed'
    BY DEF KeepFree
  <2>3. CASE ResolveStep
    BY <2>1, <2>2, <2>3 DEF ResolveStep, prompt, history, FindConflict, NoConflict, KeepVanished,
       KeepWrite, KeepReadBack, KeepRefused, KeepFreeRefused, KeepPin, TakeFile, PinTheirs,
       TakeDeletion, ResolvedLast, ResolvedOne, ResolveThrow, Return
  <2>4. CASE ~ResolveStep
    BY <2>4 DEF RNext, rvars, prompt, history, Rounds, RoundOnly, AskUser, Later, Resolve,
       ResolveFail, Return, Meanwhile
  <2> QED BY <2>3, <2>4
<1>3. Excused \subseteq Excused'
  BY <1>1, <1>2 DEF Excused
<1>4. CASE ResolvedLast
  <2>1. unsent' = unsent \cup Skipped /\ stage # "none"
    BY <1>4 DEF ResolvedLast, KeepStep
  <2>2. \A item \in todo.push : mine[item.id].path = item.path /\ MineVersion(item.id) \in Excused
    BY <2>1 DEF EParts, Resolving, QInv, TInv, PushesMine
  <2>3. Skipped \subseteq Excused
    BY <2>2 DEF Skipped, MineVersion
  <2> QED BY <1>3, <2>1, <2>3
<1> QED BY <1>2, <1>3, <1>4

\* What was crossed once stays so.
LEMMA CrossedStays == [RNext]_rvars => (crossed => crossed')
<1>1. Give => UNCHANGED crossed
  BY DEF Give
<1>2. KeepFree => UNCHANGED crossed
  BY DEF KeepFree
<1>3. CASE ResolveStep
  BY <1>1, <1>2, <1>3 DEF ResolveStep, prompt, history, FindConflict, NoConflict, KeepVanished,
     KeepWrite, KeepReadBack, KeepRefused, KeepFreeRefused, KeepPin, TakeFile, PinTheirs,
     TakeDeletion, ResolvedLast, ResolvedOne, ResolveThrow, Return
<1>4. CASE ~ResolveStep
  BY <1>4 DEF RNext, rvars, prompt, history, Rounds, RoundOnly, AskUser, Later, Resolve,
     ResolveFail, Return, Meanwhile
<1> QED BY <1>3, <1>4

LEMMA NextKeepsEInv ==
    ASSUME EditsDuringRound = FALSE
    PROVE  EInv /\ [RNext]_rvars => EInv'
<1> SUFFICES ASSUME EInv, [RNext]_rvars PROVE EInv'
  OBVIOUS
<1>1. AInv /\ LInv /\ QInv
  BY DEF EInv, AInv
<1>2. AInv' /\ LInv'
  BY <1>1, NextKeepsAInv, NextKeepsLInv
<1>3. ASSUME ~crossed' PROVE EParts' /\ unsent' \subseteq Excused'
  <2>1. EParts /\ unsent \subseteq Excused
    BY <1>3, CrossedStays DEF EInv
  <2> QED BY <1>1, <1>3, <2>1, NextKeepsEParts, UnsentStaysExcused
<1> QED BY <1>2, <1>3 DEF EInv

\* If the user changes nothing while a round runs, then whatever is answered to
\* the prompts, whatever fails and whatever other devices write between rounds, a
\* local version that was never in the repository is lost only if the user
\* answered "theirs" to it, or if it was at a path whose file an answer about
\* another record has deleted: the last answer skips no push of any other
\* version.  That lasts until another device writes into a round, a resolution
\* or an open prompt.
THEOREM AnsweredVersionsLost ==
    ASSUME EditsDuringRound = FALSE
    PROVE  RSpec => OnlyAnsweredVersionLost
<1> DEFINE Named == \A i \in Ids : ~Loses(i, published \cup given' \cup unsent)
           Excepted == \A i \in Ids : ~crossed /\ Loses(i, published \cup given')
                                          => local[i].path \in freed
<1>1. EInv /\ [RNext]_rvars /\ [Named]_rvars => [Excepted]_rvars
  <2> SUFFICES ASSUME EInv, RNext, Named, NEW i \in Ids, ~crossed,
                      Loses(i, published \cup given')
               PROVE  local[i].path \in freed
    OBVIOUS
  <2>1. Version(i) \in unsent /\ Version(i) \notin published \cup given'
    BY DEF Loses, Version
  <2>2. Version(i) \in Excused
    BY <2>1 DEF EInv
  <2>3. given \subseteq given'
    <3>1. Give => given \subseteq given'
      BY DEF Give
    <3> QED
      BY <3>1 DEF RNext, prompt, history, Rounds, RoundOnly, AskUser, Later, Resolve,
         ResolveStep, FindConflict, NoConflict, KeepVanished, KeepWrite, KeepReadBack,
         KeepRefused, KeepFree, KeepFreeRefused, KeepPin, TakeFile, PinTheirs, TakeDeletion,
         ResolvedLast, ResolvedOne, ResolveFail, ResolveThrow, Return, Meanwhile
  <2> QED BY <2>1, <2>2, <2>3 DEF Excused, Version
<1>2. RSpec => []EInv
  BY InitEInv, NextKeepsEInv, PTL DEF RSpec
<1>3. RSpec => [][Named]_rvars
  BY NamedVersionsLost DEF OnlyNamedVersionsLost
<1> QED BY <1>1, <1>2, <1>3, PTL DEF RSpec, OnlyAnsweredVersionLost
=============================================================================
