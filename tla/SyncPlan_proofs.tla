--------------------------- MODULE SyncPlan_proofs ---------------------------
(***************************************************************************)
(* Lemmas about the operators of the planner, cited by the proofs about    *)
(* one planSync call (SyncPlanning_proofs) and about rounds                *)
(* (SyncRound_proofs).                                                     *)
(***************************************************************************)
EXTENDS SyncPlan, TLAPS, WellFoundedInduction

LEMMA LeastNatural ==
    ASSUME NEW T \in SUBSET Nat, T # {}
    PROVE  \E k \in T : \A j \in T : k <= j
<1> DEFINE R == OpToRel(<, Nat)
<1>1. \E k \in T : \A j \in T : <<j, k>> \notin R
  BY NatLessThanWellFounded, WFMin
<1>2. \A j, k \in Nat : j < k => <<j, k>> \in R
  BY DEF OpToRel
<1>3. PICK k \in T : \A j \in T : <<j, k>> \notin R
  BY <1>1
<1> HIDE DEF R
<1>4. \A j \in T : j \in Nat /\ k \in Nat /\ ~(j < k)
  BY <1>2, <1>3, Zenon
<1>5. \A j \in T : k <= j
  BY <1>4
<1> QED
  BY <1>5

\* The entry found for a path is an entry of the snapshot, and of that path.
LEMMA SnapAtFound ==
    ASSUME NEW snapshot \in Snapshots, NEW p, SnapAt(snapshot, p) # None
    PROVE  \E k \in 1 .. Len(snapshot) :
               /\ snapshot[k] = SnapAt(snapshot, p)
               /\ snapshot[k] \in SnapEntry
               /\ snapshot[k].path = p
<1> DEFINE H == HitsAt(snapshot, p)
<1>1. H # {} /\ H \in SUBSET Nat
  BY DEF SnapAt, HitsAt, Snapshots
<1>2. PICK k \in H : \A j \in H : k <= j
  BY <1>1, LeastNatural
<1>3. \E m \in H : SnapAt(snapshot, p) = snapshot[m]
  BY <1>1, <1>2 DEF SnapAt
<1> QED
  BY <1>3 DEF HitsAt, Snapshots

LEMMA SnapAtType ==
    ASSUME NEW snapshot \in Snapshots, NEW p
    PROVE  SnapAt(snapshot, p) \in SnapEntry \cup {None}
BY SnapAtFound

\* A plan carries ids, paths, hashes and revisions of its inputs only.
LEMMA PlanTyped ==
    ASSUME NEW snapshot \in Snapshots, NEW local \in Stores, NEW remote \in Listings
    PROVE  planSync(snapshot, local, remote) \in PlanType
<1> DEFINE plan == planSync(snapshot, local, remote)
           b(p) == SnapAt(snapshot, p)
<1>1. \A i \in Live(local) : i \in Ids /\ local[i] \in Record
  BY DEF Live, Stores
<1>2. \A p \in Paths : remote[p] # None => remote[p] \in Listed
  BY DEF Listings
<1>3. \A p : b(p) # None => b(p) \in SnapEntry
  BY SnapAtType
<1>4. plan.push \in SUBSET [id : Ids, path : Paths, hash : Contents]
  BY <1>1 DEF planSync, PushIds, Record
<1>5. plan.pull \in SUBSET [id : Ids \cup {None}, path : Paths, hash : Contents,
                            rev : Contents \cup {None}]
  <2>1. \A i \in PullIds(snapshot, local, remote) :
            /\ i \in Ids /\ local[i].path \in Paths
            /\ remote[local[i].path] \in Listed
    BY <1>1, <1>2 DEF PullIds, Pulls, Record
  <2>2. \A p \in RemoteOnly(local, remote) : p \in Paths /\ remote[p] \in Listed
    BY <1>2 DEF RemoteOnly
  <2> QED BY <2>1, <2>2 DEF planSync, Listed
<1>6. plan.deleteRemote \in SUBSET [id : Ids, path : Paths, rev : Contents \cup {None}]
  <2>1. \A p \in RemoteOnly(local, remote) : DropsRemote(b(p), remote[p]) =>
            p \in Paths /\ remote[p] \in Listed /\ b(p) \in SnapEntry
    BY <1>2, <1>3 DEF RemoteOnly, DropsRemote
  <2> QED BY <2>1 DEF planSync, Listed, SnapEntry
<1>7. plan.deleteLocal \in SUBSET [id : Ids, path : Paths]
  BY <1>1 DEF planSync, DropIds, Record
<1>8. plan.conflicts \in SUBSET [id : Ids, path : Paths, local : Contents \cup {None},
                                 remote : Listed \cup {None}]
  <2>1. \A i \in AskIds(snapshot, local, remote) :
            /\ i \in Ids /\ local[i] \in Record
            /\ remote[local[i].path] \in Listed \cup {None}
    BY <1>1, <1>2 DEF AskIds, Record
  <2>2. \A p \in RemoteOnly(local, remote) : AsksGone(b(p), remote[p]) =>
            p \in Paths /\ remote[p] \in Listed /\ b(p) \in SnapEntry
    BY <1>2, <1>3 DEF RemoteOnly, AsksGone
  <2> QED BY <2>1, <2>2 DEF planSync, GoneConflict, Record, SnapEntry
<1>9. plan = [push |-> plan.push, pull |-> plan.pull,
              deleteRemote |-> plan.deleteRemote, deleteLocal |-> plan.deleteLocal,
              conflicts |-> plan.conflicts]
  BY DEF planSync
<1> QED
  BY <1>4, <1>5, <1>6, <1>7, <1>8, <1>9 DEF PlanType
-----------------------------------------------------------------------------
(***************************************************************************)
(* The items of a plan and the records or files they are about.            *)
(***************************************************************************)
LEMMA PushItems ==
    ASSUME NEW snapshot, NEW local, NEW remote
    PROVE  /\ \A item \in planSync(snapshot, local, remote).push :
                  /\ item.id \in PushIds(snapshot, local, remote)
                  /\ item.path = local[item.id].path
           /\ \A i \in PushIds(snapshot, local, remote) :
                  \E item \in planSync(snapshot, local, remote).push :
                      item.id = i /\ item.path = local[i].path
<1>1. \A item \in planSync(snapshot, local, remote).push :
          /\ item.id \in PushIds(snapshot, local, remote)
          /\ item.path = local[item.id].path
  BY DEF planSync
<1>2. ASSUME NEW i \in PushIds(snapshot, local, remote)
      PROVE  \E item \in planSync(snapshot, local, remote).push :
                 item.id = i /\ item.path = local[i].path
  <2> DEFINE it == [id |-> i, path |-> local[i].path, hash |-> local[i].content]
  <2>1. it \in planSync(snapshot, local, remote).push BY DEF planSync
  <2> QED BY <2>1
<1> QED BY <1>1, <1>2

LEMMA PullItems ==
    ASSUME NEW snapshot, NEW local, NEW remote
    PROVE  /\ \A item \in planSync(snapshot, local, remote).pull :
                  \/ /\ item.id \in PullIds(snapshot, local, remote)
                     /\ item.path = local[item.id].path
                  \/ /\ item.id = None /\ item.path \in RemoteOnly(local, remote)
                     /\ Arrives(SnapAt(snapshot, item.path))
           /\ \A i \in PullIds(snapshot, local, remote) :
                  \E item \in planSync(snapshot, local, remote).pull :
                      item.id = i /\ item.path = local[i].path
           /\ \A p \in RemoteOnly(local, remote) : Arrives(SnapAt(snapshot, p)) =>
                  \E item \in planSync(snapshot, local, remote).pull : item.path = p
<1>1. \A item \in planSync(snapshot, local, remote).pull :
          \/ /\ item.id \in PullIds(snapshot, local, remote)
             /\ item.path = local[item.id].path
          \/ /\ item.id = None /\ item.path \in RemoteOnly(local, remote)
             /\ Arrives(SnapAt(snapshot, item.path))
  BY DEF planSync
<1>2. ASSUME NEW i \in PullIds(snapshot, local, remote)
      PROVE  \E item \in planSync(snapshot, local, remote).pull :
                 item.id = i /\ item.path = local[i].path
  <2> DEFINE it == [id |-> i, path |-> local[i].path,
                    hash |-> remote[local[i].path].hash,
                    rev |-> remote[local[i].path].rev]
  <2>1. it \in planSync(snapshot, local, remote).pull BY DEF planSync
  <2> QED BY <2>1
<1>3. ASSUME NEW p \in RemoteOnly(local, remote), Arrives(SnapAt(snapshot, p))
      PROVE  \E item \in planSync(snapshot, local, remote).pull : item.path = p
  <2> DEFINE it == [id |-> None, path |-> p, hash |-> remote[p].hash,
                    rev |-> remote[p].rev]
  <2>1. it \in planSync(snapshot, local, remote).pull BY <1>3 DEF planSync
  <2> QED BY <2>1
<1> QED BY <1>1, <1>2, <1>3

LEMMA DeleteRemoteItems ==
    ASSUME NEW snapshot, NEW local, NEW remote
    PROVE  /\ \A item \in planSync(snapshot, local, remote).deleteRemote :
                  /\ item.path \in RemoteOnly(local, remote)
                  /\ DropsRemote(SnapAt(snapshot, item.path), remote[item.path])
           /\ \A p \in RemoteOnly(local, remote) :
                  DropsRemote(SnapAt(snapshot, p), remote[p]) =>
                  \E item \in planSync(snapshot, local, remote).deleteRemote : item.path = p
<1>1. \A item \in planSync(snapshot, local, remote).deleteRemote :
          /\ item.path \in RemoteOnly(local, remote)
          /\ DropsRemote(SnapAt(snapshot, item.path), remote[item.path])
  BY DEF planSync
<1>2. ASSUME NEW p \in RemoteOnly(local, remote),
             DropsRemote(SnapAt(snapshot, p), remote[p])
      PROVE  \E item \in planSync(snapshot, local, remote).deleteRemote : item.path = p
  <2> DEFINE it == [id |-> SnapAt(snapshot, p).id, path |-> p, rev |-> remote[p].rev]
  <2>1. it \in planSync(snapshot, local, remote).deleteRemote BY <1>2 DEF planSync
  <2> QED BY <2>1
<1> QED BY <1>1, <1>2

LEMMA DeleteLocalItems ==
    ASSUME NEW snapshot, NEW local, NEW remote
    PROVE  /\ \A item \in planSync(snapshot, local, remote).deleteLocal :
                  /\ item.id \in DropIds(snapshot, local, remote)
                  /\ item.path = local[item.id].path
           /\ \A i \in DropIds(snapshot, local, remote) :
                  \E item \in planSync(snapshot, local, remote).deleteLocal :
                      item.id = i /\ item.path = local[i].path
<1>1. \A item \in planSync(snapshot, local, remote).deleteLocal :
          /\ item.id \in DropIds(snapshot, local, remote)
          /\ item.path = local[item.id].path
  BY DEF planSync
<1>2. ASSUME NEW i \in DropIds(snapshot, local, remote)
      PROVE  \E item \in planSync(snapshot, local, remote).deleteLocal :
                 item.id = i /\ item.path = local[i].path
  <2> DEFINE it == [id |-> i, path |-> local[i].path]
  <2>1. it \in planSync(snapshot, local, remote).deleteLocal BY DEF planSync
  <2> QED BY <2>1
<1> QED BY <1>1, <1>2

LEMMA ConflictItems ==
    ASSUME NEW snapshot, NEW local, NEW remote
    PROVE  /\ \A c \in planSync(snapshot, local, remote).conflicts :
                  \/ /\ c.id \in AskIds(snapshot, local, remote)
                     /\ c.path = local[c.id].path
                  \/ /\ c.path \in RemoteOnly(local, remote)
                     /\ AsksGone(SnapAt(snapshot, c.path), remote[c.path])
           /\ \A i \in AskIds(snapshot, local, remote) :
                  \E c \in planSync(snapshot, local, remote).conflicts :
                      c.id = i /\ c.path = local[i].path
           /\ \A p \in RemoteOnly(local, remote) :
                  AsksGone(SnapAt(snapshot, p), remote[p]) =>
                  \E c \in planSync(snapshot, local, remote).conflicts : c.path = p
<1>1. \A c \in planSync(snapshot, local, remote).conflicts :
          \/ /\ c.id \in AskIds(snapshot, local, remote)
             /\ c.path = local[c.id].path
          \/ /\ c.path \in RemoteOnly(local, remote)
             /\ AsksGone(SnapAt(snapshot, c.path), remote[c.path])
  BY DEF planSync, GoneConflict
<1>2. ASSUME NEW i \in AskIds(snapshot, local, remote)
      PROVE  \E c \in planSync(snapshot, local, remote).conflicts :
                 c.id = i /\ c.path = local[i].path
  <2> DEFINE it == [id |-> i, path |-> local[i].path, local |-> local[i].content,
                    remote |-> remote[local[i].path]]
  <2>1. it \in planSync(snapshot, local, remote).conflicts BY DEF planSync
  <2> QED BY <2>1
<1>3. ASSUME NEW p \in RemoteOnly(local, remote), AsksGone(SnapAt(snapshot, p), remote[p])
      PROVE  \E c \in planSync(snapshot, local, remote).conflicts : c.path = p
  <2> DEFINE it == GoneConflict(SnapAt(snapshot, p), p, remote[p])
  <2>1. it \in planSync(snapshot, local, remote).conflicts BY <1>3 DEF planSync
  <2> QED BY <2>1 DEF GoneConflict
<1> QED BY <1>1, <1>2, <1>3
-----------------------------------------------------------------------------
\* A record that is neither pushed nor asked about has the content of the
\* listed file or of the base.
LEMMA SettledIsKnown ==
    ASSUME NEW snapshot, NEW local, NEW remote, NEW i \in Live(local),
           i \notin PushIds(snapshot, local, remote),
           i \notin AskIds(snapshot, local, remote)
    PROVE  LET p == local[i].path
           IN  \/ remote[p] # None /\ remote[p].hash = local[i].content
               \/ /\ SnapAt(snapshot, p) # None
                  /\ SnapAt(snapshot, p).hash = local[i].content
BY DEF PushIds, AskIds, Pushes, Asks

\* A record the plan replaces or deletes still has the content of its base.
LEMMA DoomedIsBase ==
    ASSUME NEW snapshot, NEW local, NEW remote,
           NEW i \in PullIds(snapshot, local, remote) \cup DropIds(snapshot, local, remote)
    PROVE  /\ i \in Live(local)
           /\ SnapAt(snapshot, local[i].path) # None
           /\ SnapAt(snapshot, local[i].path).hash = local[i].content
BY DEF PullIds, DropIds, Pulls, DropsLocal
=============================================================================
