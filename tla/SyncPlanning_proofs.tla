------------------------- MODULE SyncPlanning_proofs -------------------------
(***************************************************************************)
(* What one planSync call decides, for every snapshot, store and listing.  *)
(***************************************************************************)
EXTENDS SyncPlanning, SyncPlan_proofs

\* The plan is the plan of its inputs, which have no path collision.
PlanOfInputs ==
    plan # None => plan = planSync(snapshot, local, remote) /\ collisions(local) = {}

IInv == TypeOK /\ collisions(local) = {} /\ PlanOfInputs

LEMMA InitIInv == Init => IInv
BY DEF Init, IInv, TypeOK, PlanOfInputs

LEMMA PlanKeepsIInv == IInv /\ [Plan]_vars => IInv'
<1> SUFFICES ASSUME IInv, [Plan]_vars PROVE IInv'
  OBVIOUS
<1>1. CASE Plan
  <2>1. planSync(snapshot, local, remote) \in PlanType
    BY PlanTyped, StoredAreSnapshots DEF IInv, TypeOK
  <2> QED BY <1>1, <2>1 DEF Plan, IInv, TypeOK, PlanOfInputs
<1>2. CASE UNCHANGED vars
  BY <1>2 DEF vars, IInv, TypeOK, PlanOfInputs
<1> QED BY <1>1, <1>2

LEMMA AlwaysIInv == Spec => []IInv
BY InitIInv, PlanKeepsIInv, PTL DEF Spec

\* planSync returns ids, paths, hashes and revisions of its inputs only, so
\* what applyRoundPlan and resolveConflict dereference exists.
THEOREM PlanningTyped == Spec => []TypeOK
<1>1. IInv => TypeOK BY DEF IInv
<1> QED BY AlwaysIInv, <1>1, PTL
-----------------------------------------------------------------------------
\* Which kinds of decision fall on a path: those about the records that live
\* there and, if none does, those about the file alone.
LEMMA KindsOfPath ==
    ASSUME IInv, plan # None, NEW p \in Paths
    PROVE
      /\ "push" \in KindsAt(p) <=>
            \E i \in At(local, p) : Pushes(SnapAt(snapshot, p), i, local[i].content,
                                           remote[p], Live(local))
      /\ "pull" \in KindsAt(p) <=>
            \/ \E i \in At(local, p) : Pulls(SnapAt(snapshot, p), i,
                                             local[i].content, remote[p])
            \/ p \in RemoteOnly(local, remote) /\ Arrives(SnapAt(snapshot, p))
      /\ "deleteRemote" \in KindsAt(p) <=>
            p \in RemoteOnly(local, remote) /\ DropsRemote(SnapAt(snapshot, p), remote[p])
      /\ "deleteLocal" \in KindsAt(p) <=>
            \E i \in At(local, p) : DropsLocal(SnapAt(snapshot, p), i,
                                               local[i].content, remote[p])
      /\ "conflicts" \in KindsAt(p) <=>
            \/ \E i \in At(local, p) : Asks(SnapAt(snapshot, p), i, local[i].content,
                                            remote[p], Live(local))
            \/ p \in RemoteOnly(local, remote) /\ AsksGone(SnapAt(snapshot, p), remote[p])
<1>0. plan = planSync(snapshot, local, remote)
  BY DEF IInv, PlanOfInputs
<1>1. \A i : i \in At(local, p) <=> i \in Live(local) /\ local[i].path = p
  BY DEF At
<1>2. "push" \in KindsAt(p) <=> \E item \in plan.push : item.path = p
  BY DEF KindsAt
<1>3. "pull" \in KindsAt(p) <=> \E item \in plan.pull : item.path = p
  BY DEF KindsAt
<1>4. "deleteRemote" \in KindsAt(p) <=> \E item \in plan.deleteRemote : item.path = p
  BY DEF KindsAt
<1>5. "deleteLocal" \in KindsAt(p) <=> \E item \in plan.deleteLocal : item.path = p
  BY DEF KindsAt
<1>6. "conflicts" \in KindsAt(p) <=> \E item \in plan.conflicts : item.path = p
  BY DEF KindsAt
<1>7. "push" \in KindsAt(p) <=>
          \E i \in PushIds(snapshot, local, remote) : local[i].path = p
  BY <1>0, <1>2, PushItems
<1>8. "pull" \in KindsAt(p) <=>
          \/ \E i \in PullIds(snapshot, local, remote) : local[i].path = p
          \/ p \in RemoteOnly(local, remote) /\ Arrives(SnapAt(snapshot, p))
  BY <1>0, <1>3, PullItems
<1>9. "deleteRemote" \in KindsAt(p) <=>
          p \in RemoteOnly(local, remote) /\ DropsRemote(SnapAt(snapshot, p), remote[p])
  BY <1>0, <1>4, DeleteRemoteItems
<1>10. "deleteLocal" \in KindsAt(p) <=>
          \E i \in DropIds(snapshot, local, remote) : local[i].path = p
  BY <1>0, <1>5, DeleteLocalItems
<1>11. "conflicts" \in KindsAt(p) <=>
          \/ \E i \in AskIds(snapshot, local, remote) : local[i].path = p
          \/ p \in RemoteOnly(local, remote) /\ AsksGone(SnapAt(snapshot, p), remote[p])
  BY <1>0, <1>6, ConflictItems
<1> QED
  BY <1>1, <1>7, <1>8, <1>9, <1>10, <1>11 DEF PushIds, PullIds, DropIds, AskIds

\* At most one record lives at a path.
LEMMA OneRecordPerPath ==
    ASSUME IInv, NEW p \in Paths
    PROVE  At(local, p) = {} \/ \E i \in Live(local) :
               At(local, p) = {i} /\ local[i].path = p /\ local[i].content \in Contents
<1>1. \A i, j \in At(local, p) : i = j
  BY DEF IInv, collisions
<1>2. \A i \in At(local, p) : i \in Live(local) /\ local[i].path = p
          /\ local[i].content \in Contents
  BY DEF At, Live, IInv, TypeOK, Stores, Record
<1> QED BY <1>1, <1>2

LEMMA KindsAreKinds ==
    ASSUME NEW p
    PROVE  KindsAt(p) \subseteq {"push", "pull", "deleteRemote", "deleteLocal", "conflicts"}
BY DEF KindsAt
-----------------------------------------------------------------------------
\* The nine nested branches of planSync are the three-way merge of the
\* snapshot with both sides, at every path that still belongs to its record.
THEOREM PlanningMerges == Spec => []PlanIsThreeWayMerge
<1>1. IInv => PlanIsThreeWayMerge
  <2> SUFFICES ASSUME IInv, plan # None, NEW p \in Paths, OwnerStable(p)
               PROVE  KindsAt(p) = MergeOf(p)
    BY DEF PlanIsThreeWayMerge
  <2> DEFINE base == SnapAt(snapshot, p)
             r == remote[p]
  <2>1. base # None => base \in SnapEntry
    BY SnapAtType, StoredAreSnapshots DEF IInv, TypeOK
  <2>2. r # None => r \in Listed
    BY DEF IInv, TypeOK, Listings
  <2>3. None \notin Contents
    BY NoneIsNoValue
  <2>4. CASE At(local, p) = {}
    <3>1. p \in RemoteOnly(local, remote) <=> r # None
      BY <2>4 DEF RemoteOnly
    <3>2. LocalAt(p) = {}
      BY <2>4 DEF LocalAt
    <3>3. /\ "push" \notin KindsAt(p) /\ "deleteLocal" \notin KindsAt(p)
          /\ "pull" \in KindsAt(p) <=> r # None /\ base = None
          /\ "deleteRemote" \in KindsAt(p) <=> r # None /\ base # None /\ r.hash = base.hash
          /\ "conflicts" \in KindsAt(p) <=> r # None /\ base # None /\ r.hash # base.hash
      BY <2>4, <3>1, KindsOfPath DEF Arrives, DropsRemote, AsksGone
    <3>4. CASE r = None
      BY <3>2, <3>3, <3>4, KindsAreKinds DEF MergeOf, RemoteAt
    <3>5. CASE r # None /\ base = None
      BY <3>2, <3>3, <3>5, KindsAreKinds DEF MergeOf, RemoteAt, Unmoved, Base
    <3>6. CASE r # None /\ base # None
      BY <2>2, <2>3, <3>2, <3>3, <3>6, KindsAreKinds DEF MergeOf, RemoteAt, Unmoved, Base, Listed
    <3> QED BY <3>4, <3>5, <3>6
  <2>5. ASSUME NEW i \in Live(local), At(local, p) = {i}, local[i].path = p,
               local[i].content \in Contents
        PROVE  KindsAt(p) = MergeOf(p)
    <3> DEFINE c == local[i].content
    <3>1. p \notin RemoteOnly(local, remote)
      BY <2>5 DEF RemoteOnly
    <3>2. LocalAt(p) = {c}
      BY <2>5 DEF LocalAt
    <3>3. base # None => base.id = i
      BY <2>5 DEF OwnerStable, Base
    <3>4. /\ "push" \in KindsAt(p) <=> Pushes(base, i, c, r, Live(local))
          /\ "pull" \in KindsAt(p) <=> Pulls(base, i, c, r)
          /\ "deleteRemote" \notin KindsAt(p)
          /\ "deleteLocal" \in KindsAt(p) <=> DropsLocal(base, i, c, r)
          /\ "conflicts" \in KindsAt(p) <=> Asks(base, i, c, r, Live(local))
      BY <2>5, <3>1, KindsOfPath
    <3>5. CASE r = None
      BY <2>3, <2>5, <3>2, <3>3, <3>4, <3>5, KindsAreKinds
         DEF MergeOf, RemoteAt, Unmoved, Base, Pushes, Pulls, DropsLocal, Asks
    <3>6. CASE r # None /\ base = None
      BY <2>3, <2>5, <3>2, <3>4, <3>6, KindsAreKinds
         DEF MergeOf, RemoteAt, Unmoved, Base, Pushes, Pulls, DropsLocal, Asks
    <3>7. CASE r # None /\ base # None
      <4>1. r.hash \in Contents
        BY <2>2, <3>7 DEF Listed
      <4> QED
        BY <2>3, <2>5, <3>2, <3>3, <3>4, <3>7, <4>1, KindsAreKinds
           DEF MergeOf, RemoteAt, Unmoved, Base, Pushes, Pulls, DropsLocal, Asks
    <3> QED BY <3>5, <3>6, <3>7
  <2> QED BY <2>4, <2>5, OneRecordPerPath
<1> QED BY AlwaysIInv, <1>1, PTL

\* A path another record took over is only ever pushed (its former record
\* lives elsewhere, or the file is gone) or asked about.
THEOREM TakeoversPushOrAsk == Spec => []TakeoverPushesOrAsks
<1>1. IInv => TakeoverPushesOrAsks
  <2> SUFFICES ASSUME IInv, plan # None, NEW p \in Paths, ~OwnerStable(p)
               PROVE  KindsAt(p) = IF remote[p] = None \/ Base(p).id \in Live(local)
                                   THEN {"push"} ELSE {"conflicts"}
    BY DEF TakeoverPushesOrAsks
  <2>1. PICK i \in Live(local) : At(local, p) = {i} /\ local[i].path = p
    BY OneRecordPerPath DEF OwnerStable
  <2>2. Base(p) # None /\ Base(p).id # i
    BY <2>1 DEF OwnerStable
  <2>3. p \notin RemoteOnly(local, remote)
    BY <2>1 DEF RemoteOnly
  <2>4. /\ "push" \in KindsAt(p) <=>
              Pushes(Base(p), i, local[i].content, remote[p], Live(local))
        /\ "pull" \in KindsAt(p) <=> Pulls(Base(p), i, local[i].content, remote[p])
        /\ "deleteRemote" \notin KindsAt(p)
        /\ "deleteLocal" \in KindsAt(p) <=>
              DropsLocal(Base(p), i, local[i].content, remote[p])
        /\ "conflicts" \in KindsAt(p) <=>
              Asks(Base(p), i, local[i].content, remote[p], Live(local))
    BY <2>1, <2>3, KindsOfPath DEF Base
  <2> QED
    BY <2>2, <2>4, KindsAreKinds DEF Pushes, Pulls, DropsLocal, Asks
<1> QED BY AlwaysIInv, <1>1, PTL

\* When the remote is as the last clean round left it, the local diff is the
\* work of the next plan, but for the records that took a path over with its
\* very text.
THEOREM PendingIsPlanned == Spec => []PendingMatchesPlan
<1>1. IInv => PendingMatchesPlan
  <2> DEFINE diff == snapshotDiff(snapshot, local)
             b(p) == SnapAt(snapshot, p)
             asked == {item.id : item \in plan.conflicts}
  <2> SUFFICES ASSUME IInv, plan # None, RemoteQuiet
               PROVE  /\ {item.id : item \in plan.push} \cup asked
                             = diff.created \cup diff.changed \cup Unseen
                      /\ \A i \in asked : ~OwnerStable(local[i].path)
                      /\ {item.path : item \in plan.deleteRemote} = diff.deleted
                      /\ plan.pull = {} /\ plan.deleteLocal = {}
                      /\ hasPendingChanges(snapshot, local) \/ Unseen # {}
                             <=> plan # EmptyPlan
    BY DEF PendingMatchesPlan
  <2>0. plan = planSync(snapshot, local, remote)
    BY DEF IInv, PlanOfInputs
  <2>1. \A i \in Live(local) : /\ local[i].path \in Paths /\ local[i].content \in Contents
                               /\ i \in At(local, local[i].path)
    BY DEF IInv, TypeOK, Live, Stores, Record, At
  <2>2. \A p \in Paths : remote[p] # None => remote[p].hash \in Contents
    BY DEF IInv, TypeOK, Listings, Listed
  <2>3. \A p \in Paths : IF b(p) = None THEN remote[p] = None
                         ELSE remote[p] # None /\ remote[p].hash = b(p).hash
    BY <2>2, NoneIsNoValue DEF RemoteQuiet, Unmoved, RemoteAt, Base
  <2>4. \A p \in RemoteOnly(local, remote) : ~AsksGone(b(p), remote[p])
    BY <2>3 DEF RemoteOnly, AsksGone
  <2>5. asked = AskIds(snapshot, local, remote)
    BY <2>0, <2>4, ConflictItems
  <2>6. PushIds(snapshot, local, remote) \cup AskIds(snapshot, local, remote)
            = diff.created \cup diff.changed \cup Unseen
    <3>1. ASSUME NEW i \in Live(local)
          PROVE  i \in PushIds(snapshot, local, remote) \cup AskIds(snapshot, local, remote)
                     <=> i \in diff.created \cup diff.changed \cup Unseen
      <4> DEFINE e == b(local[i].path)
      <4>1. i \in diff.created \cup diff.changed \cup Unseen
                <=> e = None \/ e.hash # local[i].content \/ e.id # i
        BY DEF snapshotDiff, Unseen, Base
      <4>2. i \in PushIds(snapshot, local, remote) \cup AskIds(snapshot, local, remote)
                <=> e = None \/ e.hash # local[i].content \/ e.id # i
        BY <2>1, <2>3 DEF PushIds, AskIds, Pushes, Asks
      <4> QED BY <4>1, <4>2
    <3> QED BY <3>1 DEF PushIds, AskIds, snapshotDiff, Unseen
  <2>7. {item.id : item \in plan.push} \cup asked
            = diff.created \cup diff.changed \cup Unseen
    BY <2>0, <2>5, <2>6, PushItems
  <2>8. {item.path : item \in plan.deleteRemote} = diff.deleted
    <3>1. {p \in RemoteOnly(local, remote) : DropsRemote(b(p), remote[p])} = diff.deleted
      BY <2>3 DEF RemoteOnly, DropsRemote, snapshotDiff
    <3> QED BY <2>0, <3>1, DeleteRemoteItems
  <2>9. plan.pull = {}
    <3>1. PullIds(snapshot, local, remote) = {}
      BY <2>1, <2>3 DEF PullIds, Pulls
    <3>2. \A p \in RemoteOnly(local, remote) : ~Arrives(b(p))
      BY <2>3 DEF RemoteOnly, Arrives
    <3> QED BY <2>0, <3>1, <3>2, PullItems
  <2>10. plan.deleteLocal = {}
    <3>1. DropIds(snapshot, local, remote) = {}
      BY <2>1, <2>3 DEF DropIds, DropsLocal
    <3> QED BY <2>0, <3>1, DeleteLocalItems
  <2>11. \A i \in asked : ~OwnerStable(local[i].path)
    <3> SUFFICES ASSUME NEW i \in asked PROVE ~OwnerStable(local[i].path)
      OBVIOUS
    <3>1. i \in Live(local) /\ Asks(b(local[i].path), i, local[i].content,
                                    remote[local[i].path], Live(local))
      BY <2>5 DEF AskIds
    <3>2. b(local[i].path) # None /\ b(local[i].path).id # i
      BY <2>1, <2>3, <3>1 DEF Asks
    <3> QED BY <2>1, <3>1, <3>2 DEF OwnerStable, Base
  <2>12. hasPendingChanges(snapshot, local) \/ Unseen # {} <=> plan # EmptyPlan
    <3>1. plan = [push |-> plan.push, pull |-> plan.pull,
                  deleteRemote |-> plan.deleteRemote, deleteLocal |-> plan.deleteLocal,
                  conflicts |-> plan.conflicts]
      BY <2>0 DEF planSync
    <3>2. plan = EmptyPlan <=> plan.push = {} /\ plan.deleteRemote = {} /\ plan.conflicts = {}
      BY <2>9, <2>10, <3>1 DEF EmptyPlan
    <3>3. plan.push = {} /\ plan.conflicts = {}
              <=> diff.created = {} /\ diff.changed = {} /\ Unseen = {}
      <4>1. plan.push = {} /\ plan.conflicts = {}
                <=> {item.id : item \in plan.push} = {} /\ asked = {}
        OBVIOUS
      <4>2. {item.id : item \in plan.push} = {} /\ asked = {}
                <=> {item.id : item \in plan.push} \cup asked = {}
        OBVIOUS
      <4>3. diff.created \cup diff.changed \cup Unseen = {}
                <=> diff.created = {} /\ diff.changed = {} /\ Unseen = {}
        OBVIOUS
      <4> QED BY <2>7, <4>1, <4>2, <4>3
    <3>4. plan.deleteRemote = {} <=> diff.deleted = {}
      BY <2>8
    <3>5. diff = [created |-> {}, changed |-> {}, deleted |-> {}] <=>
              diff.created = {} /\ diff.changed = {} /\ diff.deleted = {}
      BY DEF snapshotDiff
    <3> QED BY <3>2, <3>3, <3>4, <3>5 DEF hasPendingChanges
  <2> QED BY <2>7, <2>8, <2>9, <2>10, <2>11, <2>12
<1> QED BY AlwaysIInv, <1>1, PTL
=============================================================================
