---------------------------- MODULE SyncResolve -----------------------------
(***************************************************************************)
(* Rounds that stop on conflicts and resolveConflict, one conflict at a    *)
(* time.  A resolution captures and plans like a round, then applies only  *)
(* the chosen side of one conflict, pins that record in the snapshot and,  *)
(* when it counts no other conflict in its plan, advances the whole        *)
(* snapshot.  The conflict prompt is modal: the user edits nothing until   *)
(* every conflict is answered or put off ("later").  Of two conflicts with *)
(* one id the resolution finds the first; which one that is, the order of  *)
(* the plan, is left open here.                                            *)
(***************************************************************************)
EXTENDS SyncRound

ASSUME NoneIsNoAnswer ==
    /\ None \notin {"local", "remote"} /\ None \notin Record \cup SnapEntry
    /\ None \notin [id : Ids, path : Paths, local : Contents \cup {None},
                     remote : Listed \cup {None}]

VARIABLES
    asked,      \* ids of the conflicts the prompt still holds
    target,     \* id whose conflict is being resolved, None outside
    choice,     \* "local" or "remote" while a conflict is resolved
    conflict,   \* the conflict found in the fresh plan
    stage,      \* where applyLocalResolution or applyRemoteResolution is
    given,      \* history: every local version the user answered "theirs" to
    unsent,     \* history: every local version the snapshot of a resolution took
                \* for synced while its push was only planned
    freed,      \* history: every path whose file an answer deleted although
                \* another record lived there
    crossed     \* history: another device wrote while a round or a resolution
                \* ran or the prompt was open

history == <<given, unsent, freed, crossed>>
prompt == <<asked, target, choice, conflict, stage, history>>
rvars == <<vars, prompt>>

Answering == target # None

RInit ==
    /\ Init
    /\ asked = {} /\ target = None /\ choice = None
    /\ conflict = None /\ stage = "none"
    /\ given = {} /\ unsent = {} /\ freed = {} /\ crossed = FALSE

\* A step of syncNow: no resolution runs.
RoundOnly(Step) == ~Answering /\ Step /\ UNCHANGED prompt

\* The prompt leaves out the conflicts whose record is gone.
AskUserBug ==
    /\ ~Answering /\ FinalizeAsking
    /\ asked' = {c.id : c \in {d \in todo.conflicts : d.local # None}}
    /\ UNCHANGED <<target, choice, conflict, stage, history>>

\* The prompt is filled from the report of a round that stopped.
AskUser ==
    /\ ~Answering /\ FinalizeAsking
    /\ asked' = {c.id : c \in todo.conflicts}
    /\ UNCHANGED <<target, choice, conflict, stage, history>>

Later == /\ pc = "idle" /\ asked # {} /\ asked' = {}
         /\ UNCHANGED <<vars, target, choice, conflict, stage, history>>
-----------------------------------------------------------------------------
(* resolveConflict *)

Resolve(i, side) ==
    /\ pc = "idle" /\ i \in asked /\ Collect
    /\ target' = i /\ choice' = side
    /\ UNCHANGED <<asked, conflict, stage, history>>

\* The conflict of one answer is left behind for the next.
ReturnBug(rest) ==
    /\ Leave
    /\ asked' = rest /\ target' = None /\ choice' = None
    /\ stage' = "none" /\ UNCHANGED <<conflict, given, freed, crossed>>

\* The resolution ends; the next prompt is shown, or none after a throw.
Return(rest) ==
    /\ Leave
    /\ asked' = rest /\ target' = None /\ choice' = None
    /\ conflict' = None /\ stage' = "none" /\ UNCHANGED <<given, freed, crossed>>
\* A resolution that throws records no error.
ResolveThrow == Return({}) /\ UNCHANGED <<stored, remote, bounds, published, unsent>>

FindConflict ==
    /\ Answering /\ pc = "hash" /\ toHash = {} /\ collisions(mine) = {}
    /\ LET plan == planSync(snap, mine, ListedEntries)
       IN  /\ \E c \in plan.conflicts : c.id = target /\ conflict' = c
           /\ todo' = plan
    /\ pc' = "apply"
    /\ stage' = IF choice = "local" THEN "write" ELSE "adopt"
    /\ UNCHANGED <<stored, remote, mine, listing, toHash, hashes, texts, revs,
                   readback, bounds, published, asked, target, choice, history>>

\* No conflict for that id any more, or two records for one path.
NoConflict ==
    /\ Answering /\ pc = "hash" /\ toHash = {}
    /\ \/ collisions(mine) # {}
       \/ \A c \in planSync(snap, mine, ListedEntries).conflicts : c.id # target
    /\ ResolveThrow
-----------------------------------------------------------------------------
(* applyLocalResolution *)

KeepStep(name) ==
    Answering /\ pc = "apply" /\ readback = None /\ stage = name
KeepFrame == UNCHANGED <<pc, mine, listing, toHash, hashes, texts, todo, bounds,
                         asked, target, choice, conflict>>
Give == /\ given' = IF mine[target] = None THEN given
                    ELSE given \cup {<<mine[target].path, mine[target].content>>}
        /\ UNCHANGED <<unsent, freed, crossed>>

\* "Local record vanished mid-resolution": also when the local side of the
\* conflict is the deletion itself.
KeepVanished == KeepStep("write") /\ mine[target] = None /\ ResolveThrow

KeepWrite ==
    /\ KeepStep("write") /\ mine[target] # None
    /\ LET p == mine[target].path
       IN  /\ MayWrite(p)
           /\ Write(p, mine[target].content)
           /\ IF backend = "git"
              THEN /\ revs' = [revs EXCEPT ![p] = mine[target].content]
                   /\ UNCHANGED readback
              ELSE readback' = p /\ UNCHANGED revs
    /\ stage' = "free"
    /\ UNCHANGED stored /\ KeepFrame /\ UNCHANGED history

KeepReadBack == Answering /\ ReadBack /\ UNCHANGED prompt

KeepRefused ==
    /\ KeepStep("write") /\ mine[target] # None /\ MayRefuse(mine[target].path)
    /\ ResolveThrow

\* The first snapshot entry of the record, wherever it was.
Slots(i) == {k \in 1 .. Len(snap) : snap[k] # None /\ snap[k].id = i}
Before(i) == IF Slots(i) = {} THEN None
             ELSE snap[CHOOSE k \in Slots(i) : \A j \in Slots(i) : k <= j]
Moved(i) == Before(i) # None /\ Before(i).path # mine[i].path

\* The file the record left is deleted at the revision the round knows for
\* it; without one the adapter deletes what is there.
KeepFree ==
    /\ KeepStep("free")
    /\ IF Moved(target)
       THEN LET p == Before(target).path
            IN  /\ revs[p] = None \/ remote[p] \in {revs[p], None}
                /\ remote' = [remote EXCEPT ![p] = None]
                /\ freed' = IF At(local, p) = {} THEN freed ELSE freed \cup {p}
       ELSE UNCHANGED <<remote, freed>>
    /\ stage' = "pin"
    /\ UNCHANGED <<stored, revs, readback, published, given, unsent, crossed>> /\ KeepFrame

KeepFreeRefused ==
    /\ KeepStep("free") /\ Moved(target)
    /\ LET p == Before(target).path
       IN  revs[p] # None /\ remote[p] \notin {revs[p], None}
    /\ ResolveThrow

\* The older entries of the record stay.
PinEntryBug(i, entries) == SelectSeq(snap, LAMBDA e : e # None) \o entries

\* writeSnapshotEntry: the entries of that record go, the new one is last.
EntriesBut(i) ==
    LET kept[n \in 0 .. Len(snap)] ==
            IF n = 0 THEN <<>>
            ELSE IF snap[n] # None /\ snap[n].id # i THEN Append(kept[n - 1], snap[n])
            ELSE kept[n - 1]
    IN  kept[Len(snap)]
PinEntry(i, entries) == EntriesBut(i) \o entries

KeepPin ==
    /\ KeepStep("pin")
    /\ snap' = PinEntry(target, <<[id |-> target, path |-> mine[target].path,
                                   hash |-> mine[target].content,
                                   rev |-> revs[mine[target].path]]>>)
    /\ stage' = "count"
    /\ UNCHANGED <<backend, local, lastError, remote, revs, readback, published>>
    /\ KeepFrame /\ UNCHANGED history
-----------------------------------------------------------------------------
(* applyRemoteResolution *)

\* The remote side is a file: it becomes the record, at the file's path.
TakeFile ==
    /\ KeepStep("adopt") /\ conflict.remote # None /\ TextOf(conflict.path) # None
    /\ local' = [local EXCEPT ![target] = [path |-> conflict.path,
                                           content |-> TextOf(conflict.path)]]
    /\ stage' = "pinTheirs"
    /\ UNCHANGED <<backend, snap, lastError, remote, revs, readback, published>>
    /\ KeepFrame /\ Give

PinTheirs ==
    /\ KeepStep("pinTheirs")
    /\ snap' = PinEntry(target, <<[id |-> target, path |-> conflict.path,
                                   hash |-> conflict.remote.hash,
                                   rev |-> conflict.remote.rev]>>)
    /\ stage' = "count"
    /\ UNCHANGED <<backend, local, lastError, remote, revs, readback, published>>
    /\ KeepFrame /\ UNCHANGED history

\* The remote side is a deletion, or the file has gone since: the record
\* stays and only its snapshot entry is dropped.
TakeDeletion ==
    /\ KeepStep("adopt")
    /\ conflict.remote = None \/ TextOf(conflict.path) = None
    /\ snap' = PinEntry(target, <<>>)
    /\ stage' = "count"
    /\ UNCHANGED <<backend, local, lastError, remote, revs, readback, published>>
    /\ KeepFrame /\ Give
-----------------------------------------------------------------------------
\* What the last answer takes for synced although it is not.
Skipped == {<<item.path, mine[item.id].content>> : item \in todo.push}

\* The snapshot advances over the conflicts that are still open.
ResolvedLastBug ==
    /\ KeepStep("count")
    /\ snap' = Entries(local, revs) /\ lastError' = None
    /\ Return(asked \ {target}) /\ unsent' = unsent \cup Skipped
    /\ UNCHANGED <<backend, local, remote, bounds, published>>

\* The other conflicts of the plan are counted, whatever else it held.
ResolvedLast ==
    /\ KeepStep("count") /\ todo.conflicts = {conflict}
    /\ snap' = Entries(local, revs) /\ lastError' = None
    /\ Return(asked \ {target}) /\ unsent' = unsent \cup Skipped
    /\ UNCHANGED <<backend, local, remote, bounds, published>>

ResolvedOne ==
    /\ KeepStep("count") /\ todo.conflicts # {conflict}
    /\ Return(asked \ {target})
    /\ UNCHANGED <<stored, remote, bounds, published, unsent>>

\* A request of the resolution fails, or the tab is closed.
ResolveFail ==
    /\ Answering
    /\ failures < MaxFailures /\ failures' = failures + 1
    /\ Return({})
    /\ UNCHANGED <<stored, remote, edits, foreign, published, unsent>>
-----------------------------------------------------------------------------
ResolveStep ==
    \/ Answering /\ (List \/ \E p \in Paths : HashFile(p)) /\ UNCHANGED prompt
    \/ FindConflict \/ NoConflict
    \/ KeepVanished \/ KeepWrite \/ KeepReadBack \/ KeepRefused
    \/ KeepFree \/ KeepFreeRefused \/ KeepPin
    \/ TakeFile \/ PinTheirs \/ TakeDeletion
    \/ ResolvedLast \/ ResolvedOne

\* A step of syncNow that needs nobody's decision but to start it.
Rounds == RoundOnly((asked = {} /\ Capture) \/ Apply \/ FinalizeClean) \/ AskUser

\* Other devices write at any moment.
Meanwhile ==
    /\ Others /\ crossed' = (crossed \/ pc # "idle" \/ asked # {})
    /\ UNCHANGED <<asked, target, choice, conflict, stage, given, unsent, freed>>

\* While the prompt is open neither a round starts nor the user edits.
RNext ==
    \/ Rounds
    \/ RoundOnly(Failure)
    \/ Later
    \/ \E i \in Ids, side \in {"local", "remote"} : Resolve(i, side)
    \/ ResolveStep
    \/ ResolveFail
    \/ asked = {} /\ User /\ UNCHANGED prompt
    \/ Meanwhile

RSpec == RInit /\ [][RNext]_rvars

\* Every request ends, the user keeps asking for rounds, and of the prompts
\* that are shown again and again each is some time answered "theirs".
Fairness ==
    /\ WF_rvars(Rounds) /\ WF_rvars(ResolveStep)
    /\ \A i \in Ids : SF_rvars(Resolve(i, "remote"))
RFairSpec == RSpec /\ Fairness
-----------------------------------------------------------------------------
\* A resolution holds its conflict exactly while it applies an answer.
RTypeOK ==
    /\ TypeOK
    /\ asked \subseteq Ids /\ given \cup unsent \subseteq Paths \X Contents
    /\ freed \subseteq Paths /\ crossed \in BOOLEAN
    /\ target \in Ids \cup {None} /\ choice \in {"local", "remote", None}
    /\ stage \in {"none", "write", "free", "pin", "adopt", "pinTheirs", "count"}
    /\ Answering <=> choice # None
    /\ stage # "none" <=> conflict # None
    /\ conflict # None => Answering /\ pc = "apply" /\ conflict \in todo.conflicts

\* A step of the sync that takes from the store a version not in the set.
Loses(i, versions) ==
    /\ SyncMoves /\ local[i] # None /\ local'[i] # local[i]
    /\ <<local[i].path, local[i].content>> \notin versions

\* Whatever is answered to a prompt: a local version that was never in the
\* repository is lost only if it is the one answered "theirs", or if an answer
\* about the record that was once at its path has deleted the file there; as
\* long as no other device wrote into a round, a resolution or an open prompt.
OnlyAnsweredVersionLost ==
    [][\A i \in Ids : ~crossed /\ Loses(i, published \cup given')
           => local[i].path \in freed]_rvars

\* Whatever other devices do while a prompt is open, too, a local version is lost
\* in one other way only: the last answer advanced the snapshot over its push.
OnlyNamedVersionsLost ==
    [][\A i \in Ids : ~Loses(i, published \cup given' \cup unsent)]_rvars

\* An answer given settles its path: whatever other devices have written since,
\* the next round does not ask about that path again, also when the tab was
\* closed right after the answer was pinned.  Excepted are a path whose older
\* entry, of a record that vanished, stays the first, and a file that came back
\* after its deletion was accepted.
Shadowed(p) == SnapAt(snap, p) # None /\ SnapAt(snap, p).id # target
CameBack(p) == choice = "remote" /\ hashes[p] = None /\ remote[p] # None
AnswerSticks ==
    [][stage = "count" /\ stage' = "none"
           /\ ~Shadowed(conflict.path) /\ ~CameBack(conflict.path) =>
          \A c \in PlanNow'.conflicts : c.path # conflict.path]_rvars

\* The snapshot pins the revision of the file as it is, with the hash of
\* another text: the shortcut answers for the file and no round reads it again.
\* Only a write that another device made into a round, a resolution or an open
\* prompt is pinned so: by gitlab's read-back (gitlab-adapter.js:345), and by the
\* last answer to a prompt when it advances the snapshot over a pull or a push.
Mispinned(p) ==
    /\ crossed /\ remote[p] # None /\ LastAt(p) # None
    /\ LastAt(p).rev = remote[p] /\ LastAt(p).hash # remote[p]

\* Once users, devices and failures are still, rounds bring every path that
\* nobody has to be asked about to the same content on both sides, and
\* keep it there (AC-1, AC-2): no lost answer, interrupted round or
\* half-applied plan leaves the two sides apart for good.  A mispinned path is
\* the exception: it stays apart, unseen, until its file or record changes.
Settles ==
    <>[](collisions(local) = {} =>
            \A p \in Paths : \/ Mirrored(p) \/ Mispinned(p)
                             \/ \E c \in PlanNow.conflicts : c.path = p)

\* Once users, devices and failures are still, rounds and answers bring both
\* sides to the same content and keep them there, whatever wrote, failed or was
\* closed before and in whatever moment; but for a mispinned path, which stays
\* apart until its file or its record changes again.
AnswersSettle ==
    <>[](collisions(local) = {} => \A p \in Paths : Mirrored(p) \/ Mispinned(p))
=============================================================================
