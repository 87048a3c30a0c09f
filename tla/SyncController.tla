--------------------------- MODULE SyncController ---------------------------
(***************************************************************************)
(* The sync controller of the home page over the sync service: connecting, *)
(* removing and changing the repository, runs, answers to a conflict, the  *)
(* commit-message prompt, the stored preferences, and the dot that tells   *)
(* the user whether there is anything to send.                             *)
(*                                                                         *)
(* Nothing in the code holds an operation back while another one runs      *)
(* except what the page shows, and the page shows what the last refresh    *)
(* read.  Each operation is a chain of awaited requests to storage or to   *)
(* the network; an action whose parameter is a slot serves the request the *)
(* operation in the slot waits for.  sync_state is one record that every   *)
(* writer reads first and then writes whole.                               *)
(*                                                                         *)
(* There is one document at one path, so a plan is one decision; that      *)
(* planSync decides each path as a three-way merge is PlanIsThreeWayMerge  *)
(* of SyncPlanning.                                                        *)
(***************************************************************************)
EXTENDS Naturals, Sequences, FiniteSets

CONSTANTS
    Repos, Versions, None,
    Slots,          \* bound: operations under way at once
    Manners,        \* "calm": the user waits for each operation to end;
                    \* "hasty": acts at any moment, but never removes the repository;
                    \* "fickle": acts, and removes it, while the network is awaited,
                    \* and storage may refuse the deletion of its state
    StorageFails,   \* whether it does
    MaxActs         \* bound, of each manner: what the user and other devices do

ASSUME NoneElsewhere == None \notin Repos \cup Versions \cup BOOLEAN
ASSUME ControllerBounds ==
    /\ Manners \subseteq {"calm", "hasty", "fickle"} /\ MaxActs \in [Manners -> Nat]
    /\ StorageFails \in BOOLEAN /\ Cardinality(Slots) >= 2

VARIABLES
    manner, acts,
    local,              \* the document, None when deleted
    remote,             \* repository -> its file, or None
    backend,            \* sync_backends: the connected repository
    saved,              \* sync_state
    ignore, auto,       \* preferences: the document is ignored; no prompt for a message
    busy, conflict, dirty, messageOpen,     \* the controller's memory
    status,             \* what getStatus said last, as rendered
    modal,              \* which modal is on the page
    turns,              \* slots in the chain of dirty checks
    calls,              \* slot -> operation under way, or None
    held                \* history: repository -> versions it has had, or whose
                        \* deletion there the user has accepted

user == <<manner, acts>>
stores == <<local, remote, backend, saved, ignore, auto, held>>
page == <<busy, conflict, dirty, messageOpen, status, modal>>
vars == <<user, stores, page, turns, calls>>

Doc == Versions \cup {None}
\* snapshot: the base of the document's path; scope: None or the recorded
\* ignore setting.
State == [snapshot : Doc, scope : BOOLEAN \cup {None}, error : BOOLEAN, synced : BOOLEAN]
NoState == [snapshot |-> None, scope |-> None, error |-> FALSE, synced |-> FALSE]
Status == [configured : BOOLEAN, busy : BOOLEAN, clean : BOOLEAN,
           error : BOOLEAN, synced : BOOLEAN]

Kinds == {"load", "edit", "configure", "remove", "prefs", "run", "resolve", "later"}
Steps == {"flush", "open", "register", "forget", "store",
          "require", "recall", "scopeRead", "scopeWrite", "collect", "list", "base",
          "push", "pull", "answer", "recheck", "pin", "advance", "stateRead", "stateWrite",
          "clearRead", "clearWrite", "errorRead", "errorWrite",
          "settle", "wait", "dirtyBackend", "dirtyLocal", "dirtyState",
          "statusBackend", "statusState"}
\* What an operation waits for, what it is given and what it has read.
Call == [step : Steps, kind : Kinds, repo : Repos \cup {None}, ignore : BOOLEAN,
         mine : BOOLEAN, local : Doc, file : Doc, read : State,
         again : Steps \cup {"done"}]
ASSUME NoneIsNothing == None \notin Call \cup Status

NewCall(kind, step) ==
    [step |-> step, kind |-> kind, repo |-> None, ignore |-> FALSE, mine |-> FALSE,
     local |-> None, file |-> None, read |-> NoState, again |-> "done"]

\* The page has loaded: an earlier session may have left a connected repository,
\* and both sides may have moved since.  Both reads of the first rendering are under
\* way.
Init ==
    /\ manner \in Manners /\ acts = 0 /\ ignore = FALSE /\ auto \in BOOLEAN
    /\ local \in Doc /\ remote \in [Repos -> Doc]
    /\ \/ /\ backend = None /\ saved = NoState
          /\ held = [r \in Repos |-> {remote[r]} \ {None}]
       \/ \E base \in Doc :
          /\ backend \in Repos
          /\ saved = [NoState EXCEPT !.snapshot = base, !.scope = FALSE, !.synced = TRUE]
          /\ held = [r \in Repos |-> ({remote[r]} \cup (IF r = backend THEN {base} ELSE {})) \ {None}]
    /\ busy = FALSE /\ conflict = FALSE /\ dirty = FALSE /\ messageOpen = FALSE
    /\ status = None /\ modal = "none"
    /\ \E s, t \in Slots :
          /\ s # t /\ turns = <<t>>
          /\ calls = [q \in Slots |-> IF q = s THEN NewCall("load", "statusBackend")
                                      ELSE IF q = t THEN NewCall("edit", "wait") ELSE None]
-----------------------------------------------------------------------------
(* Moving an operation on *)

At(s, step) == calls[s] # None /\ calls[s].step = step
Goto(s, call) == calls' = [calls EXCEPT ![s] = call]
On(s, step) == [calls[s] EXCEPT !.step = step]
End(s) == Goto(s, None)
Waits == UNCHANGED user /\ UNCHANGED turns

\* A refresh, and a dirty check in its turn; then again.
Refresh(s) == Goto(s, NewCall(calls[s].kind, "statusBackend")) /\ UNCHANGED turns
CheckDirty(s) == Goto(s, NewCall(calls[s].kind, "wait")) /\ turns' = Append(turns, s)

conflictModal == IF conflict' THEN "conflict" ELSE IF messageOpen' THEN "message" ELSE "none"

\* An operation of the service ends, well or not: what the controller does.
\* A failed run leaves the controller busy.
SettleBug(s, well, left) ==
    /\ calls[s].kind = "run" /\ ~well
    /\ Refresh(s) /\ UNCHANGED page
Settle(s, well, left) ==
    LET kind == calls[s].kind
    IN /\ busy' = IF kind \in {"run", "configure"} THEN FALSE ELSE busy
       /\ conflict' = CASE kind = "run" /\ well -> left
                        [] kind \in {"resolve", "remove"} -> FALSE
                        [] OTHER -> conflict
       /\ dirty' = (dirty /\ kind # "remove")
       /\ IF kind = "resolve" \/ (kind = "run" /\ well)
          THEN Goto(s, NewCall(kind, "settle")) /\ UNCHANGED turns
          ELSE Refresh(s)
       /\ UNCHANGED <<messageOpen, status, modal>>

\* syncNow records its error; the other operations only fail.
Fail(s) ==
    IF calls[s].kind = "configure" \/ (calls[s].kind = "run" /\ calls[s].step # "require")
    THEN Goto(s, On(s, "errorRead")) /\ UNCHANGED <<turns, page>>
    ELSE Settle(s, FALSE, FALSE)
-----------------------------------------------------------------------------
(* What the user may do: what the page shows *)

Idle == \A s \in Slots : calls[s] = None
Acts == acts < MaxActs[manner] /\ acts' = acts + 1 /\ UNCHANGED manner
NetworkAwaited ==
    \A s \in Slots : calls[s] # None => \/ calls[s].step \in {"open", "list", "push"}
                                       \/ (calls[s].step = "answer" /\ calls[s].mine)
UserMay == Acts /\ (manner = "calm" => Idle) /\ (manner = "fickle" => NetworkAwaited)
Start(s, call) == calls[s] = None /\ calls' = [calls EXCEPT ![s] = call]
Configured == status # None /\ status.configured
Clickable == modal = "none" /\ status # None /\ ~status.busy

\* A save of the document is followed by a dirty check.
Edit(s, v) ==
    /\ UserMay /\ modal = "none" /\ v # local /\ local' = v
    /\ Start(s, NewCall("edit", "wait")) /\ turns' = Append(turns, s)
    /\ UNCHANGED <<remote, backend, saved, ignore, auto, held, page>>

configureBackend(s, r) ==
    /\ UserMay /\ modal = "none" /\ ~Configured /\ (status # None => ~status.busy)
    /\ busy' = TRUE
    /\ Start(s, [NewCall("configure", "statusBackend") EXCEPT !.repo = r, !.again = "open"])
    /\ UNCHANGED <<stores, turns, conflict, dirty, messageOpen, status, modal>>

\* The click issues the deletion, and storage serves the requests to one
\* collection in order: whoever asks for the backend later finds none.
removeBackend(s) ==
    /\ UserMay /\ manner # "hasty" /\ Clickable /\ Configured
    /\ backend' = None /\ Start(s, NewCall("remove", "forget"))
    /\ UNCHANGED <<local, remote, saved, ignore, auto, held, turns, page>>

\* saveIgnore, saveCommitAuto.
savePreference(s, which) ==
    /\ UserMay /\ modal = "none" /\ status # None
    /\ Start(s, [NewCall("prefs", "store") EXCEPT !.mine = which])
    /\ UNCHANGED <<stores, turns, page>>

beginNow(s) ==
    /\ UserMay /\ Clickable /\ Configured /\ ~status.clean /\ ~busy
    /\ IF auto THEN Start(s, NewCall("run", "flush")) /\ UNCHANGED <<messageOpen, modal>>
       ELSE messageOpen' = TRUE /\ modal' = "message" /\ UNCHANGED calls
    /\ UNCHANGED <<stores, turns, busy, conflict, dirty, status>>
\* The prompt stays on the page until the run's first refresh.
sendMessage(s) ==
    /\ UserMay /\ modal = "message" /\ messageOpen' = FALSE
    /\ Start(s, NewCall("run", "flush"))
    /\ UNCHANGED <<stores, turns, busy, conflict, dirty, status, modal>>
dismissMessage ==
    /\ UserMay /\ modal = "message" /\ messageOpen' = FALSE /\ modal' = "none"
    /\ UNCHANGED <<stores, turns, calls, busy, conflict, dirty, status>>

resolveConflict(s, mine) ==
    /\ UserMay /\ modal = "conflict"
    /\ Start(s, [NewCall("resolve", "require") EXCEPT !.mine = mine])
    /\ UNCHANGED <<stores, turns, page>>
\* The page takes the prompt away itself.
later(s) ==
    /\ UserMay /\ modal = "conflict" /\ conflict' = FALSE /\ modal' = "none"
    /\ Start(s, NewCall("later", "statusBackend"))
    /\ UNCHANGED <<stores, turns, busy, dirty, messageOpen, status>>

\* Another device writes to, or deletes from, a repository.
Foreign(r, v) ==
    /\ Acts /\ v # remote[r]
    /\ remote' = [remote EXCEPT ![r] = v]
    /\ held' = [held EXCEPT ![r] = @ \cup ({v} \ {None})]
    /\ UNCHANGED <<local, backend, saved, ignore, auto, page, turns, calls>>
-----------------------------------------------------------------------------
(* configureBackend, removeBackend and the preferences *)

\* The repository is read before it is stored.
Opens(s) ==
    /\ At(s, "open") /\ Waits /\ UNCHANGED <<stores, page>>
    /\ Goto(s, On(s, "register"))
Register(s) ==
    /\ At(s, "register") /\ Waits
    /\ backend' = calls[s].repo /\ Settle(s, TRUE, FALSE)
    /\ UNCHANGED <<local, remote, saved, ignore, auto, held>>

Forget(s) ==
    /\ At(s, "forget") /\ UNCHANGED user /\ saved' = NoState /\ Settle(s, TRUE, FALSE)
    /\ UNCHANGED <<local, remote, backend, ignore, auto, held>>
\* The first deletion has happened; the page swallows the error.
ForgetFails(s) ==
    /\ StorageFails /\ manner = "fickle" /\ At(s, "forget") /\ UNCHANGED user
    /\ Settle(s, FALSE, FALSE) /\ UNCHANGED stores

StorePreference(s) ==
    /\ At(s, "store") /\ UNCHANGED user
    /\ IF calls[s].mine THEN ignore' = ~ignore /\ UNCHANGED auto /\ CheckDirty(s)
       ELSE auto' = ~auto /\ UNCHANGED ignore /\ Refresh(s)
    /\ UNCHANGED <<local, remote, backend, saved, held, page>>
-----------------------------------------------------------------------------
(* A run, and the answer to a conflict *)

Flush(s) ==
    /\ At(s, "flush") /\ Waits /\ busy' = TRUE /\ messageOpen' = FALSE
    /\ Goto(s, [NewCall("run", "statusBackend") EXCEPT !.again = "require"])
    /\ UNCHANGED <<stores, conflict, dirty, status, modal>>

requireBackend(s) ==
    /\ At(s, "require") /\ UNCHANGED <<user, stores>>
    /\ IF backend = None THEN Fail(s)
       ELSE /\ Goto(s, [On(s, IF calls[s].kind = "run" THEN "scopeRead" ELSE "recall")
                           EXCEPT !.repo = backend])
            /\ UNCHANGED <<turns, page>>

\* A run is given its scope; an answer uses the recorded one.
readScopeForResolve(s) ==
    /\ At(s, "recall") /\ UNCHANGED <<user, stores>>
    /\ IF saved.scope = None THEN Fail(s)
       ELSE Goto(s, [On(s, "scopeRead") EXCEPT !.ignore = saved.scope]) /\ UNCHANGED <<turns, page>>

\* sync_state is read whole.
ReadState(s, step, next) ==
    /\ At(s, step) /\ Waits /\ Goto(s, [On(s, next) EXCEPT !.read = saved])
    /\ UNCHANGED <<stores, page>>
\* It is written whole, with what the writer means to change.
WriteState(s, step, record) ==
    /\ At(s, step) /\ saved' = record
    /\ UNCHANGED <<user, local, remote, backend, ignore, auto, held>>

rememberScope(s) ==
    /\ WriteState(s, "scopeWrite", [calls[s].read EXCEPT !.scope = calls[s].ignore])
    /\ Goto(s, On(s, "collect")) /\ UNCHANGED <<turns, page>>

\* Ignored documents are in no input of the plan.
InScope(s, v) == IF calls[s].ignore THEN None ELSE v
collectLocal(s, step, next) ==
    /\ At(s, step) /\ Waits /\ Goto(s, [On(s, next) EXCEPT !.local = InScope(s, local)])
    /\ UNCHANGED <<stores, page>>
List(s) ==
    /\ At(s, "list") /\ Waits
    /\ Goto(s, [On(s, "base") EXCEPT !.file = InScope(s, remote[calls[s].repo])])
    /\ UNCHANGED <<stores, page>>

\* planSync on one path.
\* A change of both sides is pulled.
PlanBug(base, mine, theirs) ==
    IF mine = theirs THEN "nothing" ELSE IF theirs = base THEN "push" ELSE "pull"
Plan(base, mine, theirs) ==
    IF mine = theirs THEN "nothing"
    ELSE IF theirs = base THEN "push" ELSE IF mine = base THEN "pull" ELSE "conflict"

\* The snapshot is read last.  A run applies its plan; an answer needs the
\* conflict to be in it still.
Decide(s) ==
    /\ At(s, "base") /\ UNCHANGED <<user, stores>>
    /\ LET call == calls[s]
           plan == Plan(InScope(s, saved.snapshot), call.local, call.file)
       IN CASE call.kind = "resolve" /\ plan = "conflict" ->
                 Goto(s, [On(s, "recheck") EXCEPT !.read = saved]) /\ UNCHANGED <<turns, page>>
            [] call.kind = "resolve" /\ plan # "conflict" -> Fail(s)
            [] call.kind = "run" /\ plan = "conflict" -> Settle(s, TRUE, TRUE)
            [] OTHER -> /\ Goto(s, On(s, IF plan = "nothing" THEN "advance" ELSE plan))
                        /\ UNCHANGED <<turns, page>>

\* A write or deletion that the repository refuses if the file has changed.
Sends(s, next) ==
    /\ remote[calls[s].repo] = calls[s].file
    /\ remote' = [remote EXCEPT ![calls[s].repo] = calls[s].local]
    /\ held' = [held EXCEPT ![calls[s].repo] = @ \cup ({calls[s].local} \ {None})]
    /\ Goto(s, On(s, next)) /\ Waits
    /\ UNCHANGED <<local, backend, saved, ignore, auto, page>>
Push(s) == At(s, "push") /\ Sends(s, "advance")
\* Writes the file, and is told it did not.
PushUnanswered(s) == At(s, "push") /\ Sends(s, "errorRead")

Takes(s, next) ==
    /\ local' = calls[s].file /\ Goto(s, On(s, next)) /\ Waits
    /\ UNCHANGED <<remote, backend, saved, ignore, auto, held, page>>
Pull(s) == At(s, "pull") /\ Takes(s, "advance")

\* keep-mine writes a record only; keep-theirs of a deletion writes nothing.
AnswerMine(s) ==
    /\ At(s, "answer") /\ calls[s].mine
    /\ IF calls[s].local = None THEN Fail(s) /\ UNCHANGED <<user, stores>> ELSE Sends(s, "pin")
AnswerTheirs(s) ==
    /\ At(s, "answer") /\ ~calls[s].mine
    /\ IF calls[s].file = None
       THEN /\ held' = [held EXCEPT ![calls[s].repo] = @ \cup ({calls[s].local} \ {None})]
            /\ Goto(s, On(s, "pin")) /\ Waits
            /\ UNCHANGED <<local, remote, backend, saved, ignore, auto, page>>
       ELSE Takes(s, "pin")
\* The state goes back as it was read before the network was asked.
writeSnapshotEntry(s) ==
    /\ WriteState(s, "pin", [calls[s].read EXCEPT
                        !.snapshot = IF calls[s].mine THEN calls[s].local ELSE calls[s].file])
    /\ Goto(s, On(s, "advance")) /\ UNCHANGED <<turns, page>>

advanceSnapshot(s) ==
    /\ WriteState(s, "stateWrite", [calls[s].read EXCEPT !.snapshot = calls[s].local,
                                                         !.synced = TRUE])
    /\ Goto(s, On(s, "clearRead")) /\ UNCHANGED <<turns, page>>
clearError(s) ==
    /\ WriteState(s, "clearWrite", [calls[s].read EXCEPT !.error = FALSE])
    /\ Settle(s, TRUE, FALSE)
recordError(s) ==
    /\ WriteState(s, "errorWrite", [calls[s].read EXCEPT !.error = TRUE])
    /\ Settle(s, FALSE, FALSE)

\* A request to the network fails, or is refused.
NetworkFails(s) ==
    /\ \E step \in {"open", "list", "push", "answer"} : At(s, step)
    /\ At(s, "answer") => calls[s].mine
    /\ Fail(s) /\ UNCHANGED <<user, stores>>
-----------------------------------------------------------------------------
(* The page after an operation *)

\* The library is reloaded.
onSettled(s) ==
    /\ At(s, "settle") /\ CheckDirty(s) /\ UNCHANGED <<user, stores, page>>

\* Dirty checks wait for one another.
StartDirty(s) ==
    /\ At(s, "wait") /\ Head(turns) = s
    /\ Goto(s, [On(s, "dirtyBackend") EXCEPT !.ignore = ignore])
    /\ UNCHANGED <<user, turns, stores, page>>

Clean(st, nowDirty) == st.configured /\ ~busy /\ ~conflict /\ ~nowDirty /\ ~st.error /\ st.synced

\* The flag is not updated.
DirtyBug(s, pending) ==
    /\ dirty' = dirty /\ turns' = Tail(turns) /\ UNCHANGED status
    /\ IF calls[s].kind = "edit" THEN End(s) ELSE Goto(s, NewCall(calls[s].kind, "statusBackend"))
    /\ UNCHANGED <<user, stores, busy, conflict, messageOpen, modal>>
\* The chain is not let go.
DirtyStaysBug(s, pending) ==
    /\ dirty' = pending /\ UNCHANGED <<user, stores, busy, conflict, messageOpen, modal, status, turns>>
    /\ IF calls[s].kind = "edit" THEN End(s) ELSE Goto(s, NewCall(calls[s].kind, "statusBackend"))
\* The check's answer is taken, and the operation goes on.
Dirty(s, pending) ==
    /\ dirty' = pending /\ turns' = Tail(turns)
    /\ status' = IF status = None \/ pending = dirty THEN status
                 ELSE [status EXCEPT !.clean = Clean(status, pending)]
    /\ IF calls[s].kind = "edit" THEN End(s) ELSE Goto(s, NewCall(calls[s].kind, "statusBackend"))
    /\ UNCHANGED <<user, stores, busy, conflict, messageOpen, modal>>

hasPendingChanges(s) ==
    \/ /\ At(s, "dirtyBackend")
       /\ IF backend = None THEN Dirty(s, FALSE)
          ELSE Goto(s, On(s, "dirtyLocal")) /\ Waits /\ UNCHANGED <<stores, page>>
    \/ collectLocal(s, "dirtyLocal", "dirtyState")
    \/ At(s, "dirtyState") /\ Dirty(s, calls[s].local # InScope(s, saved.snapshot))

\* getStatus, rendered with the controller's memory of that moment.  A run's
\* scope is taken when its refresh is over.
statusBackend(s) ==
    /\ At(s, "statusBackend") /\ Waits /\ UNCHANGED <<stores, page>>
    /\ Goto(s, [On(s, "statusState") EXCEPT !.file = None, !.mine = backend # None])
statusState(s) ==
    /\ At(s, "statusState") /\ Waits
    /\ LET known == calls[s].mine
           st == [configured |-> known, busy |-> busy, clean |-> FALSE,
                  error |-> known /\ saved.error, synced |-> known /\ saved.synced]
       IN status' = [st EXCEPT !.clean = Clean(st, dirty)]
    /\ UNCHANGED <<busy, conflict, dirty, messageOpen, stores>>
    /\ modal' = conflictModal
    /\ IF calls[s].again = "done" THEN End(s)
       ELSE Goto(s, [On(s, calls[s].again) EXCEPT !.again = "done", !.mine = FALSE, !.ignore = ignore])

dot ==
    IF busy THEN "busy" ELSE IF conflict THEN "bad"
    ELSE IF ~Configured THEN "stale" ELSE IF status.error THEN "bad"
    ELSE IF dirty \/ ~status.synced THEN "stale" ELSE "ok"
-----------------------------------------------------------------------------
Click(s) ==
    \/ \E v \in Doc : Edit(s, v)
    \/ \E r \in Repos : configureBackend(s, r)
    \/ removeBackend(s) \/ \E b \in BOOLEAN : savePreference(s, b) \/ resolveConflict(s, b)
    \/ beginNow(s) \/ sendMessage(s) \/ later(s)

Answer(s) ==
    \/ Opens(s) \/ Register(s) \/ Forget(s) \/ ForgetFails(s)
    \/ StorePreference(s) \/ Flush(s) \/ requireBackend(s) \/ readScopeForResolve(s)
    \/ ReadState(s, "scopeRead", "scopeWrite") \/ rememberScope(s)
    \/ collectLocal(s, "collect", "list") \/ List(s) \/ Decide(s)
    \/ Push(s) \/ PushUnanswered(s) \/ Pull(s)
    \/ ReadState(s, "recheck", "answer") \/ AnswerMine(s) \/ AnswerTheirs(s)
    \/ writeSnapshotEntry(s)
    \/ collectLocal(s, "advance", "stateRead") \/ ReadState(s, "stateRead", "stateWrite")
    \/ advanceSnapshot(s) \/ ReadState(s, "clearRead", "clearWrite") \/ clearError(s)
    \/ ReadState(s, "errorRead", "errorWrite") \/ recordError(s) \/ NetworkFails(s)
    \/ onSettled(s) \/ StartDirty(s) \/ hasPendingChanges(s)
    \/ statusBackend(s) \/ statusState(s)

Next ==
    \/ dismissMessage \/ \E r \in Repos, v \in Doc : Foreign(r, v)
    \/ \E s \in Slots : Click(s) \/ Answer(s)

Spec == Init /\ [][Next]_vars
-----------------------------------------------------------------------------
\* Types.  Each slot has at most one place in the chain of dirty checks.
TypeOK ==
    /\ manner \in Manners /\ acts \in 0 .. MaxActs[manner]
    /\ local \in Doc /\ remote \in [Repos -> Doc] /\ backend \in Repos \cup {None}
    /\ saved \in State /\ held \in [Repos -> SUBSET Versions]
    /\ {ignore, auto, busy, conflict, dirty, messageOpen} \subseteq BOOLEAN
    /\ status \in Status \cup {None} /\ modal \in {"none", "conflict", "message"}
    /\ calls \in [Slots -> Call \cup {None}]
    /\ \A i, j \in DOMAIN turns : turns[i] \in Slots /\ (turns[i] = turns[j] => i = j)

Pending == backend # None /\ ~ignore /\ local # saved.snapshot

\* When nothing is under way, a green dot, or a sync button switched off because
\* all is clean, means that the next run has nothing of this device to send,
\* however saves, runs, answers and checks overlapped before.  A connection
\* removed or changed meanwhile is excepted: its state may be written back.
DotTellsTruth == manner # "fickle" /\ Idle /\ (dot = "ok" \/ (Configured /\ status.clean)) => ~Pending

\* When nothing is under way the page is not stuck: the controller is not busy,
\* no button is disabled by a busy status read too early, no check waits for a
\* turn, and the modal on the page is the one the controller would show.
ViewSettles ==
    Idle => /\ ~busy /\ turns = <<>> /\ (status # None => ~status.busy)
            /\ modal = IF conflict THEN "conflict" ELSE IF messageOpen THEN "message" ELSE "none"

\* A run of a calm user takes away a version of the document only if the
\* repository it is connected to has held it, also after the repository was
\* changed for another: "data is never lost" (requirements.md of sync).
\* An answer for the other side is the user's choice; where that side had
\* deleted the document the answer leaves it here, for a later run to delete.
Answering == \E s \in Slots : calls[s] # None /\ calls[s].kind = "resolve"
RunsLoseNothing ==
    [][manner = "calm" /\ acts' = acts /\ ~Answering /\ local # None /\ local' # local
           => backend # None /\ local \in held[backend]]_vars
=============================================================================
