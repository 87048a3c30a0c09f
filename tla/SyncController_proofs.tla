------------------------ MODULE SyncController_proofs ------------------------
(***************************************************************************)
(* The sync controller, for all repositories, versions and slots, for any  *)
(* number of operations under way at once and for all bounds.              *)
(*                                                                         *)
(* Each promise is about a moment at which nothing is under way, so each   *)
(* needs to know, at every moment before, which operation under way will   *)
(* yet make it true: who will let go of the busy flag, who will refresh,   *)
(* whose check will still read what was changed.  An operation keeps its   *)
(* kind to its end, and its kind says how it ends.  That runs lose nothing *)
(* is a promise about every step, so what an operation has in hand is      *)
(* followed from the request that read it to the one that writes it.       *)
(***************************************************************************)
EXTENDS SyncController, TLAPS

Checks == {"wait", "dirtyBackend", "dirtyLocal", "dirtyState"}
Looks == {"statusBackend", "statusState"}
Writes == {"advance", "stateRead", "stateWrite", "clearRead", "clearWrite"}
Round == {"scopeRead", "scopeWrite", "collect", "list", "base"} \cup Writes
Runs == {"run", "resolve"}

\* What kind of operation can wait for what, and from when on it has a repository.
Fits(c) ==
    /\ c.again # "done" =>
          /\ c.step \in Looks
          /\ \/ c.again = "open" /\ c.kind = "configure" /\ c.repo \in Repos
             \/ c.again = "require" /\ c.kind = "run"
    /\ c.step \in {"open", "register"} => c.kind = "configure" /\ c.repo \in Repos
    /\ c.step = "forget" => c.kind = "remove"
    /\ c.step = "store" => c.kind = "prefs"
    /\ c.step = "flush" => c.kind = "run"
    /\ c.step = "require" => c.kind \in Runs
    /\ c.step \in Round => c.kind \in Runs /\ c.repo \in Repos
    /\ c.step \in {"push", "pull"} => c.kind = "run" /\ c.repo \in Repos
    /\ c.step \in {"recall", "recheck", "answer", "pin"} => c.kind = "resolve" /\ c.repo \in Repos
    /\ c.step \in {"errorRead", "errorWrite"} => c.kind \in {"run", "configure"}
    /\ c.step = "settle" => c.kind \in Runs
    /\ c.step \in Checks => c.kind \in Runs \cup {"edit", "prefs"}
    /\ c.step \in Looks => c.kind # "edit"

CallsFit == \A s \in Slots : calls[s] # None => Fits(calls[s])

\* The chain of dirty checks is what its slots say.
InTurn(s) == \E i \in 1 .. Len(turns) : turns[i] = s
Checking(s) == calls[s] # None /\ calls[s].step \in Checks
TurnsTell ==
    /\ turns \in Seq(Slots)
    /\ \A i, j \in 1 .. Len(turns) : turns[i] = turns[j] => i = j
    /\ \A s \in Slots : Checking(s) <=> InTurn(s)
    /\ \A s \in Slots : Checking(s) /\ calls[s].step # "wait" => turns # <<>> /\ turns[1] = s

Under(s, kinds) == calls[s] # None /\ calls[s].kind \in kinds
NotEdit == Kinds \ {"edit"}
\* What follows the call of the service is under way.
Settled(c) == c.step \in Checks \cup {"settle"} \/ (c.step \in Looks /\ c.again = "done")
BusyEnds == busy => \E s \in Slots : Under(s, {"run", "configure"}) /\ ~Settled(calls[s])
StatusEnds == status # None /\ status.busy => \E s \in Slots : Under(s, {"run", "configure"})
Wanted == IF conflict THEN "conflict" ELSE IF messageOpen THEN "message" ELSE "none"
ModalEnds == modal # Wanted => \E s \in Slots : Under(s, NotEdit)

\* A calm user has one operation under way, but for the first rendering.
OneAtATime ==
    manner = "calm" => \A s, t \in Slots :
        s # t /\ calls[s] # None /\ calls[t] # None => Under(s, {"load", "edit"})

NoRemoval == manner = "hasty" => \A s \in Slots : ~Under(s, {"remove"})

\* What the rendered status says is so, or a refresh is to come.
CleanTold == status # None /\ status.clean => status.configured /\ ~dirty /\ ~status.error /\ status.synced
SavedTold ==
    status # None /\ status.configured /\ (status.error # saved.error \/ status.synced # saved.synced) =>
        \E s \in Slots : Under(s, NotEdit)

\* A base there is only of a repository.
Forgets == \E s \in Slots : calls[s] # None /\ calls[s].step = "forget"
Rounding(c) == c.step \in Round \cup {"recall", "push", "pull", "recheck", "answer", "pin"}
SyncedTo == manner # "fickle" =>
    /\ saved.synced /\ backend = None => Forgets
    /\ \A s \in Slots : calls[s] # None =>
          /\ calls[s].read.synced => backend # None
          /\ Rounding(calls[s]) => backend # None
          /\ calls[s].step = "forget" => backend = None

\* A check to come reads what there is now.
Reads(c, now) ==
    /\ c.step \in Checks
    /\ c.step # "wait" => c.ignore = ignore
    /\ c.step = "dirtyState" => c.local = IF c.ignore THEN None ELSE now
\* A run that writes ends with a check, and so does every answer.
WillCheck(c) ==
    \/ c.step = "wait"
    \/ c.kind = "resolve" /\ ~Settled(c)
    \/ c.kind \in Runs /\ c.step \in Writes \cup {"settle"}
StaleFollowed == \A s \in Slots :
    Checking(s) /\ ~Reads(calls[s], local) => \E t \in Slots : calls[t] # None /\ WillCheck(calls[t])
Unsettled(c) == c.kind \in Runs /\ (~Settled(c) \/ c.step = "settle")
PendingTold ==
    manner # "fickle" /\ Pending /\ saved.synced /\ ~saved.error /\ ~dirty =>
        \E t \in Slots : calls[t] # None /\ (Reads(calls[t], local) \/ Unsettled(calls[t]))

\* What runs of a calm user take away.
Parted(r) == held[r] \cup {None}
RemotesHeld == \A r \in Repos : remote[r] \in Parted(r)
AfterList == {"base", "push", "pull", "recheck", "answer", "pin", "errorRead", "errorWrite"} \cup Writes
FilesHeld == \A s \in Slots : calls[s] # None /\ calls[s].file # None =>
    calls[s].step \in AfterList /\ calls[s].repo \in Repos /\ calls[s].file \in held[calls[s].repo]
Based(v) == v # None => backend # None /\ v \in held[backend]
StatusTold == manner = "calm" =>
    (status # None /\ (status.configured <=> backend # None)) \/ \E s \in Slots : Under(s, NotEdit)
BaseHeld == manner = "calm" => Based(saved.snapshot) \/ Forgets
Scoped(c) == IF c.ignore THEN None ELSE local
CallHeld(c) ==
    /\ Based(c.read.snapshot)
    /\ c.step = "statusState" => (c.mine <=> backend # None)
    /\ c.kind = "configure" /\ ~Settled(c) /\ c.step \notin {"errorRead","errorWrite"} => backend = None
    /\ Rounding(c) => backend # None /\ c.repo = backend
    /\ c.step \in {"list", "base", "push", "pull", "recheck", "answer", "stateRead", "stateWrite"} => c.local = Scoped(c)
    /\ c.step = "base" /\ c.ignore => c.file = None
    /\ c.step = "pull" => ~c.ignore /\ c.local = saved.snapshot
    /\ c.step = "pin" => (IF c.mine THEN c.local ELSE c.file) \in Parted(backend)
    /\ c.step \in {"pin", "advance", "stateRead", "stateWrite"} => Scoped(c) \in Parted(backend)
CallsHeld == manner = "calm" => \A s \in Slots : calls[s] # None => CallHeld(calls[s])
TInv == TypeOK /\ CallsFit /\ TurnsTell
-----------------------------------------------------------------------------
(* How an operation moves on *)

LEMMA NoneIsNoCall == ASSUME NEW c \in Call PROVE c # None
BY NoneIsNothing

\* The operation of slot s moves on to c, and nothing else does.
LEMMA Moved ==
    ASSUME calls \in [Slots -> Call \cup {None}], NEW s \in Slots,
           NEW c \in Call \cup {None}, calls' = [calls EXCEPT ![s] = c]
    PROVE  /\ calls' \in [Slots -> Call \cup {None}] /\ calls'[s] = c
           /\ \A t \in Slots : t # s => calls'[t] = calls[t]
OBVIOUS

LEMMA NewCallFits ==
    ASSUME NEW kind \in Kinds, NEW step \in {"statusBackend", "wait", "settle"},
           step = "statusBackend" => kind # "edit",
           step = "wait" => kind \in Runs \cup {"edit", "prefs"},
           step = "settle" => kind \in Runs
    PROVE  /\ NewCall(kind, step) \in Call /\ Fits(NewCall(kind, step))
           /\ NewCall(kind, step).kind = kind /\ NewCall(kind, step).step = step
           /\ NewCall(kind, step).again = "done" /\ NewCall(kind, step).file = None
           /\ NewCall(kind, step).read = NoState
<1>1. NoState \in State
  BY DEF NoState, State, Doc
<1> QED BY <1>1 DEF NewCall, Call, Fits, Steps, Doc, Round, Writes, Checks, Looks, Runs

\* The step of the call in a slot decides what can be said of it.
LEMMA CallAt ==
    ASSUME TInv, NEW s \in Slots, NEW step, At(s, step)
    PROVE  calls[s] \in Call /\ calls[s].step = step /\ Fits(calls[s])
BY NoneIsNoCall DEF TInv, TypeOK, CallsFit, At

\* The call goes on to another step.
LEMMA OnTyped ==
    ASSUME NEW s \in Slots, calls[s] \in Call, NEW step \in Steps
    PROVE  LET c == On(s, step)
           IN  /\ c \in Call /\ c.step = step /\ c.kind = calls[s].kind /\ c.repo = calls[s].repo
               /\ c.ignore = calls[s].ignore /\ c.mine = calls[s].mine /\ c.local = calls[s].local
               /\ c.file = calls[s].file /\ c.read = calls[s].read /\ c.again = calls[s].again
BY DEF On, Call
-----------------------------------------------------------------------------
(* The blocks the steps are made of *)

\* What a step of an operation does to the operations.
Moves(s) ==
    /\ calls[s] \in Call
    /\ calls' \in [Slots -> Call \cup {None}] /\ \A t \in Slots : t # s => calls'[t] = calls[t]
    /\ calls'[s] # None => calls'[s] \in Call /\ Fits(calls'[s]) /\ calls'[s].kind = calls[s].kind

LEMMA GoesTo ==
    ASSUME TInv, NEW s \in Slots, calls[s] \in Call, NEW c \in Call, Goto(s, c),
           Fits(c), c.kind = calls[s].kind
    PROVE  Moves(s) /\ calls'[s] = c
BY Moved DEF TInv, TypeOK, Goto, Moves

LEMMA RefreshMoves ==
    ASSUME TInv, NEW s \in Slots, calls[s] \in Call, calls[s].kind # "edit", Refresh(s)
    PROVE  /\ Moves(s) /\ calls'[s] = NewCall(calls[s].kind, "statusBackend")
           /\ calls'[s] # None /\ turns' = turns
<1>1. calls[s].kind \in Kinds
  BY DEF Call
<1>2. /\ NewCall(calls[s].kind, "statusBackend") \in Call /\ Fits(NewCall(calls[s].kind, "statusBackend"))
      /\ NewCall(calls[s].kind, "statusBackend").kind = calls[s].kind
  BY <1>1, NewCallFits
<1> QED BY <1>2, GoesTo, NoneIsNoCall DEF Refresh

LEMMA CheckMoves ==
    ASSUME TInv, NEW s \in Slots, calls[s] \in Call, calls[s].kind \in Runs \cup {"edit", "prefs"},
           CheckDirty(s)
    PROVE  /\ Moves(s) /\ calls'[s] = NewCall(calls[s].kind, "wait")
           /\ calls'[s] # None /\ turns' = Append(turns, s)
<1>1. calls[s].kind \in Kinds
  BY DEF Call
<1>2. /\ NewCall(calls[s].kind, "wait") \in Call /\ Fits(NewCall(calls[s].kind, "wait"))
      /\ NewCall(calls[s].kind, "wait").kind = calls[s].kind
  BY <1>1, NewCallFits
<1> QED BY <1>2, GoesTo, NoneIsNoCall DEF CheckDirty

\* The service has answered, well or not.
Answered(s) ==
    /\ Moves(s) /\ calls'[s] # None /\ turns' = turns
    /\ calls'[s] = NewCall(calls[s].kind, IF calls'[s].step = "settle" THEN "settle" ELSE "statusBackend")
    /\ calls'[s].step \in {"settle", "statusBackend"}
    /\ calls[s].kind = "resolve" => calls'[s].step = "settle"
    /\ busy' \in BOOLEAN /\ conflict' \in BOOLEAN /\ dirty' \in BOOLEAN
    /\ calls[s].kind \in {"run", "configure"} => ~busy'
    /\ calls[s].kind \notin {"run", "configure"} => busy' = busy
    /\ calls[s].kind # "remove" => dirty' = dirty
    /\ calls[s].kind = "remove" => ~dirty'
    /\ UNCHANGED <<messageOpen, status, modal>>

LEMMA SettleAnswers ==
    ASSUME TInv, NEW s \in Slots, calls[s] \in Call, NEW well \in BOOLEAN, NEW left \in BOOLEAN,
           calls[s].kind \in {"run", "configure", "resolve", "remove"}, Settle(s, well, left)
    PROVE  Answered(s) /\ (calls[s].kind = "run" /\ well => calls'[s].step = "settle")
<1> DEFINE k == calls[s].kind
           c == NewCall(k, "settle")
           d == NewCall(k, "statusBackend")
<1>1. {busy, conflict, dirty} \subseteq BOOLEAN
  BY DEF TInv, TypeOK
<1>2. k \in Kinds
  BY DEF Call
<1>3. CASE k = "resolve" \/ (k = "run" /\ well)
  <2>1. c \in Call /\ Fits(c) /\ c.kind = k /\ c.step = "settle"
    BY <1>2, <1>3, NewCallFits DEF Runs
  <2>2. Goto(s, c) /\ turns' = turns
    BY <1>3 DEF Settle
  <2>3. Moves(s) /\ calls'[s] = c
    BY <2>1, <2>2, GoesTo
  <2> HIDE DEF c
  <2>4. busy' \in BOOLEAN /\ conflict' \in BOOLEAN /\ dirty' = (dirty /\ k # "remove") /\ UNCHANGED <<messageOpen, status, modal>>
    BY <1>1 DEF Settle
  <2>5. (k = "run" => ~busy') /\ (k # "run" => busy' = busy)
    BY <1>1, <1>3 DEF Settle
  <2>6. c = NewCall(k, "settle")
    BY DEF c
  <2>7. dirty' = dirty
    BY <1>1, <1>3, <2>4
  <2> HIDE DEF k
  <2>8. k = calls[s].kind
    BY DEF k
  <2> QED BY <1>1, <1>3, <2>1, <2>2, <2>3, <2>4, <2>5, <2>6, <2>7, <2>8, NoneIsNoCall DEF Answered
<1>4. CASE ~(k = "resolve" \/ (k = "run" /\ well))
  <2>1. d \in Call /\ Fits(d) /\ d.kind = k /\ d.step = "statusBackend"
    BY <1>2, NewCallFits
  <2>2. Refresh(s)
    BY <1>4 DEF Settle
  <2>3. Moves(s) /\ calls'[s] = d /\ turns' = turns
    BY <2>2, RefreshMoves
  <2> HIDE DEF d
  <2>4. busy' \in BOOLEAN /\ conflict' \in BOOLEAN /\ dirty' = (dirty /\ k # "remove") /\ UNCHANGED <<messageOpen, status, modal>>
    BY <1>1 DEF Settle
  <2>5. (k \in {"run", "configure"} => ~busy') /\ (k \notin {"run", "configure"} => busy' = busy)
    BY <1>1, <1>4 DEF Settle
  <2>6. d = NewCall(k, "statusBackend")
    BY DEF d
  <2>7. (k # "remove" => dirty' = dirty) /\ (k = "remove" => ~dirty') /\ dirty' \in BOOLEAN
    BY <1>1, <2>4
  <2> HIDE DEF k
  <2>8. k = calls[s].kind
    BY DEF k
  <2> QED BY <1>1, <1>4, <2>1, <2>3, <2>4, <2>5, <2>6, <2>7, <2>8, NoneIsNoCall DEF Answered
<1> QED BY <1>3, <1>4

LEMMA FailAnswers ==
    ASSUME TInv, NEW s \in Slots, calls[s] \in Call, Fits(calls[s]),
           calls[s].kind \in {"run", "configure", "resolve", "remove"}, Fail(s),
           calls[s].again = "done"
    PROVE  \/ Answered(s) /\ calls[s].kind \notin {"run", "configure"}
           \/ Answered(s) /\ calls[s].kind = "run" /\ calls[s].step = "require"
           \/ /\ calls[s].kind \in {"run", "configure"} /\ Moves(s) /\ UNCHANGED <<turns, page>>
              /\ calls'[s] # None /\ calls'[s] = On(s, "errorRead")
<1>1. CASE calls[s].kind = "configure" \/ (calls[s].kind = "run" /\ calls[s].step # "require")
  <2>1. Goto(s, On(s, "errorRead")) /\ UNCHANGED <<turns, page>>
    BY <1>1 DEF Fail
  <2>2. /\ On(s, "errorRead") \in Call /\ On(s, "errorRead").step = "errorRead"
        /\ On(s, "errorRead").kind = calls[s].kind /\ On(s, "errorRead").again = "done"
    BY OnTyped DEF Steps
  <2> DEFINE c == On(s, "errorRead")
  <2> HIDE DEF c
  <2>3. Fits(c)
    BY <1>1, <2>2 DEF c, Fits, Round, Writes, Checks, Looks, Runs
  <2>4. Moves(s) /\ calls'[s] = c
    BY <2>1, <2>2, <2>3, GoesTo DEF c
  <2> QED BY <1>1, <2>1, <2>2, <2>4, NoneIsNoCall DEF c
<1>2. CASE ~(calls[s].kind = "configure" \/ (calls[s].kind = "run" /\ calls[s].step # "require"))
  <2>1. Settle(s, FALSE, FALSE)
    BY <1>2 DEF Fail
  <2> QED BY <1>2, <2>1, SettleAnswers
<1> QED BY <1>1, <1>2

\* The call keeps its kind and takes up something it has read.
LEMMA OnWith ==
    ASSUME NEW s \in Slots, calls[s] \in Call, NEW step \in Steps
    PROVE  /\ \A v \in State : LET c == [On(s, step) EXCEPT !.read = v]
                               IN  c \in Call /\ c = [On(s, step) EXCEPT !.read = v] /\ c.read = v
                                   /\ c.kind = calls[s].kind /\ c.step = step /\ c.repo = calls[s].repo
                                   /\ c.again = calls[s].again /\ c.local = calls[s].local
                                   /\ c.file = calls[s].file /\ c.ignore = calls[s].ignore
                                   /\ c.mine = calls[s].mine
           /\ \A v \in Doc : LET c == [On(s, step) EXCEPT !.local = v]
                             IN  c \in Call /\ c.local = v
                                 /\ c.kind = calls[s].kind /\ c.step = step /\ c.repo = calls[s].repo
                                 /\ c.again = calls[s].again /\ c.read = calls[s].read
                                 /\ c.file = calls[s].file /\ c.ignore = calls[s].ignore
                                 /\ c.mine = calls[s].mine
           /\ \A v \in Doc : LET c == [On(s, step) EXCEPT !.file = v]
                             IN  c \in Call /\ c.file = v
                                 /\ c.kind = calls[s].kind /\ c.step = step /\ c.repo = calls[s].repo
                                 /\ c.again = calls[s].again /\ c.read = calls[s].read
                                 /\ c.local = calls[s].local /\ c.ignore = calls[s].ignore
                                 /\ c.mine = calls[s].mine
           /\ \A v \in Repos : LET c == [On(s, step) EXCEPT !.repo = v]
                             IN  c \in Call /\ c.repo = v
                                 /\ c.kind = calls[s].kind /\ c.step = step /\ c.file = calls[s].file
                                 /\ c.again = calls[s].again /\ c.read = calls[s].read
                                 /\ c.local = calls[s].local /\ c.ignore = calls[s].ignore
                                 /\ c.mine = calls[s].mine
           /\ \A v \in BOOLEAN : LET c == [On(s, step) EXCEPT !.ignore = v]
                             IN  c \in Call /\ c.ignore = v
                                 /\ c.kind = calls[s].kind /\ c.step = step /\ c.file = calls[s].file
                                 /\ c.again = calls[s].again /\ c.read = calls[s].read
                                 /\ c.local = calls[s].local /\ c.repo = calls[s].repo
                                 /\ c.mine = calls[s].mine
BY DEF On, Call

LEMMA InScopeTyped ==
    ASSUME NEW s, NEW v \in Doc PROVE InScope(s, v) \in Doc
BY DEF InScope, Doc
-----------------------------------------------------------------------------
(* What each answer does to the operation that awaited it *)

LEMMA OpensMoves ==
    ASSUME TInv, NEW s \in Slots, Opens(s)
    PROVE  Moves(s) /\ calls'[s] # None /\ calls'[s] = On(s, "register")
<1>1. calls[s] \in Call /\ calls[s].step = "open" /\ Fits(calls[s])
  BY CallAt DEF Opens
<1>2. Goto(s, On(s, "register"))
  BY DEF Opens
<1> DEFINE c == On(s, "register")
<1>3. c \in Call /\ c.step = "register" /\ c.kind = calls[s].kind /\ c.repo = calls[s].repo /\ c.again = calls[s].again
  BY <1>1, OnTyped DEF Steps
<1> HIDE DEF c
<1>4. Fits(c)
  BY <1>1, <1>3 DEF Fits, Steps, Round, Writes, Checks, Looks, Runs
<1>5. Goto(s, c)
  BY <1>2 DEF c
<1>6. Moves(s) /\ calls'[s] = c
  BY <1>1, <1>3, <1>4, <1>5, GoesTo
<1> QED BY <1>3, <1>6, NoneIsNoCall DEF c

LEMMA rememberScopeMoves ==
    ASSUME TInv, NEW s \in Slots, rememberScope(s)
    PROVE  Moves(s) /\ calls'[s] # None /\ calls'[s] = On(s, "collect")
<1>1. calls[s] \in Call /\ calls[s].step = "scopeWrite" /\ Fits(calls[s])
  BY CallAt DEF rememberScope, WriteState
<1>2. Goto(s, On(s, "collect"))
  BY DEF rememberScope, WriteState
<1> DEFINE c == On(s, "collect")
<1>3. c \in Call /\ c.step = "collect" /\ c.kind = calls[s].kind /\ c.repo = calls[s].repo /\ c.again = calls[s].again
  BY <1>1, OnTyped DEF Steps
<1> HIDE DEF c
<1>4. Fits(c)
  BY <1>1, <1>3 DEF Fits, Steps, Round, Writes, Checks, Looks, Runs
<1>5. Goto(s, c)
  BY <1>2 DEF c
<1>6. Moves(s) /\ calls'[s] = c
  BY <1>1, <1>3, <1>4, <1>5, GoesTo
<1> QED BY <1>3, <1>6, NoneIsNoCall DEF c

LEMMA PullMoves ==
    ASSUME TInv, NEW s \in Slots, Pull(s)
    PROVE  Moves(s) /\ calls'[s] # None /\ calls'[s] = On(s, "advance")
<1>1. calls[s] \in Call /\ calls[s].step = "pull" /\ Fits(calls[s])
  BY CallAt DEF Pull, Takes
<1>2. Goto(s, On(s, "advance"))
  BY DEF Pull, Takes
<1> DEFINE c == On(s, "advance")
<1>3. c \in Call /\ c.step = "advance" /\ c.kind = calls[s].kind /\ c.repo = calls[s].repo /\ c.again = calls[s].again
  BY <1>1, OnTyped DEF Steps
<1> HIDE DEF c
<1>4. Fits(c)
  BY <1>1, <1>3 DEF Fits, Steps, Round, Writes, Checks, Looks, Runs
<1>5. Goto(s, c)
  BY <1>2 DEF c
<1>6. Moves(s) /\ calls'[s] = c
  BY <1>1, <1>3, <1>4, <1>5, GoesTo
<1> QED BY <1>3, <1>6, NoneIsNoCall DEF c

LEMMA PushMoves ==
    ASSUME TInv, NEW s \in Slots, Push(s)
    PROVE  Moves(s) /\ calls'[s] # None /\ calls'[s] = On(s, "advance")
<1>1. calls[s] \in Call /\ calls[s].step = "push" /\ Fits(calls[s])
  BY CallAt DEF Push, Sends
<1>2. Goto(s, On(s, "advance"))
  BY DEF Push, Sends
<1> DEFINE c == On(s, "advance")
<1>3. c \in Call /\ c.step = "advance" /\ c.kind = calls[s].kind /\ c.repo = calls[s].repo /\ c.again = calls[s].again
  BY <1>1, OnTyped DEF Steps
<1> HIDE DEF c
<1>4. Fits(c)
  BY <1>1, <1>3 DEF Fits, Steps, Round, Writes, Checks, Looks, Runs
<1>5. Goto(s, c)
  BY <1>2 DEF c
<1>6. Moves(s) /\ calls'[s] = c
  BY <1>1, <1>3, <1>4, <1>5, GoesTo
<1> QED BY <1>3, <1>6, NoneIsNoCall DEF c

LEMMA PushUnansweredMoves ==
    ASSUME TInv, NEW s \in Slots, PushUnanswered(s)
    PROVE  Moves(s) /\ calls'[s] # None /\ calls'[s] = On(s, "errorRead")
<1>1. calls[s] \in Call /\ calls[s].step = "push" /\ Fits(calls[s])
  BY CallAt DEF PushUnanswered, Sends
<1>2. Goto(s, On(s, "errorRead"))
  BY DEF PushUnanswered, Sends
<1> DEFINE c == On(s, "errorRead")
<1>3. c \in Call /\ c.step = "errorRead" /\ c.kind = calls[s].kind /\ c.repo = calls[s].repo /\ c.again = calls[s].again
  BY <1>1, OnTyped DEF Steps
<1> HIDE DEF c
<1>4. Fits(c)
  BY <1>1, <1>3 DEF Fits, Steps, Round, Writes, Checks, Looks, Runs
<1>5. Goto(s, c)
  BY <1>2 DEF c
<1>6. Moves(s) /\ calls'[s] = c
  BY <1>1, <1>3, <1>4, <1>5, GoesTo
<1> QED BY <1>3, <1>6, NoneIsNoCall DEF c

LEMMA writeSnapshotEntryMoves ==
    ASSUME TInv, NEW s \in Slots, writeSnapshotEntry(s)
    PROVE  Moves(s) /\ calls'[s] # None /\ calls'[s] = On(s, "advance")
<1>1. calls[s] \in Call /\ calls[s].step = "pin" /\ Fits(calls[s])
  BY CallAt DEF writeSnapshotEntry, WriteState
<1>2. Goto(s, On(s, "advance"))
  BY DEF writeSnapshotEntry, WriteState
<1> DEFINE c == On(s, "advance")
<1>3. c \in Call /\ c.step = "advance" /\ c.kind = calls[s].kind /\ c.repo = calls[s].repo /\ c.again = calls[s].again
  BY <1>1, OnTyped DEF Steps
<1> HIDE DEF c
<1>4. Fits(c)
  BY <1>1, <1>3 DEF Fits, Steps, Round, Writes, Checks, Looks, Runs
<1>5. Goto(s, c)
  BY <1>2 DEF c
<1>6. Moves(s) /\ calls'[s] = c
  BY <1>1, <1>3, <1>4, <1>5, GoesTo
<1> QED BY <1>3, <1>6, NoneIsNoCall DEF c

LEMMA advanceSnapshotMoves ==
    ASSUME TInv, NEW s \in Slots, advanceSnapshot(s)
    PROVE  Moves(s) /\ calls'[s] # None /\ calls'[s] = On(s, "clearRead")
<1>1. calls[s] \in Call /\ calls[s].step = "stateWrite" /\ Fits(calls[s])
  BY CallAt DEF advanceSnapshot, WriteState
<1>2. Goto(s, On(s, "clearRead"))
  BY DEF advanceSnapshot, WriteState
<1> DEFINE c == On(s, "clearRead")
<1>3. c \in Call /\ c.step = "clearRead" /\ c.kind = calls[s].kind /\ c.repo = calls[s].repo /\ c.again = calls[s].again
  BY <1>1, OnTyped DEF Steps
<1> HIDE DEF c
<1>4. Fits(c)
  BY <1>1, <1>3 DEF Fits, Steps, Round, Writes, Checks, Looks, Runs
<1>5. Goto(s, c)
  BY <1>2 DEF c
<1>6. Moves(s) /\ calls'[s] = c
  BY <1>1, <1>3, <1>4, <1>5, GoesTo
<1> QED BY <1>3, <1>6, NoneIsNoCall DEF c

LEMMA RegisterMoves ==
    ASSUME TInv, NEW s \in Slots, Register(s)
    PROVE  Answered(s) /\ calls[s].step = "register"
<1>1. calls[s] \in Call /\ calls[s].step = "register" /\ Fits(calls[s])
  BY CallAt DEF Register
<1>2. Settle(s, TRUE, FALSE)
  BY DEF Register
<1>3. calls[s].kind \in {"run", "configure", "resolve", "remove"}
  BY <1>1 DEF Fits, Steps, Round, Writes, Checks, Looks, Runs
<1> QED BY <1>1, <1>2, <1>3, SettleAnswers

LEMMA ForgetMoves ==
    ASSUME TInv, NEW s \in Slots, Forget(s)
    PROVE  Answered(s) /\ calls[s].step = "forget"
<1>1. calls[s] \in Call /\ calls[s].step = "forget" /\ Fits(calls[s])
  BY CallAt DEF Forget
<1>2. Settle(s, TRUE, FALSE)
  BY DEF Forget
<1>3. calls[s].kind \in {"run", "configure", "resolve", "remove"}
  BY <1>1 DEF Fits, Steps, Round, Writes, Checks, Looks, Runs
<1> QED BY <1>1, <1>2, <1>3, SettleAnswers

LEMMA ForgetFailsMoves ==
    ASSUME TInv, NEW s \in Slots, ForgetFails(s)
    PROVE  Answered(s) /\ calls[s].step = "forget"
<1>1. calls[s] \in Call /\ calls[s].step = "forget" /\ Fits(calls[s])
  BY CallAt DEF ForgetFails
<1>2. Settle(s, FALSE, FALSE)
  BY DEF ForgetFails
<1>3. calls[s].kind \in {"run", "configure", "resolve", "remove"}
  BY <1>1 DEF Fits, Steps, Round, Writes, Checks, Looks, Runs
<1> QED BY <1>1, <1>2, <1>3, SettleAnswers

LEMMA clearErrorMoves ==
    ASSUME TInv, NEW s \in Slots, clearError(s)
    PROVE  Answered(s) /\ calls[s].step = "clearWrite" /\ calls'[s].step = "settle"
<1>1. calls[s] \in Call /\ calls[s].step = "clearWrite" /\ Fits(calls[s])
  BY CallAt DEF clearError, WriteState
<1>2. Settle(s, TRUE, FALSE)
  BY DEF clearError, WriteState
<1>3. calls[s].kind \in {"run", "configure", "resolve", "remove"}
  BY <1>1 DEF Fits, Steps, Round, Writes, Checks, Looks, Runs
<1> QED BY <1>1, <1>2, <1>3, SettleAnswers DEF Answered, Fits, Runs, Round, Writes

LEMMA recordErrorMoves ==
    ASSUME TInv, NEW s \in Slots, recordError(s)
    PROVE  Answered(s) /\ calls[s].step = "errorWrite"
<1>1. calls[s] \in Call /\ calls[s].step = "errorWrite" /\ Fits(calls[s])
  BY CallAt DEF recordError, WriteState
<1>2. Settle(s, FALSE, FALSE)
  BY DEF recordError, WriteState
<1>3. calls[s].kind \in {"run", "configure", "resolve", "remove"}
  BY <1>1 DEF Fits, Steps, Round, Writes, Checks, Looks, Runs
<1> QED BY <1>1, <1>2, <1>3, SettleAnswers

LEMMA ReadStateMoves ==
    ASSUME TInv, NEW s \in Slots, NEW step, NEW next,
           <<step, next>> \in {<<"scopeRead", "scopeWrite">>, <<"recheck", "answer">>,
                               <<"stateRead", "stateWrite">>, <<"clearRead", "clearWrite">>,
                               <<"errorRead", "errorWrite">>},
           ReadState(s, step, next)
    PROVE  Moves(s) /\ calls'[s] # None /\ calls'[s] = [On(s, next) EXCEPT !.read = saved]
<1> DEFINE c == [On(s, next) EXCEPT !.read = saved]
<1>1. calls[s] \in Call /\ calls[s].step = step /\ Fits(calls[s])
  BY CallAt DEF ReadState
<1>2. saved \in State /\ next \in Steps
  BY DEF TInv, TypeOK, Steps
<1>3. c \in Call /\ c.step = next /\ c.kind = calls[s].kind /\ c.repo = calls[s].repo /\ c.again = calls[s].again
  BY <1>1, <1>2, OnWith
<1>4. Goto(s, c)
  BY DEF ReadState
<1> HIDE DEF c
<1>5. Fits(c)
  BY <1>1, <1>3 DEF Fits, Round, Writes, Checks, Looks, Runs
<1> QED BY <1>1, <1>3, <1>4, <1>5, GoesTo, NoneIsNoCall DEF c

LEMMA collectLocalMoves ==
    ASSUME TInv, NEW s \in Slots, NEW step, NEW next,
           <<step, next>> \in {<<"collect", "list">>, <<"advance", "stateRead">>,
                               <<"dirtyLocal", "dirtyState">>},
           collectLocal(s, step, next)
    PROVE  Moves(s) /\ calls'[s] # None /\ calls'[s] = [On(s, next) EXCEPT !.local = InScope(s, local)]
<1> DEFINE c == [On(s, next) EXCEPT !.local = InScope(s, local)]
<1>1. calls[s] \in Call /\ calls[s].step = step /\ Fits(calls[s])
  BY CallAt DEF collectLocal
<1>2. InScope(s, local) \in Doc /\ next \in Steps
  BY InScopeTyped DEF TInv, TypeOK, Steps
<1>3. c \in Call /\ c.step = next /\ c.kind = calls[s].kind /\ c.repo = calls[s].repo /\ c.again = calls[s].again
  BY <1>1, <1>2, OnWith
<1>4. Goto(s, c)
  BY DEF collectLocal
<1> HIDE DEF c
<1>5. Fits(c)
  BY <1>1, <1>3 DEF Fits, Round, Writes, Checks, Looks, Runs
<1> QED BY <1>1, <1>3, <1>4, <1>5, GoesTo, NoneIsNoCall DEF c

LEMMA ListMoves ==
    ASSUME TInv, NEW s \in Slots, List(s)
    PROVE  /\ Moves(s) /\ calls'[s] # None /\ calls[s].repo \in Repos
           /\ calls'[s] = [On(s, "base") EXCEPT !.file = InScope(s, remote[calls[s].repo])]
<1> DEFINE c == [On(s, "base") EXCEPT !.file = InScope(s, remote[calls[s].repo])]
<1>1. calls[s] \in Call /\ calls[s].step = "list" /\ Fits(calls[s])
  BY CallAt DEF List
<1>2. calls[s].repo \in Repos
  BY <1>1 DEF Fits, Round
<1>3. remote[calls[s].repo] \in Doc
  BY <1>2 DEF TInv, TypeOK
<1>4. InScope(s, remote[calls[s].repo]) \in Doc
  BY <1>3, InScopeTyped
<1>5. c \in Call /\ c.step = "base" /\ c.kind = calls[s].kind /\ c.repo = calls[s].repo /\ c.again = calls[s].again
  BY <1>1, <1>4, OnWith DEF Steps
<1>6. Goto(s, c)
  BY DEF List
<1> HIDE DEF c
<1>7. Fits(c)
  BY <1>1, <1>5 DEF Fits, Round, Writes, Checks, Looks, Runs
<1> QED BY <1>1, <1>2, <1>5, <1>6, <1>7, GoesTo, NoneIsNoCall DEF c

LEMMA FlushMoves ==
    ASSUME TInv, NEW s \in Slots, Flush(s)
    PROVE  /\ Moves(s) /\ calls'[s] # None /\ calls[s].kind = "run" /\ calls[s].step = "flush"
           /\ calls'[s] = [NewCall("run", "statusBackend") EXCEPT !.again = "require"]
<1> DEFINE n == NewCall("run", "statusBackend")
           c == [n EXCEPT !.again = "require"]
<1>1. calls[s] \in Call /\ calls[s].step = "flush" /\ Fits(calls[s])
  BY CallAt DEF Flush
<1>2. calls[s].kind = "run"
  BY <1>1 DEF Fits
<1>3. n \in Call /\ Fits(n) /\ n.kind = "run" /\ n.step = "statusBackend" /\ ignore \in BOOLEAN
  BY NewCallFits DEF Kinds, TInv, TypeOK
<1>4. Goto(s, c)
  BY DEF Flush
<1> HIDE DEF n
<1>5. c \in Call /\ c.kind = "run" /\ c.step = "statusBackend" /\ c.again = "require"
  BY <1>3 DEF Call, Steps
<1>6. c # None
  BY <1>5, NoneIsNoCall
<1> HIDE DEF c
<1>7. Fits(c)
  BY <1>5 DEF Fits, Round, Writes, Checks, Looks, Runs
<1>8. Moves(s) /\ calls'[s] = c
  BY <1>1, <1>2, <1>4, <1>5, <1>7, GoesTo
<1> QED BY <1>1, <1>2, <1>6, <1>8 DEF c, n

LEMMA requireBackendMoves ==
    ASSUME TInv, NEW s \in Slots, requireBackend(s)
    PROVE  /\ calls[s].step = "require" /\ calls[s].kind \in Runs
           /\ \/ backend = None /\ Answered(s)
              \/ /\ backend # None /\ Moves(s) /\ calls'[s] # None /\ UNCHANGED <<turns, page>>
                 /\ calls'[s] = [On(s, IF calls[s].kind = "run" THEN "scopeRead" ELSE "recall")
                                    EXCEPT !.repo = backend]
<1>1. calls[s] \in Call /\ calls[s].step = "require" /\ Fits(calls[s])
  BY CallAt DEF requireBackend
<1>2. calls[s].kind \in Runs /\ calls[s].again = "done"
  BY <1>1 DEF Fits, Looks
<1>3. CASE backend = None
  <2>1. Fail(s)
    BY <1>3 DEF requireBackend
  <2>2. Answered(s)
    BY <1>1, <1>2, <2>1, SettleAnswers DEF Fail, Runs
  <2> QED BY <1>1, <1>2, <1>3, <2>2
<1>4. CASE backend # None
  <2> DEFINE next == IF calls[s].kind = "run" THEN "scopeRead" ELSE "recall"
             c == [On(s, next) EXCEPT !.repo = backend]
  <2>1. backend \in Repos
    BY <1>4 DEF TInv, TypeOK
  <2>2. next \in Steps
    BY DEF Steps
  <2>3. c \in Call /\ c.step = next /\ c.kind = calls[s].kind /\ c.repo = backend /\ c.again = calls[s].again
    BY <1>1, <2>1, <2>2, OnWith
  <2>4. Goto(s, c) /\ UNCHANGED <<turns, page>>
    BY <1>4 DEF requireBackend
  <2>5. (next = "scopeRead" /\ calls[s].kind = "run") \/ (next = "recall" /\ calls[s].kind = "resolve")
    BY <1>2 DEF Runs
  <2> HIDE DEF c
  <2>6. Fits(c)
    BY <1>1, <1>2, <2>1, <2>3, <2>5 DEF Fits, Round, Writes, Checks, Looks, Runs
  <2> QED BY <1>1, <1>2, <1>4, <2>3, <2>4, <2>6, GoesTo, NoneIsNoCall DEF c
<1> QED BY <1>3, <1>4

LEMMA readScopeMoves ==
    ASSUME TInv, NEW s \in Slots, readScopeForResolve(s)
    PROVE  /\ calls[s].step = "recall" /\ calls[s].kind = "resolve"
           /\ \/ Answered(s)
              \/ /\ Moves(s) /\ calls'[s] # None /\ UNCHANGED <<turns, page>>
                 /\ calls'[s] = [On(s, "scopeRead") EXCEPT !.ignore = saved.scope]
<1>1. calls[s] \in Call /\ calls[s].step = "recall" /\ Fits(calls[s])
  BY CallAt DEF readScopeForResolve
<1>2. calls[s].kind = "resolve" /\ calls[s].again = "done" /\ calls[s].repo \in Repos
  BY <1>1 DEF Fits, Looks
<1>3. CASE saved.scope = None
  BY <1>1, <1>2, <1>3, SettleAnswers DEF Fail, readScopeForResolve
<1>4. CASE saved.scope # None
  <2> DEFINE c == [On(s, "scopeRead") EXCEPT !.ignore = saved.scope]
  <2>1. saved.scope \in BOOLEAN
    BY <1>4 DEF TInv, TypeOK, State
  <2>2. c \in Call /\ c.step = "scopeRead" /\ c.kind = calls[s].kind /\ c.repo = calls[s].repo /\ c.again = calls[s].again
    BY <1>1, <2>1, OnWith DEF Steps
  <2>3. Goto(s, c) /\ UNCHANGED <<turns, page>>
    BY <1>4 DEF readScopeForResolve
  <2> HIDE DEF c
  <2>4. Fits(c)
    BY <1>1, <1>2, <2>2 DEF Fits, Round, Writes, Checks, Looks, Runs
  <2> QED BY <1>1, <1>2, <2>2, <2>3, <2>4, GoesTo, NoneIsNoCall DEF c
<1> QED BY <1>3, <1>4

LEMMA DecideMoves ==
    ASSUME TInv, NEW s \in Slots, Decide(s)
    PROVE  /\ calls[s].step = "base" /\ calls[s].kind \in Runs
           /\ \/ Answered(s) /\ calls'[s].step = "settle"
              \/ /\ Moves(s) /\ calls'[s] # None /\ UNCHANGED <<turns, page>>
                 /\ calls[s].kind = "resolve" /\ calls'[s] = [On(s, "recheck") EXCEPT !.read = saved]
              \/ /\ Moves(s) /\ calls'[s] # None /\ UNCHANGED <<turns, page>> /\ calls[s].kind = "run"
                 /\ \E step \in {"advance", "push", "pull"} : calls'[s] = On(s, step)
<1> DEFINE plan == Plan(InScope(s, saved.snapshot), calls[s].local, calls[s].file)
           step == IF plan = "nothing" THEN "advance" ELSE plan
<1>1. calls[s] \in Call /\ calls[s].step = "base" /\ Fits(calls[s])
  BY CallAt DEF Decide
<1>2. calls[s].kind \in Runs /\ calls[s].again = "done" /\ calls[s].repo \in Repos
  BY <1>1 DEF Fits, Looks, Round
<1>3. CASE calls[s].kind = "resolve" /\ plan # "conflict"
  <2>1. Fail(s)
    BY <1>3 DEF Decide
  <2>2. Settle(s, FALSE, FALSE)
    BY <1>3, <2>1 DEF Fail
  <2>3. Answered(s)
    BY <1>1, <1>3, <2>2, SettleAnswers
  <2> QED BY <1>1, <1>2, <1>3, <2>3 DEF Answered
<1>4. CASE calls[s].kind = "resolve" /\ plan = "conflict"
  <2> DEFINE c == [On(s, "recheck") EXCEPT !.read = saved]
  <2>1. Goto(s, c) /\ UNCHANGED <<turns, page>>
    BY <1>4 DEF Decide
  <2>2. saved \in State
    BY DEF TInv, TypeOK
  <2>3. c \in Call /\ c.step = "recheck" /\ c.kind = calls[s].kind /\ c.repo = calls[s].repo /\ c.again = calls[s].again
    BY <1>1, <2>2, OnWith DEF Steps
  <2> HIDE DEF c
  <2>4. Fits(c)
    BY <1>2, <1>4, <2>3 DEF Fits, Round, Writes, Checks, Looks, Runs
  <2> QED BY <1>1, <1>2, <1>4, <2>1, <2>3, <2>4, GoesTo, NoneIsNoCall DEF c
<1>5. CASE calls[s].kind = "run" /\ plan = "conflict"
  <2>1. Settle(s, TRUE, TRUE)
    BY <1>5 DEF Decide
  <2>2. Answered(s) /\ calls'[s].step = "settle"
    BY <1>1, <1>5, <2>1, SettleAnswers
  <2> QED BY <1>1, <1>2, <2>2
<1>6. CASE calls[s].kind = "run" /\ plan # "conflict"
  <2>1. Goto(s, On(s, step)) /\ UNCHANGED <<turns, page>>
    BY <1>6 DEF Decide
  <2>2. step \in {"advance", "push", "pull"}
    BY <1>6 DEF Plan
  <2> HIDE DEF step
  <2> DEFINE c == On(s, step)
  <2>3. c \in Call /\ c.step = step /\ c.kind = calls[s].kind /\ c.repo = calls[s].repo /\ c.again = calls[s].again
    BY <1>1, <2>2, OnTyped DEF Steps
  <2> HIDE DEF c
  <2>4. Fits(c)
    BY <1>2, <1>6, <2>2, <2>3 DEF Fits, Round, Writes, Checks, Looks, Runs
  <2>5. Moves(s) /\ calls'[s] = c
    BY <1>1, <2>1, <2>3, <2>4, GoesTo DEF c
  <2> QED BY <1>1, <1>2, <1>6, <2>1, <2>2, <2>3, <2>5, NoneIsNoCall DEF c
<1> QED BY <1>2, <1>3, <1>4, <1>5, <1>6 DEF Runs

LEMMA PinMoves ==
    ASSUME TInv, NEW s \in Slots, calls[s] \in Call, calls[s].step = "answer", Fits(calls[s]),
           Goto(s, On(s, "pin"))
    PROVE  Moves(s) /\ calls'[s] # None /\ calls'[s] = On(s, "pin")
<1> DEFINE c == On(s, "pin")
<1>1. c \in Call /\ c.step = "pin" /\ c.kind = calls[s].kind /\ c.repo = calls[s].repo /\ c.again = calls[s].again
  BY OnTyped DEF Steps
<1> HIDE DEF c
<1>2. Fits(c)
  BY <1>1 DEF Fits, Round, Writes, Checks, Looks, Runs
<1>3. Goto(s, c)
  BY DEF c
<1> QED BY <1>1, <1>2, <1>3, GoesTo, NoneIsNoCall DEF c

LEMMA AnswerMineMoves ==
    ASSUME TInv, NEW s \in Slots, AnswerMine(s)
    PROVE  /\ calls[s].step = "answer" /\ calls[s].kind = "resolve"
           /\ \/ Answered(s) /\ UNCHANGED stores
              \/ /\ Moves(s) /\ calls'[s] # None /\ calls'[s] = On(s, "pin")
                 /\ calls[s].mine /\ Sends(s, "pin")
<1>1. calls[s] \in Call /\ calls[s].step = "answer" /\ Fits(calls[s])
  BY CallAt DEF AnswerMine
<1>2. calls[s].kind = "resolve" /\ calls[s].again = "done"
  BY <1>1 DEF Fits, Looks
<1>3. CASE calls[s].local = None
  <2>1. Fail(s) /\ UNCHANGED stores
    BY <1>3 DEF AnswerMine
  <2>2. Settle(s, FALSE, FALSE)
    BY <1>2, <2>1 DEF Fail
  <2> QED BY <1>1, <1>2, <2>1, <2>2, SettleAnswers
<1>4. CASE calls[s].local # None
  <2>1. Sends(s, "pin") /\ calls[s].mine
    BY <1>4 DEF AnswerMine
  <2>2. Goto(s, On(s, "pin"))
    BY <2>1 DEF Sends
  <2> QED BY <1>1, <1>2, <2>1, <2>2, PinMoves
<1> QED BY <1>3, <1>4

LEMMA AnswerTheirsMoves ==
    ASSUME TInv, NEW s \in Slots, AnswerTheirs(s)
    PROVE  /\ calls[s].step = "answer" /\ calls[s].kind = "resolve" /\ ~calls[s].mine
           /\ Moves(s) /\ calls'[s] # None /\ calls'[s] = On(s, "pin")
<1>1. calls[s] \in Call /\ calls[s].step = "answer" /\ Fits(calls[s])
  BY CallAt DEF AnswerTheirs
<1>2. calls[s].kind = "resolve" /\ ~calls[s].mine
  BY <1>1 DEF Fits, AnswerTheirs
<1>3. Goto(s, On(s, "pin"))
  BY DEF AnswerTheirs, Takes
<1> QED BY <1>1, <1>2, <1>3, PinMoves

LEMMA NetworkFailsMoves ==
    ASSUME TInv, NEW s \in Slots, NetworkFails(s)
    PROVE  /\ calls[s].step \in {"open", "list", "push", "answer"}
           /\ \/ Answered(s) /\ calls[s].kind = "resolve"
              \/ /\ calls[s].kind \in {"run", "configure"} /\ Moves(s) /\ UNCHANGED <<turns, page>>
                 /\ calls'[s] # None /\ calls'[s] = On(s, "errorRead")
<1>1. PICK step \in {"open", "list", "push", "answer"} : At(s, step)
  BY DEF NetworkFails
<1>2. calls[s] \in Call /\ calls[s].step = step /\ Fits(calls[s])
  BY <1>1, CallAt
<1>3. calls[s].kind \in {"run", "configure", "resolve"} /\ calls[s].again = "done" /\ calls[s].step # "require"
  BY <1>2 DEF Fits, Looks, Round, Runs
<1>4. Fail(s)
  BY DEF NetworkFails
<1> QED BY <1>2, <1>3, <1>4, FailAnswers

LEMMA StorePreferenceMoves ==
    ASSUME TInv, NEW s \in Slots, StorePreference(s)
    PROVE  /\ Moves(s) /\ calls'[s] # None /\ calls[s].step = "store" /\ calls[s].kind = "prefs"
           /\ \/ ignore' # ignore /\ turns' = Append(turns, s) /\ calls'[s] = NewCall("prefs", "wait")
              \/ ignore' = ignore /\ turns' = turns /\ calls'[s] = NewCall("prefs", "statusBackend")
           /\ ignore' \in BOOLEAN /\ auto' \in BOOLEAN
<1>1. calls[s] \in Call /\ calls[s].step = "store" /\ Fits(calls[s])
  BY CallAt DEF StorePreference
<1>2. calls[s].kind = "prefs"
  BY <1>1 DEF Fits
<1>3. ignore \in BOOLEAN /\ auto \in BOOLEAN
  BY DEF TInv, TypeOK
<1>4. CASE calls[s].mine
  <2>1. ignore' = ~ignore /\ auto' = auto /\ CheckDirty(s)
    BY <1>4 DEF StorePreference
  <2>2. Moves(s) /\ calls'[s] = NewCall("prefs", "wait") /\ calls'[s] # None /\ turns' = Append(turns, s)
    BY <1>1, <1>2, <2>1, CheckMoves
  <2> QED BY <1>1, <1>2, <1>3, <2>1, <2>2
<1>5. CASE ~calls[s].mine
  <2>1. auto' = ~auto /\ ignore' = ignore /\ Refresh(s)
    BY <1>5 DEF StorePreference
  <2>2. /\ Moves(s) /\ calls'[s] = NewCall("prefs", "statusBackend") /\ calls'[s] # None
        /\ turns' = turns
    BY <1>1, <1>2, <2>1, RefreshMoves
  <2> QED BY <1>1, <1>2, <1>3, <2>1, <2>2
<1> QED BY <1>4, <1>5

LEMMA onSettledMoves ==
    ASSUME TInv, NEW s \in Slots, onSettled(s)
    PROVE  /\ Moves(s) /\ calls'[s] # None /\ calls[s].step = "settle" /\ calls[s].kind \in Runs
           /\ calls'[s] = NewCall(calls[s].kind, "wait") /\ turns' = Append(turns, s)
<1>1. calls[s] \in Call /\ calls[s].step = "settle" /\ Fits(calls[s])
  BY CallAt DEF onSettled
<1>2. calls[s].kind \in Runs
  BY <1>1 DEF Fits
<1> QED BY <1>1, <1>2, CheckMoves DEF onSettled

LEMMA StartDirtyMoves ==
    ASSUME TInv, NEW s \in Slots, StartDirty(s)
    PROVE  /\ Moves(s) /\ calls'[s] # None /\ calls[s].step = "wait"
           /\ calls'[s] = [On(s, "dirtyBackend") EXCEPT !.ignore = ignore]
<1> DEFINE c == [On(s, "dirtyBackend") EXCEPT !.ignore = ignore]
<1>1. calls[s] \in Call /\ calls[s].step = "wait" /\ Fits(calls[s])
  BY CallAt DEF StartDirty
<1>2. ignore \in BOOLEAN
  BY DEF TInv, TypeOK
<1>3. c \in Call /\ c.step = "dirtyBackend" /\ c.kind = calls[s].kind /\ c.repo = calls[s].repo /\ c.again = calls[s].again
  BY <1>1, <1>2, OnWith DEF Steps
<1>4. Goto(s, c)
  BY DEF StartDirty
<1> HIDE DEF c
<1>5. Fits(c)
  BY <1>1, <1>3 DEF Fits, Round, Writes, Checks, Looks, Runs
<1> QED BY <1>1, <1>3, <1>4, <1>5, GoesTo, NoneIsNoCall DEF c

\* A check is done: its answer is taken, and the operation ends or refreshes.
Checked(s, pending) ==
    /\ Moves(s) /\ calls[s].step \in {"dirtyBackend", "dirtyState"} /\ turns' = Tail(turns)
    /\ \/ calls'[s] = None /\ calls[s].kind = "edit"
       \/ /\ calls'[s] # None /\ calls[s].kind # "edit"
          /\ calls'[s] = NewCall(calls[s].kind, "statusBackend")
    /\ pending \in BOOLEAN /\ dirty' = pending
    /\ status = None => status' = None
    /\ status # None =>
          /\ status' \in Status /\ status'.configured = status.configured /\ status'.busy = status.busy
          /\ status'.error = status.error /\ status'.synced = status.synced
          /\ status'.clean => \/ status.clean /\ pending = dirty
                              \/ ~pending /\ status.configured /\ ~status.error /\ status.synced
    /\ UNCHANGED <<user, stores, busy, conflict, messageOpen, modal>>

LEMMA CleanSet ==
    ASSUME NEW st \in Status, NEW clean \in BOOLEAN
    PROVE  LET r == [st EXCEPT !.clean = clean]
           IN  /\ r \in Status /\ r.configured = st.configured /\ r.busy = st.busy
               /\ r.error = st.error /\ r.synced = st.synced /\ r.clean = clean
BY DEF Status

LEMMA CleanTyped ==
    ASSUME TInv, NEW st \in Status, NEW pending \in BOOLEAN
    PROVE  Clean(st, pending) \in BOOLEAN
BY DEF Clean, TInv, TypeOK, Status

LEMMA CheckDone ==
    ASSUME TInv, NEW s \in Slots, calls[s] \in Call, Fits(calls[s]),
           calls[s].step \in {"dirtyBackend", "dirtyState"}, NEW pending \in BOOLEAN, Dirty(s, pending)
    PROVE  Checked(s, pending)
<1>1. /\ Moves(s)
      /\ \/ calls'[s] = None /\ calls[s].kind = "edit"
         \/ /\ calls'[s] # None /\ calls[s].kind # "edit"
            /\ calls'[s] = NewCall(calls[s].kind, "statusBackend")
  <2>1. CASE calls[s].kind = "edit"
    <3>1. calls' = [calls EXCEPT ![s] = None]
      BY <2>1 DEF Dirty, End, Goto
    <3> QED BY <2>1, <3>1, Moved DEF Moves, TInv, TypeOK
  <2>2. CASE calls[s].kind # "edit"
    <3> DEFINE c == NewCall(calls[s].kind, "statusBackend")
    <3>1. Goto(s, c)
      BY <2>2 DEF Dirty
    <3>2. c \in Call /\ Fits(c) /\ c.kind = calls[s].kind
      BY <2>2, NewCallFits DEF Call
    <3> HIDE DEF c
    <3> QED BY <2>2, <3>1, <3>2, GoesTo, NoneIsNoCall DEF c
  <2> QED BY <2>1, <2>2
<1>2. dirty' = pending /\ turns' = Tail(turns) /\ UNCHANGED <<user, stores, busy, conflict, messageOpen, modal>>
  BY DEF Dirty
<1>3. /\ status = None => status' = None
      /\ status # None =>
          /\ status' \in Status /\ status'.configured = status.configured /\ status'.busy = status.busy
          /\ status'.error = status.error /\ status'.synced = status.synced
          /\ status'.clean => \/ status.clean /\ pending = dirty
                              \/ ~pending /\ status.configured /\ ~status.error /\ status.synced
  <2>1. CASE status = None \/ pending = dirty
    <3>1. status' = status /\ status \in Status \cup {None}
      BY <2>1 DEF Dirty, TInv, TypeOK
    <3> QED BY <2>1, <3>1
  <2>2. CASE status # None /\ pending # dirty
    <3>1. status \in Status
      BY <2>2 DEF TInv, TypeOK
    <3>2. PICK clean \in BOOLEAN : clean = Clean(status, pending)
      BY <3>1, CleanTyped
    <3>3. status' = [status EXCEPT !.clean = clean]
      BY <2>2, <3>2 DEF Dirty
    <3>4. clean => ~pending /\ status.configured /\ ~status.error /\ status.synced
      BY <3>2 DEF Clean
    <3> QED BY <2>2, <3>1, <3>3, <3>4, CleanSet
  <2> QED BY <2>1, <2>2
<1> QED BY <1>1, <1>2, <1>3 DEF Checked

\* The check's requests: what each finds, and where it goes.
LEMMA PendingMoves ==
    ASSUME TInv, NEW s \in Slots, hasPendingChanges(s)
    PROVE  \/ calls[s].step = "dirtyBackend" /\ backend = None /\ Checked(s, FALSE)
           \/ /\ calls[s].step = "dirtyBackend" /\ backend # None
              /\ Moves(s) /\ calls'[s] # None /\ calls'[s] = On(s, "dirtyLocal")
              /\ UNCHANGED <<user, turns, stores, page>>
           \/ calls[s].step = "dirtyLocal" /\ collectLocal(s, "dirtyLocal", "dirtyState")
           \/ /\ calls[s].step = "dirtyState"
              /\ Checked(s, calls[s].local # InScope(s, saved.snapshot))
<1>1. CASE At(s, "dirtyBackend") /\ backend = None /\ Dirty(s, FALSE)
  <2>1. calls[s] \in Call /\ calls[s].step = "dirtyBackend" /\ Fits(calls[s])
    BY <1>1, CallAt
  <2> QED BY <1>1, <2>1, CheckDone
<1>2. CASE /\ At(s, "dirtyBackend") /\ backend # None
           /\ Goto(s, On(s, "dirtyLocal")) /\ Waits /\ UNCHANGED <<stores, page>>
  <2>1. calls[s] \in Call /\ calls[s].step = "dirtyBackend" /\ Fits(calls[s])
    BY <1>2, CallAt
  <2> DEFINE c == On(s, "dirtyLocal")
  <2>2. c \in Call /\ c.step = "dirtyLocal" /\ c.kind = calls[s].kind /\ c.repo = calls[s].repo /\ c.again = calls[s].again
    BY <2>1, OnTyped DEF Steps
  <2> HIDE DEF c
  <2>3. Fits(c)
    BY <2>1, <2>2 DEF Fits, Round, Writes, Checks, Looks, Runs
  <2>4. Moves(s) /\ calls'[s] = c
    BY <1>2, <2>1, <2>2, <2>3, GoesTo DEF c
  <2> QED BY <1>2, <2>1, <2>2, <2>4, NoneIsNoCall DEF c, Waits
<1>3. CASE collectLocal(s, "dirtyLocal", "dirtyState")
  BY <1>3 DEF collectLocal, At
<1>4. CASE At(s, "dirtyState") /\ Dirty(s, calls[s].local # InScope(s, saved.snapshot))
  <2>1. calls[s] \in Call /\ calls[s].step = "dirtyState" /\ Fits(calls[s])
    BY <1>4, CallAt
  <2>2. PICK pending \in BOOLEAN : pending = (calls[s].local # InScope(s, saved.snapshot))
    OBVIOUS
  <2>3. Dirty(s, pending)
    BY <1>4, <2>2
  <2>4. Checked(s, pending)
    BY <2>1, <2>3, CheckDone
  <2> QED BY <2>1, <2>2, <2>4
<1> QED BY <1>1, <1>2, <1>3, <1>4 DEF hasPendingChanges

LEMMA statusBackendMoves ==
    ASSUME TInv, NEW s \in Slots, statusBackend(s)
    PROVE  /\ Moves(s) /\ calls'[s] # None /\ calls[s].step = "statusBackend"
           /\ \E known \in BOOLEAN :
                 /\ known <=> backend # None
                 /\ calls'[s] = [On(s, "statusState") EXCEPT !.file = None, !.mine = known]
<1>1. calls[s] \in Call /\ calls[s].step = "statusBackend" /\ Fits(calls[s])
  BY CallAt DEF statusBackend
<1>2. PICK known \in BOOLEAN : known = (backend # None)
  OBVIOUS
<1> DEFINE c == [On(s, "statusState") EXCEPT !.file = None, !.mine = known]
<1>3. c \in Call /\ c.step = "statusState" /\ c.kind = calls[s].kind /\ c.repo = calls[s].repo /\ c.again = calls[s].again
  BY <1>1 DEF Call, On, Steps, Doc
<1>4. Goto(s, c)
  BY <1>2 DEF statusBackend
<1> HIDE DEF c
<1>5. Fits(c)
  BY <1>1, <1>3 DEF Fits, Round, Writes, Checks, Looks, Runs
<1>6. Moves(s) /\ calls'[s] = c
  BY <1>1, <1>3, <1>4, <1>5, GoesTo
<1> QED BY <1>1, <1>2, <1>3, <1>6, NoneIsNoCall DEF c

LEMMA statusStateMoves ==
    ASSUME TInv, NEW s \in Slots, statusState(s)
    PROVE  /\ Moves(s) /\ calls[s].step = "statusState"
           /\ \/ calls'[s] = None /\ calls[s].again = "done" /\ calls[s].kind # "edit"
              \/ /\ calls'[s] # None /\ calls[s].again \in {"open", "require"}
                 /\ calls'[s] = [On(s, calls[s].again) EXCEPT !.again = "done", !.mine = FALSE, !.ignore = ignore]
<1>1. calls[s] \in Call /\ calls[s].step = "statusState" /\ Fits(calls[s])
  BY CallAt DEF statusState
<1>2. calls[s].kind # "edit"
  BY <1>1 DEF Fits, Looks
<1>3. CASE calls[s].again = "done"
  <2>1. calls' = [calls EXCEPT ![s] = None]
    BY <1>3 DEF statusState, End, Goto
  <2> QED BY <1>1, <1>2, <1>3, <2>1, Moved DEF Moves, TInv, TypeOK
<1>4. CASE calls[s].again # "done"
  <2>1. calls[s].again \in {"open", "require"}
    BY <1>1, <1>4 DEF Fits
  <2> DEFINE c == [On(s, calls[s].again) EXCEPT !.again = "done", !.mine = FALSE, !.ignore = ignore]
  <2>2. c \in Call /\ c.step = calls[s].again /\ c.kind = calls[s].kind /\ c.repo = calls[s].repo /\ c.again = "done"
    BY <1>1, <2>1 DEF Call, On, Steps, TInv, TypeOK
  <2>3. Goto(s, c)
    BY <1>4 DEF statusState
  <2> HIDE DEF c
  <2>4. Fits(c)
    BY <1>1, <2>1, <2>2 DEF Fits, Round, Writes, Checks, Looks, Runs
  <2>5. Moves(s) /\ calls'[s] = c
    BY <1>1, <2>2, <2>3, <2>4, GoesTo
  <2> QED BY <1>1, <2>1, <2>2, <2>5, NoneIsNoCall DEF c
<1> QED BY <1>3, <1>4

\* The status rendered: what storage holds now, and the controller's memory.
LEMMA StatusRead ==
    ASSUME TInv, NEW s \in Slots, statusState(s)
    PROVE  /\ status' \in Status /\ status' # None
           /\ status'.busy = busy
           /\ status'.configured = calls[s].mine
           /\ status'.configured => status'.error = saved.error /\ status'.synced = saved.synced
           /\ status'.clean => /\ status'.configured /\ ~dirty /\ ~status'.error /\ status'.synced
           /\ UNCHANGED <<user, turns, stores, busy, conflict, dirty, messageOpen>>
           /\ modal' = Wanted
<1>1. calls[s] \in Call
  BY CallAt DEF statusState
<1>2. calls[s].mine \in BOOLEAN /\ busy \in BOOLEAN /\ saved.error \in BOOLEAN /\ saved.synced \in BOOLEAN
      /\ dirty \in BOOLEAN
  BY <1>1 DEF Call, TInv, TypeOK, State
<1>3. PICK known \in BOOLEAN : known = calls[s].mine
  BY <1>2
<1>4. PICK e \in BOOLEAN : e = (known /\ saved.error)
  OBVIOUS
<1>5. PICK y \in BOOLEAN : y = (known /\ saved.synced)
  OBVIOUS
<1> DEFINE st == [configured |-> known, busy |-> busy, clean |-> FALSE, error |-> e, synced |-> y]
<1>6. st \in Status /\ st.configured = known /\ st.busy = busy /\ st.error = e /\ st.synced = y
  BY <1>2 DEF Status
<1>7. status' = [st EXCEPT !.clean = Clean(st, dirty)]
  BY <1>3, <1>4, <1>5 DEF statusState
<1> HIDE DEF st
<1>8. PICK clean \in BOOLEAN : clean = Clean(st, dirty)
  BY <1>2, <1>6, CleanTyped
<1>9. /\ status' \in Status /\ status'.configured = known /\ status'.busy = busy /\ status'.error = e
      /\ status'.synced = y /\ status'.clean = clean
  BY <1>6, <1>7, <1>8, CleanSet
<1>10. clean => known /\ ~dirty /\ ~e /\ y
  BY <1>6, <1>8 DEF Clean
<1>11. UNCHANGED <<user, turns, stores, busy, conflict, dirty, messageOpen>> /\ modal' = Wanted
  BY DEF statusState, Waits, conflictModal, Wanted
<1>12. status' # None
  BY <1>9, NoneIsNothing
<1>13. known => e = saved.error /\ y = saved.synced
  BY <1>2, <1>4, <1>5
<1> QED BY <1>3, <1>9, <1>10, <1>11, <1>12, <1>13
-----------------------------------------------------------------------------
(* What the user begins *)

\* An operation begins in a free slot.
Begins(s, kind, step) ==
    /\ calls[s] = None /\ UserMay
    /\ calls' \in [Slots -> Call \cup {None}] /\ \A t \in Slots : t # s => calls'[t] = calls[t]
    /\ calls'[s] # None /\ calls'[s] \in Call /\ Fits(calls'[s])
    /\ calls'[s].kind = kind /\ calls'[s].step = step
    /\ calls'[s].file = None /\ calls'[s].read = NoState

LEMMA StartBegins ==
    ASSUME TInv, NEW s \in Slots, NEW c \in Call, Start(s, c), UserMay, Fits(c),
           c.file = None, c.read = NoState
    PROVE  Begins(s, c.kind, c.step) /\ calls'[s] = c
<1>1. calls' = [calls EXCEPT ![s] = c] /\ calls \in [Slots -> Call \cup {None}] /\ calls[s] = None
  BY DEF Start, TInv, TypeOK
<1> QED BY <1>1, Moved, NoneIsNoCall DEF Begins

LEMMA NewCallTyped ==
    ASSUME NEW kind \in Kinds, NEW step \in Steps
    PROVE  LET c == NewCall(kind, step)
           IN  /\ c \in Call /\ c.kind = kind /\ c.step = step /\ c.repo = None /\ c.again = "done"
               /\ c.file = None /\ c.read = NoState
<1>1. NoState \in State
  BY DEF NoState, State, Doc
<1> QED BY <1>1 DEF NewCall, Call, Doc

LEMMA PlainBegins ==
    ASSUME TInv, NEW s \in Slots, UserMay,
           NEW kind, NEW step,
           <<kind, step>> \in {<<"edit", "wait">>, <<"remove", "forget">>, <<"run", "flush">>,
                               <<"later", "statusBackend">>},
           Start(s, NewCall(kind, step))
    PROVE  Begins(s, kind, step) /\ calls'[s] = NewCall(kind, step)
<1> DEFINE c == NewCall(kind, step)
<1>1. /\ c \in Call /\ c.kind = kind /\ c.step = step /\ c.repo = None /\ c.again = "done"
      /\ c.file = None /\ c.read = NoState
  BY NewCallTyped DEF Kinds, Steps
<1>2. Start(s, c)
  OBVIOUS
<1> HIDE DEF c
<1>3. Fits(c)
  BY <1>1 DEF Fits, Round, Writes, Checks, Looks, Runs
<1>4. Begins(s, kind, step) /\ calls'[s] = c
  BY <1>1, <1>2, <1>3, StartBegins
<1> QED BY <1>4 DEF c

LEMMA GivenBegins ==
    ASSUME TInv, NEW s \in Slots, UserMay, NEW kind, NEW step, NEW mine \in BOOLEAN,
           <<kind, step>> \in {<<"prefs", "store">>, <<"resolve", "require">>},
           Start(s, [NewCall(kind, step) EXCEPT !.mine = mine])
    PROVE  Begins(s, kind, step) /\ calls'[s].mine = mine /\ calls'[s].again = "done"
<1> DEFINE n == NewCall(kind, step)
           c == [n EXCEPT !.mine = mine]
<1>1. /\ n \in Call /\ n.kind = kind /\ n.step = step /\ n.repo = None /\ n.again = "done"
      /\ n.file = None /\ n.read = NoState
  BY NewCallTyped DEF Kinds, Steps
<1>2. Start(s, c)
  OBVIOUS
<1> HIDE DEF n
<1>3. /\ c \in Call /\ c.kind = kind /\ c.step = step /\ c.repo = None /\ c.again = "done"
      /\ c.file = None /\ c.read = NoState /\ c.mine = mine
  BY <1>1 DEF Call
<1> HIDE DEF c
<1>4. Fits(c)
  BY <1>3 DEF Fits, Round, Writes, Checks, Looks, Runs
<1> QED BY <1>2, <1>3, <1>4, StartBegins

LEMMA configureBegins ==
    ASSUME TInv, NEW s \in Slots, NEW r \in Repos, configureBackend(s, r)
    PROVE  /\ Begins(s, "configure", "statusBackend") /\ ~Configured
           /\ calls'[s].again = "open" /\ busy' = TRUE
           /\ UNCHANGED <<stores, turns, conflict, dirty, messageOpen, status, modal>>
<1> DEFINE n == NewCall("configure", "statusBackend")
           c == [n EXCEPT !.repo = r, !.again = "open"]
<1>1. /\ n \in Call /\ n.kind = "configure" /\ n.step = "statusBackend"
      /\ n.file = None /\ n.read = NoState
  BY NewCallTyped DEF Kinds, Steps
<1>2. Start(s, c) /\ UserMay
  BY DEF configureBackend
<1> HIDE DEF n
<1>3. /\ c \in Call /\ c.kind = "configure" /\ c.step = "statusBackend" /\ c.repo = r /\ c.again = "open"
      /\ c.file = None /\ c.read = NoState
  BY <1>1 DEF Call, Steps
<1> HIDE DEF c
<1>4. Fits(c)
  BY <1>3 DEF Fits, Round, Writes, Checks, Looks, Runs
<1>5. Begins(s, "configure", "statusBackend") /\ calls'[s] = c
  BY <1>2, <1>3, <1>4, StartBegins
<1> QED BY <1>3, <1>5 DEF configureBackend

\* All that the user does: an operation begins, or the prompt is shown or put away.
LEMMA ClickBegins ==
    ASSUME TInv, NEW s \in Slots, Click(s)
    PROVE  \/ \E v \in Doc : Edit(s, v) /\ Begins(s, "edit", "wait")
           \/ \E r \in Repos : configureBackend(s, r) /\ Begins(s, "configure", "statusBackend")
           \/ removeBackend(s) /\ Begins(s, "remove", "forget")
           \/ \E b \in BOOLEAN : savePreference(s, b) /\ Begins(s, "prefs", "store")
           \/ \E b \in BOOLEAN : resolveConflict(s, b) /\ Begins(s, "resolve", "require")
           \/ beginNow(s) /\ auto /\ Begins(s, "run", "flush")
           \/ beginNow(s) /\ ~auto /\ calls' = calls
           \/ sendMessage(s) /\ Begins(s, "run", "flush")
           \/ later(s) /\ Begins(s, "later", "statusBackend")
<1>1. ASSUME NEW v \in Doc, Edit(s, v) PROVE Begins(s, "edit", "wait")
  BY <1>1, PlainBegins DEF Edit
<1>2. ASSUME NEW r \in Repos, configureBackend(s, r) PROVE Begins(s, "configure", "statusBackend")
  BY <1>2, configureBegins
<1>3. ASSUME removeBackend(s) PROVE Begins(s, "remove", "forget")
  BY <1>3, PlainBegins DEF removeBackend
<1>4. ASSUME NEW b \in BOOLEAN, savePreference(s, b) PROVE Begins(s, "prefs", "store")
  BY <1>4, GivenBegins DEF savePreference
<1>5. ASSUME NEW b \in BOOLEAN, resolveConflict(s, b) PROVE Begins(s, "resolve", "require")
  BY <1>5, GivenBegins DEF resolveConflict
<1>6. ASSUME beginNow(s), auto PROVE Begins(s, "run", "flush")
  BY <1>6, PlainBegins DEF beginNow
<1>7. ASSUME beginNow(s), ~auto PROVE calls' = calls
  BY <1>7 DEF beginNow
<1>8. ASSUME sendMessage(s) PROVE Begins(s, "run", "flush")
  BY <1>8, PlainBegins DEF sendMessage
<1>9. ASSUME later(s) PROVE Begins(s, "later", "statusBackend")
  BY <1>9, PlainBegins DEF later
<1> QED BY <1>1, <1>2, <1>3, <1>4, <1>5, <1>6, <1>7, <1>8, <1>9 DEF Click
-----------------------------------------------------------------------------
(* The answers, sorted by what they do to the page and to the chain of checks *)

\* The operation goes on, and the page learns nothing.
Quiet(s) ==
    /\ Moves(s) /\ calls'[s] # None /\ turns' = turns /\ UNCHANGED page
    /\ calls'[s].step \in Checks <=> calls[s].step \in Checks
    /\ calls'[s].step # "wait" /\ calls[s].step # "wait"
    /\ calls[s].kind \in {"run", "configure"} /\ Settled(calls'[s]) => Settled(calls[s])

\* The operation joins the chain.
Queues(s) ==
    /\ Moves(s) /\ calls'[s] # None /\ calls'[s] = NewCall(calls[s].kind, "wait")
    /\ turns' = Append(turns, s) /\ UNCHANGED page /\ calls[s].step \in {"store", "settle"}
    /\ calls[s].kind \in Runs \cup {"prefs"}

LEMMA QuietBy ==
    ASSUME NEW s \in Slots, Moves(s), calls'[s] # None, turns' = turns, UNCHANGED page,
           NEW before, NEW after, calls[s].step = before, calls'[s].step = after,
           after \in Checks <=> before \in Checks, after # "wait", before # "wait",
           \/ ~Settled(calls'[s]) \/ Settled(calls[s])
           \/ calls[s].kind \notin {"run", "configure"}
    PROVE  Quiet(s)
BY DEF Quiet

LEMMA OpensQuiet ==
    ASSUME TInv, NEW s \in Slots, Opens(s)
    PROVE  Quiet(s) /\ UNCHANGED user
<1>1. /\ Moves(s) /\ calls'[s] # None /\ calls[s] \in Call
      /\ calls[s].step = "open" /\ calls'[s].step = "register"
      /\ turns' = turns /\ UNCHANGED <<page, user>>
  BY OpensMoves DEF Opens, Moves, On, Call, At, Waits
<1>2. ~Settled(calls'[s])
  BY <1>1 DEF Settled, Checks, Looks
<1> QED BY <1>1, <1>2, QuietBy DEF Settled, Checks, Looks

LEMMA rememberScopeQuiet ==
    ASSUME TInv, NEW s \in Slots, rememberScope(s)
    PROVE  Quiet(s) /\ UNCHANGED user
<1>1. /\ Moves(s) /\ calls'[s] # None /\ calls[s] \in Call
      /\ calls[s].step = "scopeWrite" /\ calls'[s].step = "collect"
      /\ turns' = turns /\ UNCHANGED <<page, user>>
  BY rememberScopeMoves DEF rememberScope, WriteState, Moves, On, Call, At, Waits
<1>2. ~Settled(calls'[s])
  BY <1>1 DEF Settled, Checks, Looks
<1> QED BY <1>1, <1>2, QuietBy DEF Settled, Checks, Looks

LEMMA PullQuiet ==
    ASSUME TInv, NEW s \in Slots, Pull(s)
    PROVE  Quiet(s) /\ UNCHANGED user
<1>1. /\ Moves(s) /\ calls'[s] # None /\ calls[s] \in Call
      /\ calls[s].step = "pull" /\ calls'[s].step = "advance"
      /\ turns' = turns /\ UNCHANGED <<page, user>>
  BY PullMoves DEF Pull, Takes, Moves, On, Call, At, Waits
<1>2. ~Settled(calls'[s])
  BY <1>1 DEF Settled, Checks, Looks
<1> QED BY <1>1, <1>2, QuietBy DEF Settled, Checks, Looks

LEMMA PushQuiet ==
    ASSUME TInv, NEW s \in Slots, Push(s)
    PROVE  Quiet(s) /\ UNCHANGED user
<1>1. /\ Moves(s) /\ calls'[s] # None /\ calls[s] \in Call
      /\ calls[s].step = "push" /\ calls'[s].step = "advance"
      /\ turns' = turns /\ UNCHANGED <<page, user>>
  BY PushMoves DEF Push, Sends, Moves, On, Call, At, Waits
<1>2. ~Settled(calls'[s])
  BY <1>1 DEF Settled, Checks, Looks
<1> QED BY <1>1, <1>2, QuietBy DEF Settled, Checks, Looks

LEMMA PushUnansweredQuiet ==
    ASSUME TInv, NEW s \in Slots, PushUnanswered(s)
    PROVE  Quiet(s) /\ UNCHANGED user
<1>1. /\ Moves(s) /\ calls'[s] # None /\ calls[s] \in Call
      /\ calls[s].step = "push" /\ calls'[s].step = "errorRead"
      /\ turns' = turns /\ UNCHANGED <<page, user>>
  BY PushUnansweredMoves DEF PushUnanswered, Sends, Moves, On, Call, At, Waits
<1>2. ~Settled(calls'[s])
  BY <1>1 DEF Settled, Checks, Looks
<1> QED BY <1>1, <1>2, QuietBy DEF Settled, Checks, Looks

LEMMA writeSnapshotEntryQuiet ==
    ASSUME TInv, NEW s \in Slots, writeSnapshotEntry(s)
    PROVE  Quiet(s) /\ UNCHANGED user
<1>1. /\ Moves(s) /\ calls'[s] # None /\ calls[s] \in Call
      /\ calls[s].step = "pin" /\ calls'[s].step = "advance"
      /\ turns' = turns /\ UNCHANGED <<page, user>>
  BY writeSnapshotEntryMoves DEF writeSnapshotEntry, WriteState, Moves, On, Call, At, Waits
<1>2. ~Settled(calls'[s])
  BY <1>1 DEF Settled, Checks, Looks
<1> QED BY <1>1, <1>2, QuietBy DEF Settled, Checks, Looks

LEMMA advanceSnapshotQuiet ==
    ASSUME TInv, NEW s \in Slots, advanceSnapshot(s)
    PROVE  Quiet(s) /\ UNCHANGED user
<1>1. /\ Moves(s) /\ calls'[s] # None /\ calls[s] \in Call
      /\ calls[s].step = "stateWrite" /\ calls'[s].step = "clearRead"
      /\ turns' = turns /\ UNCHANGED <<page, user>>
  BY advanceSnapshotMoves DEF advanceSnapshot, WriteState, Moves, On, Call, At, Waits
<1>2. ~Settled(calls'[s])
  BY <1>1 DEF Settled, Checks, Looks
<1> QED BY <1>1, <1>2, QuietBy DEF Settled, Checks, Looks

LEMMA ListQuiet ==
    ASSUME TInv, NEW s \in Slots, List(s)
    PROVE  Quiet(s) /\ UNCHANGED user
<1>1. /\ Moves(s) /\ calls'[s] # None /\ calls[s] \in Call
      /\ calls[s].step = "list" /\ calls'[s].step = "base"
      /\ turns' = turns /\ UNCHANGED <<page, user>>
  BY ListMoves DEF List, Moves, On, Call, At, Waits
<1>2. ~Settled(calls'[s])
  BY <1>1 DEF Settled, Checks, Looks
<1> QED BY <1>1, <1>2, QuietBy DEF Settled, Checks, Looks

LEMMA AnswerTheirsQuiet ==
    ASSUME TInv, NEW s \in Slots, AnswerTheirs(s)
    PROVE  Quiet(s) /\ UNCHANGED user
<1>1. /\ Moves(s) /\ calls'[s] # None /\ calls[s] \in Call
      /\ calls[s].step = "answer" /\ calls'[s].step = "pin"
      /\ turns' = turns /\ UNCHANGED <<page, user>>
  BY AnswerTheirsMoves DEF AnswerTheirs, Takes, Moves, On, Call, At, Waits
<1>2. ~Settled(calls'[s])
  BY <1>1 DEF Settled, Checks, Looks
<1> QED BY <1>1, <1>2, QuietBy DEF Settled, Checks, Looks

LEMMA ReadStateQuiet ==
    ASSUME TInv, NEW s \in Slots, NEW step, NEW next,
           <<step, next>> \in {<<"scopeRead", "scopeWrite">>, <<"recheck", "answer">>,
                               <<"stateRead", "stateWrite">>, <<"clearRead", "clearWrite">>,
                               <<"errorRead", "errorWrite">>},
           ReadState(s, step, next)
    PROVE  Quiet(s) /\ UNCHANGED user
<1>1. /\ Moves(s) /\ calls'[s] # None /\ calls'[s] = [On(s, next) EXCEPT !.read = saved]
      /\ calls[s].step = step /\ turns' = turns /\ UNCHANGED <<page, user>>
  BY ReadStateMoves DEF ReadState, At, Waits
<1>2. calls[s] \in Call /\ calls'[s].step = next
  BY <1>1 DEF Moves, On, Call
<1>3. ~Settled(calls'[s])
  BY <1>2 DEF Settled, Checks, Looks
<1> QED BY <1>1, <1>2, <1>3, QuietBy DEF Settled, Checks, Looks

LEMMA collectLocalQuiet ==
    ASSUME TInv, NEW s \in Slots, NEW step, NEW next,
           <<step, next>> \in {<<"collect", "list">>, <<"advance", "stateRead">>,
                               <<"dirtyLocal", "dirtyState">>},
           collectLocal(s, step, next)
    PROVE  Quiet(s) /\ UNCHANGED user
<1>1. /\ Moves(s) /\ calls'[s] # None /\ calls'[s] = [On(s, next) EXCEPT !.local = InScope(s, local)]
      /\ calls[s].step = step /\ turns' = turns /\ UNCHANGED <<page, user>>
  BY collectLocalMoves DEF collectLocal, At, Waits
<1>2. calls[s] \in Call /\ calls'[s].step = next
  BY <1>1 DEF Moves, On, Call
<1>3. ~Settled(calls'[s]) \/ Settled(calls[s])
  BY <1>1, <1>2 DEF Settled, Checks, Looks
<1> QED BY <1>1, <1>2, <1>3, QuietBy DEF Settled, Checks, Looks

\* What an answer does: nothing the page learns of, or one of these.
Sorted(s) ==
    \/ Quiet(s)
    \/ Answered(s) /\ ~Settled(calls[s])
    \/ Queues(s) \/ StartDirty(s) \/ Flush(s) \/ statusState(s)
    \/ \E pending \in BOOLEAN : Checked(s, pending)

LEMMA AnswersSorted ==
    ASSUME TInv, NEW s \in Slots, Answer(s)
    PROVE  Moves(s) /\ Sorted(s) /\ UNCHANGED user
<1>1. Quiet(s) => Moves(s) /\ Sorted(s)
  BY DEF Quiet, Sorted
<1>2. Answered(s) /\ ~Settled(calls[s]) => Moves(s) /\ Sorted(s)
  BY DEF Answered, Sorted
<1>3. Queues(s) => Moves(s) /\ Sorted(s)
  BY DEF Queues, Sorted
<1>4. CASE Opens(s) \/ rememberScope(s) \/ Pull(s) \/ Push(s) \/ PushUnanswered(s)
           \/ writeSnapshotEntry(s) \/ advanceSnapshot(s) \/ List(s) \/ AnswerTheirs(s)
  BY <1>1, <1>4, OpensQuiet, rememberScopeQuiet, PullQuiet, PushQuiet, PushUnansweredQuiet,
     writeSnapshotEntryQuiet, advanceSnapshotQuiet, ListQuiet, AnswerTheirsQuiet
<1>5. CASE \/ ReadState(s, "scopeRead", "scopeWrite") \/ ReadState(s, "recheck", "answer")
           \/ ReadState(s, "stateRead", "stateWrite") \/ ReadState(s, "clearRead", "clearWrite")
           \/ ReadState(s, "errorRead", "errorWrite")
  BY <1>1, <1>5, ReadStateQuiet
<1>6. CASE collectLocal(s, "collect", "list") \/ collectLocal(s, "advance", "stateRead")
  BY <1>1, <1>6, collectLocalQuiet
<1>7. ASSUME Answered(s), calls[s].step \in {"register", "forget", "clearWrite", "errorWrite", "base",
                                             "require", "recall", "open", "list", "push", "answer"}
      PROVE  Moves(s) /\ Sorted(s)
  <2>1. ~Settled(calls[s])
    BY <1>7 DEF Settled, Checks, Looks
  <2> QED BY <1>2, <1>7, <2>1
<1>8. CASE Register(s) \/ Forget(s) \/ ForgetFails(s) \/ clearError(s) \/ recordError(s)
  <2>1. UNCHANGED user
    BY <1>8 DEF Register, Waits, Forget, ForgetFails, clearError, recordError, WriteState
  <2>2. Answered(s) /\ calls[s].step \in {"register", "forget", "clearWrite", "errorWrite"}
    BY <1>8, RegisterMoves, ForgetMoves, ForgetFailsMoves, clearErrorMoves, recordErrorMoves
  <2> QED BY <1>7, <2>1, <2>2
<1>9. CASE requireBackend(s)
  <2>1. UNCHANGED user
    BY <1>9 DEF requireBackend
  <2>2. CASE Answered(s)
    BY <1>7, <1>9, <2>1, <2>2, requireBackendMoves
  <2>3. CASE ~Answered(s)
    <3> DEFINE next == IF calls[s].kind = "run" THEN "scopeRead" ELSE "recall"
    <3>1. /\ Moves(s) /\ calls'[s] # None /\ UNCHANGED <<turns, page>> /\ calls[s].step = "require"
          /\ calls'[s] = [On(s, next) EXCEPT !.repo = backend]
      BY <1>9, <2>3, requireBackendMoves
    <3>2. calls'[s].step = next /\ next \in {"scopeRead", "recall"}
      BY <3>1 DEF Moves, On, Call
    <3>3. ~Settled(calls'[s])
      BY <3>2 DEF Settled, Checks, Looks
    <3>4. Quiet(s)
      BY <3>1, <3>2, <3>3, QuietBy DEF Checks
    <3> QED BY <1>1, <2>1, <3>4
  <2> QED BY <2>2, <2>3
<1>10. CASE readScopeForResolve(s)
  <2>1. UNCHANGED user
    BY <1>10 DEF readScopeForResolve
  <2>2. CASE Answered(s)
    BY <1>7, <1>10, <2>1, <2>2, readScopeMoves
  <2>3. CASE ~Answered(s)
    <3>1. /\ Moves(s) /\ calls'[s] # None /\ UNCHANGED <<turns, page>> /\ calls[s].step = "recall"
          /\ calls'[s] = [On(s, "scopeRead") EXCEPT !.ignore = saved.scope]
      BY <1>10, <2>3, readScopeMoves
    <3>2. calls'[s].step = "scopeRead"
      BY <3>1 DEF Moves, On, Call
    <3>3. ~Settled(calls'[s])
      BY <3>2 DEF Settled, Checks, Looks
    <3>4. Quiet(s)
      BY <3>1, <3>2, <3>3, QuietBy DEF Checks
    <3> QED BY <1>1, <2>1, <3>4
  <2> QED BY <2>2, <2>3
<1>11. CASE Decide(s)
  <2>1. UNCHANGED user
    BY <1>11 DEF Decide
  <2>2. CASE Answered(s)
    BY <1>7, <1>11, <2>1, <2>2, DecideMoves
  <2>3. CASE ~Answered(s)
    <3>1. /\ Moves(s) /\ calls'[s] # None /\ UNCHANGED <<turns, page>> /\ calls[s].step = "base"
          /\ \/ calls'[s] = [On(s, "recheck") EXCEPT !.read = saved]
             \/ \E step \in {"advance", "push", "pull"} : calls'[s] = On(s, step)
      BY <1>11, <2>3, DecideMoves
    <3>2. calls'[s].step \in {"recheck", "advance", "push", "pull"}
      BY <3>1 DEF Moves, On, Call
    <3>3. ~Settled(calls'[s])
      BY <3>2 DEF Settled, Checks, Looks
    <3>4. Quiet(s)
      BY <3>1, <3>2, <3>3, QuietBy DEF Checks
    <3> QED BY <1>1, <2>1, <3>4
  <2> QED BY <2>2, <2>3
<1>12. CASE AnswerMine(s)
  <2>1. CASE Answered(s) /\ UNCHANGED stores
    <3>1. UNCHANGED user
      BY <1>12 DEF AnswerMine, Sends, Waits
    <3> QED BY <1>7, <1>12, <2>1, <3>1, AnswerMineMoves
  <2>2. CASE ~(Answered(s) /\ UNCHANGED stores)
    <3>1. /\ Moves(s) /\ calls'[s] # None /\ calls[s].step = "answer"
          /\ calls'[s] = On(s, "pin") /\ Sends(s, "pin")
      BY <1>12, <2>2, AnswerMineMoves
    <3>2. calls'[s].step = "pin"
      BY <3>1 DEF Moves, On, Call
    <3>3. ~Settled(calls'[s])
      BY <3>2 DEF Settled, Checks, Looks
    <3>4. turns' = turns /\ UNCHANGED page /\ UNCHANGED user
      BY <3>1 DEF Sends, Waits
    <3>5. Quiet(s)
      BY <3>1, <3>2, <3>3, <3>4, QuietBy DEF Checks
    <3> QED BY <1>1, <3>4, <3>5
  <2> QED BY <2>1, <2>2
<1>13. CASE NetworkFails(s)
  <2>1. UNCHANGED user
    BY <1>13 DEF NetworkFails
  <2>2. CASE Answered(s)
    BY <1>7, <1>13, <2>1, <2>2, NetworkFailsMoves
  <2>3. CASE ~Answered(s)
    <3>1. /\ Moves(s) /\ calls'[s] # None /\ UNCHANGED <<turns, page>> /\ calls'[s] = On(s, "errorRead")
          /\ calls[s].step \in {"open", "list", "push", "answer"}
      BY <1>13, <2>3, NetworkFailsMoves
    <3>2. calls'[s].step = "errorRead"
      BY <3>1 DEF Moves, On, Call
    <3>3. ~Settled(calls'[s])
      BY <3>2 DEF Settled, Checks, Looks
    <3>4. Quiet(s)
      BY <3>1, <3>2, <3>3, QuietBy DEF Checks
    <3> QED BY <1>1, <2>1, <3>4
  <2> QED BY <2>2, <2>3
<1>14. CASE StorePreference(s)
  <2>1. /\ Moves(s) /\ calls'[s] # None /\ calls[s].step = "store" /\ calls[s].kind = "prefs"
        /\ UNCHANGED page /\ UNCHANGED user
        /\ \/ turns' = Append(turns, s) /\ calls'[s] = NewCall("prefs", "wait")
           \/ turns' = turns /\ calls'[s] = NewCall("prefs", "statusBackend")
    BY <1>14, StorePreferenceMoves DEF StorePreference
  <2>2. CASE turns' = Append(turns, s) /\ calls'[s] = NewCall("prefs", "wait")
    <3>1. Queues(s)
      BY <2>1, <2>2 DEF Queues
    <3> QED BY <1>3, <2>1, <3>1
  <2>3. CASE turns' = turns /\ calls'[s] = NewCall("prefs", "statusBackend")
    <3>1. calls'[s].step = "statusBackend"
      BY <2>3, NewCallTyped DEF Kinds, Steps
    <3>2. Quiet(s)
      BY <2>1, <2>3, <3>1, QuietBy DEF Checks
    <3> QED BY <1>1, <2>1, <3>2
  <2> QED BY <2>1, <2>2, <2>3
<1>15. CASE onSettled(s)
  <2>1. Queues(s) /\ UNCHANGED user
    BY <1>15, onSettledMoves DEF Queues, onSettled
  <2> QED BY <1>3, <2>1
<1>16. CASE StartDirty(s)
  BY <1>16, StartDirtyMoves DEF Sorted, StartDirty
<1>17. CASE Flush(s)
  BY <1>17, FlushMoves DEF Sorted, Flush, Waits
<1>18. CASE statusState(s)
  BY <1>18, statusStateMoves DEF Sorted, statusState, Waits
<1>19. CASE statusBackend(s)
  <2>1. /\ Moves(s) /\ calls'[s] # None /\ calls[s].step = "statusBackend" /\ calls[s] \in Call
    BY <1>19, statusBackendMoves DEF Moves
  <2>2. PICK known \in BOOLEAN : calls'[s] = [On(s, "statusState") EXCEPT !.file = None, !.mine = known]
    BY <1>19, statusBackendMoves
  <2>3. calls'[s].step = "statusState" /\ calls'[s].again = calls[s].again
    BY <2>1, <2>2 DEF On, Call
  <2>4. turns' = turns /\ UNCHANGED page /\ UNCHANGED user
    BY <1>19 DEF statusBackend, Waits
  <2>5. ~Settled(calls'[s]) \/ Settled(calls[s])
    BY <2>1, <2>3 DEF Settled, Checks, Looks
  <2>6. Quiet(s)
    BY <2>1, <2>3, <2>4, <2>5, QuietBy DEF Checks
  <2> QED BY <1>1, <2>4, <2>6
<1>20. CASE hasPendingChanges(s)
  <2>1. ASSUME NEW pending \in BOOLEAN, Checked(s, pending) PROVE Moves(s) /\ Sorted(s) /\ UNCHANGED user
    BY <2>1 DEF Checked, Sorted
  <2>2. CASE calls[s].step = "dirtyBackend" /\ backend = None /\ Checked(s, FALSE)
    BY <2>1, <2>2
  <2>3. CASE /\ calls[s].step = "dirtyBackend" /\ backend # None
             /\ Moves(s) /\ calls'[s] # None /\ calls'[s] = On(s, "dirtyLocal")
             /\ UNCHANGED <<user, turns, stores, page>>
    <3>1. calls'[s].step = "dirtyLocal"
      BY <2>3 DEF Moves, On, Call
    <3>2. Settled(calls[s])
      BY <2>3 DEF Settled, Checks
    <3>3. Quiet(s)
      BY <2>3, <3>1, <3>2, QuietBy DEF Checks
    <3> QED BY <1>1, <2>3, <3>3
  <2>4. CASE collectLocal(s, "dirtyLocal", "dirtyState")
    BY <1>1, <2>4, collectLocalQuiet
  <2>5. CASE Checked(s, calls[s].local # InScope(s, saved.snapshot))
    <3>1. PICK pending \in BOOLEAN : pending = (calls[s].local # InScope(s, saved.snapshot))
      OBVIOUS
    <3>2. Checked(s, pending)
      BY <2>5, <3>1
    <3> QED BY <2>1, <3>2
  <2> QED BY <1>20, <2>2, <2>3, <2>4, <2>5, PendingMoves
<1> QED BY <1>4, <1>5, <1>6, <1>8, <1>9, <1>10, <1>11, <1>12, <1>13, <1>14, <1>15, <1>16, <1>17, <1>18,
           <1>19, <1>20 DEF Answer
-----------------------------------------------------------------------------
(* The chain of checks *)

LEMMA TurnsKept ==
    ASSUME TurnsTell, turns' = turns, NEW s \in Slots,
           \A t \in Slots : t # s => calls'[t] = calls[t],
           Checking(s)' <=> Checking(s),
           Checking(s) /\ calls'[s].step # "wait" => calls[s].step # "wait" \/ (turns # <<>> /\ turns[1] = s)
    PROVE  TurnsTell'
<1>1. \A t \in Slots : Checking(t)' <=> Checking(t)
  BY DEF Checking
<1>2. \A t \in Slots : InTurn(t)' <=> InTurn(t)
  BY DEF InTurn
<1>3. \A t \in Slots : Checking(t)' /\ calls'[t].step # "wait" => turns' # <<>> /\ turns'[1] = t
  BY <1>1 DEF TurnsTell, Checking
<1> QED BY <1>1, <1>2, <1>3 DEF TurnsTell

LEMMA TurnsJoined ==
    ASSUME TurnsTell, NEW s \in Slots, turns' = Append(turns, s),
           \A t \in Slots : t # s => calls'[t] = calls[t],
           ~Checking(s), calls'[s] # None, calls'[s].step = "wait"
    PROVE  TurnsTell'
<1> DEFINE n == Len(turns)
<1>1. /\ turns \in Seq(Slots) /\ n \in Nat /\ turns' \in Seq(Slots) /\ Len(turns') = n + 1
      /\ turns'[n + 1] = s /\ \A i \in 1 .. n : turns'[i] = turns[i]
  BY DEF TurnsTell
<1>2. ~InTurn(s) /\ \A i \in 1 .. n : turns[i] # s
  BY DEF TurnsTell, InTurn
<1>3. \A i, j \in 1 .. Len(turns') : turns'[i] = turns'[j] => i = j
  <2>1. \A i, j \in 1 .. n : turns[i] = turns[j] => i = j
    BY DEF TurnsTell
  <2>2. \A i \in 1 .. n + 1 : i \in 1 .. n \/ i = n + 1
    BY <1>1
  <2> QED BY <1>1, <1>2, <2>1, <2>2
<1>4. \A t \in Slots : Checking(t)' <=> InTurn(t)'
  <2>1. \A t \in Slots : InTurn(t)' <=> InTurn(t) \/ t = s
    <3>1. \A i \in 1 .. n : i \in 1 .. n + 1
      BY <1>1
    <3>2. \A i \in 1 .. n + 1 : i \in 1 .. n \/ i = n + 1
      BY <1>1
    <3>3. n + 1 \in 1 .. n + 1
      BY <1>1
    <3> QED BY <1>1, <3>1, <3>2, <3>3 DEF InTurn
  <2>2. \A t \in Slots : Checking(t)' <=> Checking(t) \/ t = s
    BY DEF Checking, Checks
  <2> QED BY <2>1, <2>2 DEF TurnsTell
<1>5. ASSUME NEW t \in Slots, Checking(t)', calls'[t].step # "wait"
      PROVE  turns' # <<>> /\ turns'[1] = t
  <2>1. t # s /\ Checking(t) /\ calls[t].step # "wait"
    BY <1>5 DEF Checking
  <2>2. turns # <<>> /\ turns[1] = t
    BY <2>1 DEF TurnsTell
  <2>3. n > 0
    BY <1>1, <2>2
  <2> QED BY <1>1, <2>2, <2>3
<1> QED BY <1>1, <1>3, <1>4, <1>5 DEF TurnsTell

LEMMA TurnsLeft ==
    ASSUME TurnsTell, NEW s \in Slots, turns' = Tail(turns),
           \A t \in Slots : t # s => calls'[t] = calls[t],
           Checking(s), calls[s].step # "wait", ~Checking(s)'
    PROVE  TurnsTell'
<1> DEFINE n == Len(turns)
<1>1. turns \in Seq(Slots) /\ turns # <<>> /\ turns[1] = s
  BY DEF TurnsTell
<1>2. /\ n \in Nat /\ n > 0 /\ turns' \in Seq(Slots) /\ Len(turns') = n - 1
      /\ \A i \in 1 .. n - 1 : turns'[i] = turns[i + 1]
  BY <1>1
<1>3. \A i, j \in 1 .. n : turns[i] = turns[j] => i = j
  BY DEF TurnsTell
<1>4. \A i, j \in 1 .. Len(turns') : turns'[i] = turns'[j] => i = j
  <2>1. \A i \in 1 .. n - 1 : i + 1 \in 1 .. n /\ i \in Nat
    BY <1>2
  <2>2. ASSUME NEW i \in 1 .. n - 1, NEW j \in 1 .. n - 1, turns'[i] = turns'[j] PROVE i = j
    <3>1. i + 1 = j + 1
      BY <1>2, <1>3, <2>1, <2>2
    <3> QED BY <2>1, <3>1
  <2> QED BY <1>2, <2>2
<1>5. \A t \in Slots : Checking(t)' <=> InTurn(t)'
  <2>1. ASSUME NEW t \in Slots PROVE InTurn(t)' <=> InTurn(t) /\ t # s
    <3>1. ASSUME InTurn(t)' PROVE InTurn(t) /\ t # s
      <4>1. PICK i \in 1 .. n - 1 : turns'[i] = t
        BY <1>2, <3>1 DEF InTurn
      <4>2. i + 1 \in 1 .. n /\ i + 1 # 1 /\ 1 \in 1 .. n
        BY <1>2
      <4>3. turns[i + 1] = t
        BY <1>2, <4>1
      <4> QED BY <1>1, <1>3, <4>2, <4>3 DEF InTurn
    <3>2. ASSUME InTurn(t), t # s PROVE InTurn(t)'
      <4>1. PICK i \in 1 .. n : turns[i] = t
        BY <3>2 DEF InTurn
      <4>2. i # 1
        BY <1>1, <3>2, <4>1
      <4>3. i - 1 \in 1 .. n - 1 /\ (i - 1) + 1 = i
        BY <1>2, <4>2
      <4>4. turns'[i - 1] = t
        BY <1>2, <4>1, <4>3
      <4> QED BY <1>2, <4>3, <4>4 DEF InTurn
    <3> QED BY <3>1, <3>2
  <2>2. \A t \in Slots : Checking(t)' <=> Checking(t) /\ t # s
    BY DEF Checking
  <2> QED BY <2>1, <2>2 DEF TurnsTell
<1>6. ASSUME NEW t \in Slots, Checking(t)', calls'[t].step # "wait" PROVE FALSE
  <2>1. t # s /\ Checking(t) /\ calls[t].step # "wait"
    BY <1>6 DEF Checking
  <2> QED BY <1>1, <2>1 DEF TurnsTell
<1> QED BY <1>2, <1>4, <1>5, <1>6 DEF TurnsTell

LEMMA TurnsAnswered ==
    ASSUME TInv, NEW s \in Slots, Sorted(s)
    PROVE  TurnsTell'
<1> USE DEF TInv
<1>0. Moves(s) => /\ calls[s] # None /\ calls[s] \in Call /\ \A t \in Slots : t # s => calls'[t] = calls[t]
  BY NoneIsNoCall DEF Moves
<1>1. CASE Quiet(s)
  <2>1. Checking(s)' <=> Checking(s)
    BY <1>0, <1>1 DEF Quiet, Checking
  <2> QED BY <1>0, <1>1, <2>1, TurnsKept DEF Quiet
<1>2. CASE Answered(s) /\ ~Settled(calls[s])
  <2>1. ~Checking(s) /\ ~Checking(s)'
    BY <1>2 DEF Answered, Checking, Settled, Checks
  <2> QED BY <1>0, <1>2, <2>1, TurnsKept DEF Answered
<1>3. CASE Queues(s)
  <2>1. ~Checking(s)
    BY <1>3 DEF Queues, Checking, Checks
  <2>2. calls'[s].step = "wait"
    BY <1>0, <1>3, NewCallTyped DEF Queues, Kinds, Runs, Steps
  <2> QED BY <1>0, <1>3, <2>1, <2>2, TurnsJoined DEF Queues
<1>4. CASE StartDirty(s)
  <2>1. Moves(s) /\ calls'[s] # None /\ calls'[s] = [On(s, "dirtyBackend") EXCEPT !.ignore = ignore] /\ calls[s].step = "wait"
    BY <1>4, StartDirtyMoves
  <2>2. Checking(s) /\ Checking(s)'
    BY <1>0, <2>1 DEF Checking, Checks, On, Call
  <2>3. turns' = turns /\ Head(turns) = s
    BY <1>4 DEF StartDirty
  <2>4. turns # <<>> /\ turns[1] = s
    BY <2>2, <2>3 DEF TurnsTell, InTurn
  <2> QED BY <1>0, <2>1, <2>2, <2>3, <2>4, TurnsKept
<1>5. CASE Flush(s)
  <2>1. /\ Moves(s) /\ calls[s].step = "flush"
        /\ calls'[s] = [NewCall("run", "statusBackend") EXCEPT !.again = "require"]
    BY <1>5, FlushMoves
  <2>2. NewCall("run", "statusBackend") \in Call /\ NewCall("run", "statusBackend").step = "statusBackend"
    BY NewCallTyped DEF Kinds, Steps
  <2>3. calls'[s].step = "statusBackend"
    BY <2>1, <2>2 DEF Call
  <2>4. ~Checking(s) /\ ~Checking(s)'
    BY <2>1, <2>3 DEF Checking, Checks
  <2> QED BY <1>0, <1>5, <2>1, <2>4, TurnsKept DEF Flush, Waits
<1>6. CASE statusState(s)
  <2>1. /\ Moves(s) /\ calls[s].step = "statusState"
        /\ calls'[s] = None \/ (/\ calls[s].again \in {"open", "require"}
                                /\ calls'[s] = [On(s, calls[s].again) EXCEPT !.again = "done", !.mine = FALSE, !.ignore = ignore])
    BY <1>6, statusStateMoves
  <2>2. ~Checking(s) /\ ~Checking(s)'
    BY <1>0, <2>1 DEF Checking, Checks, On, Call
  <2> QED BY <1>0, <1>6, <2>1, <2>2, TurnsKept DEF statusState, Waits
<1>7. CASE \E pending \in BOOLEAN : Checked(s, pending)
  <2>1. PICK pending \in BOOLEAN : Checked(s, pending)
    BY <1>7
  <2>2. Checking(s) /\ calls[s].step # "wait"
    BY <1>0, <2>1 DEF Checked, Checking, Checks
  <2>3. calls'[s] # None => calls'[s].step = "statusBackend"
    BY <1>0, <2>1, NewCallTyped DEF Checked, Call, Steps
  <2>4. ~Checking(s)'
    BY <2>3 DEF Checking, Checks
  <2> QED BY <1>0, <2>1, <2>2, <2>4, TurnsLeft DEF Checked
<1> QED BY <1>1, <1>2, <1>3, <1>4, <1>5, <1>6, <1>7 DEF Sorted

LEMMA TurnsClicked ==
    ASSUME TInv, NEW s \in Slots, Click(s)
    PROVE  TurnsTell'
<1> USE DEF TInv
<1>1. ASSUME NEW kind, NEW step, Begins(s, kind, step), turns' = turns, step \notin Checks PROVE TurnsTell'
  <2>1. ~Checking(s) /\ ~Checking(s)'
    BY <1>1 DEF Begins, Checking
  <2> QED BY <1>1, <2>1, TurnsKept DEF Begins
<1>2. ASSUME NEW v \in Doc, Edit(s, v), Begins(s, "edit", "wait") PROVE TurnsTell'
  <2>1. ~Checking(s) /\ turns' = Append(turns, s)
    BY <1>2 DEF Begins, Checking, Edit
  <2> QED BY <1>2, <2>1, TurnsJoined DEF Begins
<1>3. ASSUME beginNow(s), calls' = calls PROVE TurnsTell'
  <2>1. turns' = turns
    BY <1>3 DEF beginNow
  <2> QED BY <1>3, <2>1, TurnsKept DEF Checking
<1>4. ASSUME NEW r \in Repos, configureBackend(s, r), Begins(s, "configure", "statusBackend") PROVE TurnsTell'
  BY <1>1, <1>4 DEF configureBackend, Checks
<1>5. ASSUME removeBackend(s), Begins(s, "remove", "forget") PROVE TurnsTell'
  BY <1>1, <1>5 DEF removeBackend, Checks
<1>6. ASSUME NEW b \in BOOLEAN, savePreference(s, b), Begins(s, "prefs", "store") PROVE TurnsTell'
  BY <1>1, <1>6 DEF savePreference, Checks
<1>7. ASSUME NEW b \in BOOLEAN, resolveConflict(s, b), Begins(s, "resolve", "require") PROVE TurnsTell'
  BY <1>1, <1>7 DEF resolveConflict, Checks
<1>8. ASSUME beginNow(s) \/ sendMessage(s), Begins(s, "run", "flush") PROVE TurnsTell'
  BY <1>1, <1>8 DEF beginNow, sendMessage, Checks
<1>9. ASSUME later(s), Begins(s, "later", "statusBackend") PROVE TurnsTell'
  BY <1>1, <1>9 DEF later, Checks
<1> QED BY <1>2, <1>3, <1>4, <1>5, <1>6, <1>7, <1>8, <1>9, ClickBegins
-----------------------------------------------------------------------------
(* Types *)

StoresTyped ==
    /\ local \in Doc /\ remote \in [Repos -> Doc] /\ backend \in Repos \cup {None}
    /\ saved \in State /\ held \in [Repos -> SUBSET Versions]
    /\ ignore \in BOOLEAN /\ auto \in BOOLEAN

PageTyped ==
    /\ busy \in BOOLEAN /\ conflict \in BOOLEAN /\ dirty \in BOOLEAN /\ messageOpen \in BOOLEAN
    /\ status \in Status \cup {None} /\ modal \in {"none", "conflict", "message"}

UserTyped == manner \in Manners /\ acts \in 0 .. MaxActs[manner]

LEMMA TypeParts ==
    ASSUME UserTyped, StoresTyped, PageTyped, TurnsTell, calls \in [Slots -> Call \cup {None}]
    PROVE  TypeOK
<1>1. \A i, j \in DOMAIN turns : turns[i] \in Slots /\ (turns[i] = turns[j] => i = j)
  BY DEF TurnsTell
<1> QED BY <1>1 DEF UserTyped, StoresTyped, PageTyped, TypeOK

LEMMA PartsOfType ==
    ASSUME TypeOK
    PROVE  UserTyped /\ StoresTyped /\ PageTyped
BY DEF UserTyped, StoresTyped, PageTyped, TypeOK

LEMMA HeldMore ==
    ASSUME StoresTyped, NEW r, NEW v \in Doc, held' = [held EXCEPT ![r] = @ \cup ({v} \ {None})]
    PROVE  held' \in [Repos -> SUBSET Versions]
<1>1. held \in [Repos -> SUBSET Versions] /\ {v} \ {None} \in SUBSET Versions
  BY DEF StoresTyped, Doc
<1>2. \A x \in SUBSET Versions : x \cup ({v} \ {None}) \in SUBSET Versions
  BY <1>1
<1>3. DOMAIN held' = Repos /\ \A q \in Repos : held'[q] = held[q] \/ held'[q] = held[q] \cup ({v} \ {None})
  BY <1>1
<1>4. \A q \in Repos : held'[q] \in SUBSET Versions
  BY <1>1, <1>2, <1>3
<1>5. held' = [q \in Repos |-> held'[q]]
  BY <1>1
<1> QED BY <1>4, <1>5

LEMMA SentTyped ==
    ASSUME TInv, NEW s \in Slots, calls[s] \in Call, NEW next, Sends(s, next)
    PROVE  StoresTyped'
<1>1. StoresTyped /\ calls[s].local \in Doc
  BY PartsOfType DEF TInv, Call
<1>2. held' \in [Repos -> SUBSET Versions]
  BY <1>1, HeldMore DEF Sends
<1>3. remote' \in [Repos -> Doc]
  BY <1>1 DEF Sends, StoresTyped
<1> QED BY <1>1, <1>2, <1>3 DEF Sends, StoresTyped

LEMMA StoresAnswered ==
    ASSUME TInv, NEW s \in Slots, Answer(s)
    PROVE  StoresTyped'
<1>1. StoresTyped /\ TypeOK
  BY PartsOfType DEF TInv
<1>2. calls[s] # None => calls[s] \in Call /\ calls[s].read \in State /\ calls[s].local \in Doc
                          /\ calls[s].file \in Doc /\ calls[s].ignore \in BOOLEAN
  BY <1>1, NoneIsNoCall DEF TypeOK, Call
<1>3. UNCHANGED stores => StoresTyped'
  BY <1>1 DEF stores, StoresTyped
<1>4. ASSUME NEW step, NEW record \in State, WriteState(s, step, record) PROVE StoresTyped'
  BY <1>1, <1>4 DEF WriteState, StoresTyped
<1>5. ASSUME NEW next, Takes(s, next), calls[s] # None PROVE StoresTyped'
  BY <1>1, <1>2, <1>5 DEF Takes, StoresTyped
<1>6. CASE Opens(s) \/ ForgetFails(s) \/ Flush(s) \/ requireBackend(s) \/ readScopeForResolve(s)
           \/ List(s) \/ Decide(s) \/ NetworkFails(s) \/ onSettled(s) \/ StartDirty(s)
           \/ statusBackend(s) \/ statusState(s)
  BY <1>3, <1>6 DEF Opens, ForgetFails, Flush, requireBackend, readScopeForResolve, List, Decide,
        NetworkFails, onSettled, StartDirty, statusBackend, statusState
<1>7. CASE \E step, next : ReadState(s, step, next)
  BY <1>3, <1>7 DEF ReadState
<1>8. CASE \E step, next : collectLocal(s, step, next)
  BY <1>3, <1>8 DEF collectLocal
<1>9. CASE hasPendingChanges(s)
  <2>1. UNCHANGED stores
    BY <1>9 DEF hasPendingChanges, Dirty, collectLocal
  <2> QED BY <1>3, <2>1
<1>10. CASE Register(s)
  <2>1. calls[s].repo \in Repos
    BY <1>10, CallAt DEF Register, Fits
  <2> QED BY <1>1, <1>10, <2>1 DEF Register, StoresTyped
<1>11. CASE Forget(s)
  <2>1. NoState \in State
    BY DEF NoState, State, Doc
  <2> QED BY <1>1, <1>11, <2>1 DEF Forget, StoresTyped
<1>12. CASE StorePreference(s)
  <2>1. ignore' \in BOOLEAN /\ auto' \in BOOLEAN
    BY <1>12, StorePreferenceMoves
  <2> QED BY <1>1, <1>12, <2>1 DEF StorePreference, StoresTyped
<1>13. CASE rememberScope(s)
  <2>1. calls[s] # None
    BY <1>13 DEF rememberScope, WriteState, At
  <2>2. [calls[s].read EXCEPT !.scope = calls[s].ignore] \in State
    BY <1>2, <2>1 DEF State
  <2> QED BY <1>4, <1>13, <2>2 DEF rememberScope
<1>14. CASE Push(s) \/ PushUnanswered(s) \/ AnswerMine(s)
  <2>1. calls[s] # None
    BY <1>14 DEF Push, PushUnanswered, AnswerMine, At
  <2>2. UNCHANGED stores \/ \E next : Sends(s, next)
    BY <1>14 DEF Push, PushUnanswered, AnswerMine
  <2> QED BY <1>2, <1>3, <2>1, <2>2, SentTyped
<1>15. CASE Pull(s)
  <2>1. calls[s] # None /\ Takes(s, "advance")
    BY <1>15 DEF Pull, At
  <2> QED BY <1>5, <2>1
<1>16. CASE AnswerTheirs(s)
  <2>1. calls[s] # None
    BY <1>16 DEF AnswerTheirs, At
  <2>2. CASE calls[s].file = None
    <3>1. held' \in [Repos -> SUBSET Versions]
      BY <1>1, <1>2, <1>16, <2>1, <2>2, HeldMore DEF AnswerTheirs
    <3> QED BY <1>1, <1>16, <2>2, <3>1 DEF AnswerTheirs, StoresTyped
  <2>3. CASE calls[s].file # None
    <3>1. Takes(s, "pin")
      BY <1>16, <2>3 DEF AnswerTheirs
    <3> QED BY <1>5, <2>1, <3>1
  <2> QED BY <2>2, <2>3
<1>17. CASE writeSnapshotEntry(s)
  <2>1. calls[s] # None
    BY <1>17 DEF writeSnapshotEntry, WriteState, At
  <2>2. (IF calls[s].mine THEN calls[s].local ELSE calls[s].file) \in Doc
    BY <1>2, <2>1
  <2>3. [calls[s].read EXCEPT !.snapshot = IF calls[s].mine THEN calls[s].local ELSE calls[s].file] \in State
    BY <1>2, <2>1, <2>2 DEF State
  <2> QED BY <1>4, <1>17, <2>3 DEF writeSnapshotEntry
<1>18. CASE advanceSnapshot(s)
  <2>1. calls[s] # None
    BY <1>18 DEF advanceSnapshot, WriteState, At
  <2>2. [calls[s].read EXCEPT !.snapshot = calls[s].local, !.synced = TRUE] \in State
    BY <1>2, <2>1 DEF State
  <2> QED BY <1>4, <1>18, <2>2 DEF advanceSnapshot
<1>19. CASE clearError(s)
  <2>1. calls[s] # None
    BY <1>19 DEF clearError, WriteState, At
  <2>2. [calls[s].read EXCEPT !.error = FALSE] \in State
    BY <1>2, <2>1 DEF State
  <2> QED BY <1>4, <1>19, <2>2 DEF clearError
<1>20. CASE recordError(s)
  <2>1. calls[s] # None
    BY <1>20 DEF recordError, WriteState, At
  <2>2. [calls[s].read EXCEPT !.error = TRUE] \in State
    BY <1>2, <2>1 DEF State
  <2> QED BY <1>4, <1>20, <2>2 DEF recordError
<1> QED BY <1>6, <1>7, <1>8, <1>9, <1>10, <1>11, <1>12, <1>13, <1>14, <1>15, <1>16, <1>17, <1>18,
           <1>19, <1>20 DEF Answer

LEMMA PageAnswered ==
    ASSUME TInv, NEW s \in Slots, Sorted(s)
    PROVE  PageTyped'
<1>1. PageTyped
  BY PartsOfType DEF TInv
<1>2. CASE Quiet(s) \/ Queues(s) \/ StartDirty(s)
  BY <1>1, <1>2 DEF Quiet, Queues, StartDirty, page, PageTyped
<1>3. CASE Answered(s)
  BY <1>1, <1>3 DEF Answered, PageTyped
<1>4. CASE Flush(s)
  BY <1>1, <1>4 DEF Flush, PageTyped
<1>5. CASE statusState(s)
  <2>1. Wanted \in {"none", "conflict", "message"}
    BY DEF Wanted
  <2> QED BY <1>1, <1>5, <2>1, StatusRead DEF PageTyped
<1>6. CASE \E pending \in BOOLEAN : Checked(s, pending)
  <2>1. PICK pending \in BOOLEAN : Checked(s, pending)
    BY <1>6
  <2> QED BY <1>1, <2>1 DEF Checked, PageTyped
<1> QED BY <1>2, <1>3, <1>4, <1>5, <1>6 DEF Sorted

\* The bound of what the user does counts up by one.
LEMMA ActsTyped ==
    ASSUME UserTyped, Acts
    PROVE  UserTyped'
<1>1. MaxActs[manner] \in Nat /\ acts \in Nat
  BY ControllerBounds DEF UserTyped
<1> QED BY <1>1 DEF Acts, UserTyped

LEMMA ClickTyped ==
    ASSUME TInv, NEW s \in Slots, Click(s)
    PROVE  UserTyped' /\ StoresTyped' /\ PageTyped'
<1>1. UserTyped /\ StoresTyped /\ PageTyped
  BY PartsOfType DEF TInv
<1>2. UserMay
  BY DEF Click, Edit, configureBackend, removeBackend, savePreference, resolveConflict,
         beginNow, sendMessage, later
<1>3. UserTyped'
  BY <1>1, <1>2, ActsTyped DEF UserMay
<1>4. StoresTyped'
  <2>1. CASE \E v \in Doc : Edit(s, v)
    BY <1>1, <2>1 DEF Edit, StoresTyped
  <2>2. CASE removeBackend(s)
    BY <1>1, <2>2 DEF removeBackend, StoresTyped
  <2>3. ASSUME UNCHANGED stores PROVE StoresTyped'
    BY <1>1, <2>3 DEF stores, StoresTyped
  <2> QED BY <2>1, <2>2, <2>3 DEF Click, configureBackend, savePreference, resolveConflict,
               beginNow, sendMessage, later
<1>5. PageTyped'
  <2>1. ASSUME UNCHANGED page PROVE PageTyped'
    BY <1>1, <2>1 DEF page, PageTyped
  <2>2. CASE \E r \in Repos : configureBackend(s, r)
    BY <1>1, <2>2 DEF configureBackend, PageTyped
  <2>3. CASE beginNow(s)
    BY <1>1, <2>3 DEF beginNow, PageTyped
  <2>4. CASE sendMessage(s) \/ later(s)
    BY <1>1, <2>4 DEF sendMessage, later, PageTyped
  <2> QED BY <2>1, <2>2, <2>3, <2>4 DEF Click, Edit, removeBackend, savePreference, resolveConflict
<1> QED BY <1>3, <1>4, <1>5

LEMMA CallsFitMoved ==
    ASSUME TInv, NEW s \in Slots,
           \A t \in Slots : t # s => calls'[t] = calls[t],
           calls'[s] # None => Fits(calls'[s])
    PROVE  CallsFit'
BY DEF TInv, CallsFit, Fits

LEMMA TypesKept ==
    ASSUME TInv, [Next]_vars
    PROVE  TInv'
<1>1. UserTyped /\ StoresTyped /\ PageTyped
  BY PartsOfType DEF TInv
<1>2. calls \in [Slots -> Call \cup {None}] /\ CallsFit /\ TurnsTell
  BY DEF TInv, TypeOK
<1>3. ASSUME NEW s \in Slots, Answer(s) PROVE TInv'
  <2>1. Moves(s) /\ Sorted(s) /\ UNCHANGED user
    BY <1>3, AnswersSorted
  <2>2. UserTyped' /\ StoresTyped' /\ PageTyped' /\ TurnsTell'
    BY <1>1, <1>3, <2>1, StoresAnswered, PageAnswered, TurnsAnswered DEF user, UserTyped
  <2>3. CallsFit'
    BY <2>1, CallsFitMoved DEF Moves
  <2>4. calls' \in [Slots -> Call \cup {None}]
    BY <2>1 DEF Moves
  <2>5. TypeOK'
    BY <2>2, <2>4 DEF UserTyped, StoresTyped, PageTyped, TypeOK, TurnsTell
  <2> QED BY <2>2, <2>3, <2>5 DEF TInv
<1>4. ASSUME NEW s \in Slots, Click(s) PROVE TInv'
  <2>1. UserTyped' /\ StoresTyped' /\ PageTyped' /\ TurnsTell'
    BY <1>4, ClickTyped, TurnsClicked
  <2>2. \/ calls' = calls
        \/ /\ calls' \in [Slots -> Call \cup {None}] /\ \A t \in Slots : t # s => calls'[t] = calls[t]
           /\ calls'[s] # None => Fits(calls'[s])
    BY <1>4, ClickBegins DEF Begins
  <2>3. CallsFit' /\ calls' \in [Slots -> Call \cup {None}]
    BY <1>2, <2>2, CallsFitMoved DEF CallsFit, Fits
  <2>4. TypeOK'
    BY <2>1, <2>3 DEF UserTyped, StoresTyped, PageTyped, TypeOK, TurnsTell
  <2> QED BY <2>1, <2>3, <2>4 DEF TInv
<1>5. ASSUME calls' = calls, turns' = turns, UserTyped', StoresTyped', PageTyped' PROVE TInv'
  <2>1. CallsFit' /\ TurnsTell' /\ calls' \in [Slots -> Call \cup {None}]
    BY <1>2, <1>5 DEF CallsFit, Fits, TurnsTell, Checking, InTurn
  <2>2. TypeOK'
    BY <1>5, <2>1 DEF UserTyped, StoresTyped, PageTyped, TypeOK, TurnsTell
  <2> QED BY <2>1, <2>2 DEF TInv
<1>6. CASE dismissMessage
  <2>1. UserTyped' /\ StoresTyped' /\ PageTyped'
    BY <1>1, <1>6, ActsTyped DEF dismissMessage, UserMay, stores, StoresTyped, PageTyped
  <2> QED BY <1>5, <1>6, <2>1 DEF dismissMessage
<1>7. ASSUME NEW r \in Repos, NEW v \in Doc, Foreign(r, v) PROVE TInv'
  <2>1. held' \in [Repos -> SUBSET Versions]
    BY <1>1, <1>7, HeldMore DEF Foreign
  <2>2. UserTyped' /\ StoresTyped' /\ PageTyped'
    BY <1>1, <1>7, <2>1, ActsTyped DEF Foreign, page, StoresTyped, PageTyped
  <2> QED BY <1>5, <1>7, <2>2 DEF Foreign
<1>8. CASE UNCHANGED vars
  <2>1. UserTyped' /\ StoresTyped' /\ PageTyped'
    BY <1>1, <1>8 DEF vars, user, stores, page, UserTyped, StoresTyped, PageTyped
  <2> QED BY <1>5, <1>8, <2>1 DEF vars
<1> QED BY <1>3, <1>4, <1>6, <1>7, <1>8 DEF Next

LEMMA LoadCalls ==
    /\ NewCall("load", "statusBackend") \in Call /\ Fits(NewCall("load", "statusBackend"))
    /\ NewCall("load", "statusBackend").step = "statusBackend" /\ NewCall("load", "statusBackend").kind = "load"
    /\ NewCall("load", "statusBackend").again = "done"
    /\ NewCall("edit", "wait") \in Call /\ Fits(NewCall("edit", "wait"))
    /\ NewCall("edit", "wait").step = "wait" /\ NewCall("edit", "wait").kind = "edit"
    /\ NewCall("load", "statusBackend").file = None /\ NewCall("edit", "wait").file = None
    /\ NewCall("load", "statusBackend").read = NoState /\ NewCall("edit", "wait").read = NoState
BY NewCallFits DEF Kinds

\* How the page finds things when it has loaded.
LEMMA InitCalls ==
    ASSUME Init
    PROVE  \E s, t \in Slots :
              /\ s # t /\ turns = <<t>> /\ calls \in [Slots -> Call \cup {None}]
              /\ calls[s] = NewCall("load", "statusBackend") /\ calls[t] = NewCall("edit", "wait")
              /\ \A q \in Slots : q # s /\ q # t => calls[q] = None
<1>1. PICK s \in Slots, t \in Slots :
          /\ s # t /\ turns = <<t>>
          /\ calls = [q \in Slots |-> IF q = s THEN NewCall("load", "statusBackend")
                                      ELSE IF q = t THEN NewCall("edit", "wait") ELSE None]
  BY DEF Init
<1>2. calls \in [Slots -> Call \cup {None}]
  BY <1>1, LoadCalls
<1> QED BY <1>1, <1>2

LEMMA TypesAtFirst ==
    ASSUME Init
    PROVE  TInv
<1>1. PICK s \in Slots, t \in Slots :
              /\ s # t /\ turns = <<t>> /\ calls \in [Slots -> Call \cup {None}]
              /\ calls[s] = NewCall("load", "statusBackend") /\ calls[t] = NewCall("edit", "wait")
              /\ \A q \in Slots : q # s /\ q # t => calls[q] = None
  BY InitCalls
<1>2. CallsFit
  BY <1>1, LoadCalls DEF CallsFit
<1>3. TurnsTell
  <2>1. turns \in Seq(Slots) /\ Len(turns) = 1 /\ turns[1] = t /\ turns # <<>>
    BY <1>1
  <2>2. \A q \in Slots : Checking(q) <=> q = t
    BY <1>1, LoadCalls, NoneIsNoCall DEF Checking, Checks
  <2>3. \A q \in Slots : InTurn(q) <=> q = t
    BY <2>1 DEF InTurn
  <2> QED BY <2>1, <2>2, <2>3 DEF TurnsTell
<1>4. UserTyped
  <2>1. manner \in Manners /\ acts = 0
    BY DEF Init
  <2>2. MaxActs[manner] \in Nat
    BY <2>1, ControllerBounds
  <2>3. 0 \in 0 .. MaxActs[manner]
    BY <2>2
  <2> QED BY <2>1, <2>3 DEF UserTyped
<1>5. PageTyped
  BY DEF Init, PageTyped
<1>6. StoresTyped
  <2>1. ignore \in BOOLEAN /\ auto \in BOOLEAN /\ local \in Doc /\ remote \in [Repos -> Doc]
    BY DEF Init
  <2>2. NoState \in State
    BY DEF NoState, State, Doc
  <2>3. \A r \in Repos : {remote[r]} \ {None} \in SUBSET Versions
    BY <2>1 DEF Doc
  <2>4. CASE backend = None /\ saved = NoState /\ held = [r \in Repos |-> {remote[r]} \ {None}]
    BY <2>1, <2>2, <2>3, <2>4 DEF StoresTyped
  <2>5. ASSUME NEW base \in Doc, backend \in Repos,
               saved = [NoState EXCEPT !.snapshot = base, !.scope = FALSE, !.synced = TRUE],
               held = [r \in Repos |-> ({remote[r]} \cup (IF r = backend THEN {base} ELSE {})) \ {None}]
        PROVE  StoresTyped
    <3>1. saved \in State
      BY <2>5 DEF NoState, State, Doc
    <3>2. \A r \in Repos : ({remote[r]} \cup (IF r = backend THEN {base} ELSE {})) \ {None} \in SUBSET Versions
      BY <2>1 DEF Doc
    <3> QED BY <2>1, <2>5, <3>1, <3>2 DEF StoresTyped
  <2> QED BY <2>4, <2>5 DEF Init
<1> QED BY <1>1, <1>2, <1>3, <1>4, <1>5, <1>6, TypeParts DEF TInv

LEMMA TypesInvariant == Spec => []TInv
<1>1. Init => TInv
  BY TypesAtFirst
<1>2. TInv /\ [Next]_vars => TInv'
  BY TypesKept
<1> QED BY <1>1, <1>2, PTL DEF Spec

\* Whatever operations overlap, what is stored, shown and under way keeps its type,
\* and no slot has two places in the chain of dirty checks (TInv adds that every
\* operation is at a step that its kind has).
THEOREM ControllerTyped == Spec => []TypeOK
<1>1. TInv => TypeOK
  BY DEF TInv
<1> QED BY <1>1, TypesInvariant, PTL
-----------------------------------------------------------------------------
(* The page settles *)

LEMMA EditChecks ==
    ASSUME NEW c \in Call, Fits(c), c.kind = "edit"
    PROVE  c.step \in Checks
BY DEF Call, Fits, Steps, Checks, Looks, Round, Writes, Runs

\* An operation that is no check of a save goes on until its status is rendered.
LEMMA GoesOn ==
    ASSUME TInv, NEW s \in Slots, Moves(s), Sorted(s), calls'[s] = None
    PROVE  calls[s].kind = "edit" \/ (statusState(s) /\ calls[s].again = "done")
<1>1. CASE Quiet(s) \/ Answered(s) \/ Queues(s)
  BY <1>1 DEF Quiet, Answered, Queues
<1>2. CASE StartDirty(s) \/ Flush(s)
  BY <1>2, StartDirtyMoves, FlushMoves
<1>3. CASE statusState(s)
  BY <1>3, statusStateMoves
<1>4. CASE \E pending \in BOOLEAN : Checked(s, pending)
  BY <1>4 DEF Checked
<1> QED BY <1>1, <1>2, <1>3, <1>4 DEF Sorted

LEMMA UnderLasts ==
    ASSUME TInv, NEW s \in Slots, Moves(s), Sorted(s), ~statusState(s),
           NEW kinds, "edit" \notin kinds, \E w \in Slots : Under(w, kinds)
    PROVE  (\E w \in Slots : Under(w, kinds))'
<1>1. PICK w \in Slots : Under(w, kinds)
  OBVIOUS
<1>2. Under(w, kinds)'
  BY <1>1, GoesOn DEF Under, Moves
<1> QED BY <1>2

\* A click begins an operation in a free slot, and leaves the others alone.
LEMMA UnderClicked ==
    ASSUME TInv, NEW s \in Slots, Click(s), NEW w \in Slots, calls[w] # None
    PROVE  calls'[w] = calls[w]
BY ClickBegins DEF Begins

LEMMA BusyAnswered ==
    ASSUME TInv, BusyEnds, NEW s \in Slots, Answer(s)
    PROVE  BusyEnds'
<1>1. Moves(s) /\ Sorted(s)
  BY AnswersSorted
<1>2. /\ calls[s] \in Call /\ calls[s] # None /\ \A t \in Slots : t # s => calls'[t] = calls[t]
      /\ Fits(calls[s])
  BY <1>1, NoneIsNoCall DEF Moves, TInv, CallsFit
<1>3. ASSUME busy' = busy, Settled(calls[s]) PROVE BusyEnds'
  BY <1>2, <1>3 DEF BusyEnds, Under, Settled
<1>4. ASSUME busy' = busy, calls[s].kind \notin {"run", "configure"} PROVE BusyEnds'
  BY <1>2, <1>4 DEF BusyEnds, Under, Settled
<1>5. ASSUME calls'[s] # None, calls'[s].kind \in {"run", "configure"}, ~Settled(calls'[s]) PROVE BusyEnds'
  BY <1>5 DEF BusyEnds, Under, Settled
<1>6. CASE Quiet(s)
  <2>1. busy' = busy /\ calls'[s] # None /\ calls'[s].kind = calls[s].kind
    BY <1>6 DEF Quiet, page, Moves
  <2> QED BY <1>3, <1>4, <1>5, <1>6, <2>1 DEF Quiet
<1>7. CASE Answered(s)
  BY <1>4, <1>7 DEF Answered, BusyEnds
<1>8. CASE Queues(s)
  <2>1. busy' = busy
    BY <1>8 DEF Queues, page
  <2>2. calls[s].step = "settle" \/ calls[s].kind = "prefs"
    BY <1>2, <1>8 DEF Queues, Fits
  <2> QED BY <1>3, <1>4, <2>1, <2>2 DEF Settled
<1>9. CASE StartDirty(s)
  <2>1. busy' = busy /\ calls[s].step = "wait"
    BY <1>9, StartDirtyMoves DEF StartDirty, page
  <2> QED BY <1>3, <2>1 DEF Settled, Checks
<1>10. CASE Flush(s)
  <2>1. NewCall("run", "statusBackend") \in Call /\ NewCall("run", "statusBackend").step = "statusBackend"
        /\ NewCall("run", "statusBackend").kind = "run"
    BY NewCallTyped DEF Kinds, Steps
  <2>2. calls'[s] # None /\ calls'[s].step = "statusBackend" /\ calls'[s].kind = "run" /\ calls'[s].again = "require"
    BY <1>10, <2>1, FlushMoves DEF Call
  <2> QED BY <1>5, <2>2 DEF Settled, Checks
<1>11. CASE statusState(s)
  <2>1. busy' = busy /\ calls[s].step = "statusState"
    BY <1>11, StatusRead, statusStateMoves
  <2>2. CASE calls[s].again = "done"
    BY <1>3, <2>1, <2>2 DEF Settled, Looks
  <2>3. CASE calls[s].again # "done"
    <3>1. /\ calls'[s] # None /\ calls[s].again \in {"open", "require"}
          /\ calls'[s] = [On(s, calls[s].again) EXCEPT !.again = "done", !.mine = FALSE, !.ignore = ignore]
      BY <1>11, <2>3, statusStateMoves
    <3>2. calls'[s].step = calls[s].again /\ calls'[s].kind = calls[s].kind
      BY <1>2, <3>1 DEF On, Call
    <3> QED BY <1>2, <1>5, <2>3, <3>1, <3>2 DEF Settled, Checks, Looks, Fits
  <2> QED BY <2>2, <2>3
<1>12. CASE \E pending \in BOOLEAN : Checked(s, pending)
  <2>1. busy' = busy /\ calls[s].step \in Checks
    BY <1>12 DEF Checked, Checks
  <2> QED BY <1>3, <2>1 DEF Settled
<1> QED BY <1>1, <1>6, <1>7, <1>8, <1>9, <1>10, <1>11, <1>12 DEF Sorted

LEMMA StatusAnswered ==
    ASSUME TInv, BusyEnds', StatusEnds, NEW s \in Slots, Answer(s)
    PROVE  StatusEnds'
<1>1. Moves(s) /\ Sorted(s)
  BY AnswersSorted
<1>2. CASE statusState(s)
  <2>1. status'.busy = busy /\ busy' = busy
    BY <1>2, StatusRead
  <2>2. busy' => (\E w \in Slots : Under(w, {"run", "configure"}))'
    BY DEF BusyEnds
  <2> QED BY <2>1, <2>2 DEF StatusEnds
<1>3. CASE ~statusState(s)
  <2>1. status' # None /\ status'.busy => status # None /\ status.busy
    BY <1>1, <1>3 DEF Sorted, Quiet, Answered, Queues, StartDirty, Flush, Checked, page
  <2>2. status' # None /\ status'.busy => (\E w \in Slots : Under(w, {"run", "configure"}))'
    BY <1>1, <1>3, <2>1, UnderLasts DEF StatusEnds
  <2> QED BY <2>2 DEF StatusEnds
<1> QED BY <1>2, <1>3

LEMMA ModalAnswered ==
    ASSUME TInv, ModalEnds, NEW s \in Slots, Answer(s)
    PROVE  ModalEnds'
<1>1. Moves(s) /\ Sorted(s)
  BY AnswersSorted
<1>2. calls[s] \in Call /\ calls[s] # None /\ Fits(calls[s])
  BY <1>1, NoneIsNoCall DEF Moves, TInv, CallsFit
<1>3. CASE statusState(s)
  BY <1>3, StatusRead DEF ModalEnds, Wanted
<1>4. CASE (Answered(s) /\ ~Settled(calls[s])) \/ Flush(s)
  <2>1. calls'[s] # None /\ calls'[s].kind \in NotEdit
    <3>1. CASE Answered(s) /\ ~Settled(calls[s])
      <4>1. calls[s].kind # "edit"
        BY <1>2, <3>1, EditChecks DEF Settled
      <4> QED BY <3>1, <4>1 DEF Answered, Moves, NotEdit, Call
    <3>2. CASE Flush(s)
      BY <3>2, FlushMoves DEF Moves, NotEdit, Kinds
    <3> QED BY <1>4, <3>1, <3>2
  <2> QED BY <2>1 DEF ModalEnds, Under
<1>5. CASE ~statusState(s) /\ ~((Answered(s) /\ ~Settled(calls[s])) \/ Flush(s))
  <2>1. UNCHANGED <<modal, conflict, messageOpen>>
    BY <1>1, <1>5 DEF Sorted, Quiet, Queues, StartDirty, Checked, page
  <2>2. modal' # Wanted' => \E w \in Slots : Under(w, NotEdit)
    BY <2>1 DEF ModalEnds, Wanted
  <2>3. modal' # Wanted' => (\E w \in Slots : Under(w, NotEdit))'
    BY <1>1, <1>5, <2>2, UnderLasts DEF NotEdit
  <2> QED BY <2>3 DEF ModalEnds
<1> QED BY <1>3, <1>4, <1>5

VInv == TInv /\ BusyEnds /\ StatusEnds /\ ModalEnds

LEMMA ViewClicked ==
    ASSUME VInv, NEW s \in Slots, Click(s)
    PROVE  BusyEnds' /\ StatusEnds' /\ ModalEnds'
<1> USE DEF VInv
<1>1. \A w \in Slots : calls[w] # None => calls'[w] = calls[w]
  BY UnderClicked
<1>2. status' = status
  BY DEF Click, Edit, configureBackend, removeBackend, savePreference, resolveConflict,
         beginNow, sendMessage, later, page
<1>3. StatusEnds'
  BY <1>1, <1>2 DEF StatusEnds, Under
<1>4. BusyEnds'
  <2>1. CASE \E r \in Repos : configureBackend(s, r)
    <3>1. /\ calls'[s] # None /\ calls'[s].kind = "configure" /\ calls'[s].step = "statusBackend"
          /\ calls'[s].again = "open"
      BY <2>1, configureBegins DEF Begins
    <3> QED BY <3>1 DEF BusyEnds, Under, Settled, Checks
  <2>2. ASSUME busy' = busy PROVE BusyEnds'
    BY <1>1, <2>2 DEF BusyEnds, Under, Settled
  <2> QED BY <2>1, <2>2 DEF Click, Edit, removeBackend, savePreference, resolveConflict,
               beginNow, sendMessage, later, page
<1>5. ModalEnds'
  <2>1. ASSUME NEW kind \in NotEdit, NEW step, Begins(s, kind, step) PROVE ModalEnds'
    BY <2>1 DEF ModalEnds, Under, Begins
  <2>2. ASSUME modal' = Wanted' \/ modal # Wanted PROVE ModalEnds'
    BY <1>1, <2>2 DEF ModalEnds, Under
  <2>3. CASE \E v \in Doc : Edit(s, v)
    <3>1. modal' = modal /\ Wanted' = Wanted
      BY <2>3 DEF Edit, page, Wanted
    <3> QED BY <2>2, <3>1
  <2>4. CASE beginNow(s) /\ calls' = calls
    <3>1. CASE auto
      BY <1>1, <2>4, <3>1 DEF beginNow, Wanted, ModalEnds, Under
    <3>2. CASE ~auto
      BY <2>2, <2>4, <3>2 DEF beginNow, Wanted, Clickable
    <3> QED BY <3>1, <3>2
  <2> QED BY <2>1, <2>3, <2>4, ClickBegins DEF NotEdit, Kinds
<1> QED BY <1>3, <1>4, <1>5

LEMMA ViewKept ==
    ASSUME VInv, [Next]_vars
    PROVE  VInv'
<1> USE DEF VInv
<1>1. TInv'
  BY TypesKept
<1>2. ASSUME NEW s \in Slots, Answer(s) PROVE VInv'
  BY <1>1, <1>2, BusyAnswered, StatusAnswered, ModalAnswered
<1>3. ASSUME NEW s \in Slots, Click(s) PROVE VInv'
  BY <1>1, <1>3, ViewClicked
<1>4. CASE dismissMessage
  <2>1. UNCHANGED <<calls, busy, status, conflict>> /\ modal = "message" /\ modal' = "none" /\ messageOpen' = FALSE
    BY <1>4 DEF dismissMessage
  <2>2. modal' # Wanted' => modal # Wanted
    BY <2>1 DEF Wanted
  <2> QED BY <1>1, <2>1, <2>2 DEF BusyEnds, StatusEnds, ModalEnds, Under, Settled
<1>5. CASE (\E r \in Repos, v \in Doc : Foreign(r, v)) \/ UNCHANGED vars
  <2>1. UNCHANGED page /\ UNCHANGED calls
    BY <1>5 DEF Foreign, vars
  <2> QED BY <1>1, <2>1 DEF page, BusyEnds, StatusEnds, ModalEnds, Under, Settled, Wanted
<1> QED BY <1>2, <1>3, <1>4, <1>5 DEF Next

\* Whatever operations overlapped before, when nothing is under way the page is not
\* stuck: it is not busy, no button is disabled by a busy status read too early, no
\* check waits for a turn that will not come, and the modal on the page is the one
\* the controller would show.
THEOREM PageSettles == Spec => []ViewSettles
<1>1. Init => VInv
  <2>1. ASSUME Init PROVE VInv
    BY <2>1, TypesAtFirst DEF Init, VInv, BusyEnds, StatusEnds, ModalEnds, Wanted
  <2> QED BY <2>1
<1>2. VInv /\ [Next]_vars => VInv'
  BY ViewKept
<1>3. VInv => ViewSettles
  <2>1. ASSUME VInv, Idle PROVE ~busy /\ (status # None => ~status.busy) /\ modal = Wanted
    BY <2>1 DEF VInv, Idle, BusyEnds, StatusEnds, ModalEnds, Under
  <2>2. ASSUME VInv, Idle PROVE turns = <<>>
    <3>1. turns \in Seq(Slots) /\ \A s \in Slots : ~InTurn(s)
      BY <2>2 DEF VInv, TInv, TurnsTell, Idle, Checking
    <3>2. ASSUME turns # <<>> PROVE FALSE
      <4>1. 1 \in 1 .. Len(turns) /\ turns[1] \in Slots
        BY <3>1, <3>2
      <4> QED BY <3>1, <4>1 DEF InTurn
    <3> QED BY <3>2
  <2> QED BY <2>1, <2>2 DEF ViewSettles, Wanted
<1> QED BY <1>1, <1>2, <1>3, PTL DEF Spec
-----------------------------------------------------------------------------
(* What an operation still has to do *)

\* What an operation has read and has still to do, when it has been answered.
Told(s) ==
    /\ \/ calls'[s].read \in {calls[s].read, NoState}
       \/ calls'[s].read = saved /\ (Rounding(calls[s]) \/ calls[s].step = "errorRead")
    /\ Rounding(calls'[s]) => Rounding(calls[s]) \/ backend # None
    /\ calls'[s].step # "forget"
    /\ WillCheck(calls[s]) => WillCheck(calls'[s]) \/ calls[s].step = "wait"
    /\ Unsettled(calls[s]) => \/ Unsettled(calls'[s]) \/ calls'[s].step = "wait"
                              \/ calls[s].step = "errorWrite"
                              \/ calls[s].step = "require" /\ backend = None

Onward == {<<"open", "register">>, <<"open", "errorRead">>,
           <<"require", "scopeRead">>, <<"require", "recall">>, <<"recall", "scopeRead">>,
           <<"scopeWrite", "collect">>, <<"collect", "list">>, <<"list", "base">>, <<"list", "errorRead">>,
           <<"base", "advance">>, <<"base", "push">>, <<"base", "pull">>,
           <<"push", "advance">>, <<"push", "errorRead">>, <<"pull", "advance">>,
           <<"answer", "pin">>, <<"pin", "advance">>,
           <<"advance", "stateRead">>, <<"stateWrite", "clearRead">>,
           <<"wait", "dirtyBackend">>, <<"dirtyBackend", "dirtyLocal">>, <<"dirtyLocal", "dirtyState">>,
           <<"statusBackend", "statusState">>, <<"statusState", "open">>, <<"statusState", "require">>}
Reading == {<<"scopeRead", "scopeWrite">>, <<"base", "recheck">>, <<"recheck", "answer">>,
            <<"stateRead", "stateWrite">>, <<"clearRead", "clearWrite">>, <<"errorRead", "errorWrite">>}

\* The operation goes on from step to step, having read what it had, or the state.
GoesFrom(s) ==
    /\ Moves(s) /\ calls'[s] # None
    /\ \/ <<calls[s].step, calls'[s].step>> \in Onward /\ calls'[s].read = calls[s].read
       \/ <<calls[s].step, calls'[s].step>> \in Reading /\ calls'[s].read = saved
    /\ calls'[s].step = "statusState" => calls'[s].again = calls[s].again
    /\ calls[s].step = "require" => backend # None

LEMMA ToldOnward ==
    ASSUME TInv, NEW s \in Slots, GoesFrom(s)
    PROVE  Told(s)
<1> DEFINE before == calls[s].step
           after == calls'[s].step
<1>1. /\ calls[s] \in Call /\ calls'[s] # None /\ calls'[s] \in Call /\ Fits(calls'[s])
      /\ calls'[s].kind = calls[s].kind
  BY DEF GoesFrom, Moves
<1>2. \/ calls'[s].read \in {calls[s].read, NoState}
      \/ calls'[s].read = saved /\ (Rounding(calls[s]) \/ calls[s].step = "errorRead")
  BY DEF GoesFrom, Onward, Reading, Rounding, Round, Writes
<1>3. Rounding(calls'[s]) => Rounding(calls[s]) \/ backend # None
  BY DEF GoesFrom, Onward, Reading, Rounding, Round, Writes
<1>4. calls'[s].step # "forget"
  BY DEF GoesFrom, Onward, Reading
<1>5. calls[s].step # "wait" => calls'[s].step # "wait" /\ (calls'[s].step \in Checks <=> calls[s].step \in Checks)
  BY DEF GoesFrom, Onward, Reading, Checks
<1>6. calls'[s].step \in Looks => calls[s].step \in Looks /\ calls'[s].again = calls[s].again
  BY DEF GoesFrom, Onward, Reading, Looks
<1>7. calls[s].step # "settle" /\ calls'[s].step # "settle"
  BY DEF GoesFrom, Onward, Reading
<1>8. ~Settled(calls[s]) => ~Settled(calls'[s])
  BY <1>5, <1>6, <1>7 DEF Settled, Checks
<1>9. calls[s].step \in Writes /\ calls[s].kind \in Runs => calls'[s].step \in Writes
  BY DEF GoesFrom, Onward, Reading, Writes
<1>10. WillCheck(calls[s]) => WillCheck(calls'[s]) \/ calls[s].step = "wait"
  BY <1>1, <1>7, <1>8, <1>9 DEF WillCheck
<1>11. Unsettled(calls[s]) => Unsettled(calls'[s])
  BY <1>1, <1>7, <1>8 DEF Unsettled
<1> QED BY <1>2, <1>3, <1>4, <1>10, <1>11 DEF Told

LEMMA ToldAnswered ==
    ASSUME TInv, NEW s \in Slots, Answered(s), calls[s].step # "settle",
           \/ calls[s].kind # "run" \/ calls'[s].step = "settle" \/ calls[s].step = "errorWrite"
           \/ calls[s].step = "require" /\ backend = None
    PROVE  Told(s)
<1> DEFINE step == IF calls'[s].step = "settle" THEN "settle" ELSE "statusBackend"
<1>1. /\ calls[s] \in Call /\ Fits(calls'[s]) /\ calls'[s].kind = calls[s].kind
      /\ calls'[s] = NewCall(calls[s].kind, step) /\ calls'[s].step \in {"settle", "statusBackend"}
      /\ calls[s].kind = "resolve" => calls'[s].step = "settle"
  BY DEF Answered, Moves
<1>2. calls'[s].read = NoState
  BY <1>1 DEF NewCall
<1>3. ~Rounding(calls'[s])
  BY <1>1 DEF Rounding, Round, Writes
<1>4. WillCheck(calls[s]) => WillCheck(calls'[s]) \/ calls[s].step = "wait"
  BY <1>1 DEF WillCheck, Writes, Runs
<1>5. Unsettled(calls[s]) => \/ Unsettled(calls'[s]) \/ calls[s].step = "errorWrite"
                             \/ calls[s].step = "require" /\ backend = None
  BY <1>1 DEF Unsettled, Runs
<1> QED BY <1>1, <1>2, <1>3, <1>4, <1>5 DEF Told

\* An operation that starts afresh: a check or a refresh is left to do.
LEMMA ToldAfresh ==
    ASSUME TInv, NEW s \in Slots, calls[s] \in Call, NEW step \in {"wait", "statusBackend"},
           calls'[s] = NewCall(calls[s].kind, step),
           step = "wait" \/ calls[s].kind \notin Runs \/ (Settled(calls[s]) /\ calls[s].step # "settle")
    PROVE  Told(s)
<1>1. calls'[s].step = step /\ calls'[s].read = NoState
  BY DEF NewCall
<1>2. ~Rounding(calls'[s])
  BY <1>1 DEF Rounding, Round, Writes
<1>3. WillCheck(calls[s]) => WillCheck(calls'[s]) \/ calls[s].step = "wait"
  BY <1>1 DEF WillCheck, Runs, Settled, Writes, Checks, Looks
<1>4. Unsettled(calls[s]) => calls'[s].step = "wait"
  BY <1>1 DEF Unsettled
<1> QED BY <1>1, <1>2, <1>3, <1>4 DEF Told

LEMMA AnswersTold ==
    ASSUME TInv, NEW s \in Slots, Answer(s), calls'[s] # None
    PROVE  Told(s)
<1>1. Moves(s) /\ calls[s] \in Call /\ calls[s].kind \in Kinds /\ Fits(calls[s])
  BY AnswersSorted, NoneIsNoCall DEF Moves, Call, TInv, CallsFit
<1>2. ASSUME NEW step \in Steps, calls'[s].step = step, calls'[s].read = calls[s].read,
             <<calls[s].step, step>> \in Onward, step = "statusState" => calls'[s].again = calls[s].again,
             calls[s].step = "require" => backend # None
      PROVE  Told(s)
  BY <1>1, <1>2, ToldOnward DEF GoesFrom
<1>3. ASSUME NEW step, calls'[s].step = step, calls'[s].read = saved, <<calls[s].step, step>> \in Reading
      PROVE  Told(s)
  <2>1. step # "statusState" /\ calls[s].step # "require"
    BY <1>3 DEF Reading
  <2> QED BY <1>1, <1>3, <2>1, ToldOnward DEF GoesFrom
<1>4. CASE Opens(s) \/ rememberScope(s) \/ Pull(s) \/ Push(s) \/ PushUnanswered(s)
           \/ writeSnapshotEntry(s) \/ advanceSnapshot(s) \/ AnswerTheirs(s)
  <2>1. \E step \in {"register", "collect", "advance", "errorRead", "clearRead", "pin"} :
           calls'[s] = On(s, step) /\ <<calls[s].step, step>> \in Onward
    BY <1>4, OpensMoves, rememberScopeMoves, PullMoves, PushMoves, PushUnansweredMoves,
       writeSnapshotEntryMoves, advanceSnapshotMoves, AnswerTheirsMoves
    DEF Opens, rememberScope, Pull, Push, PushUnanswered, writeSnapshotEntry, advanceSnapshot,
        WriteState, At, Onward
  <2>2. PICK step \in {"register", "collect", "advance", "errorRead", "clearRead", "pin"} :
           calls'[s] = On(s, step) /\ <<calls[s].step, step>> \in Onward
    BY <2>1
  <2>3. step \in Steps
    BY DEF Steps
  <2>4. calls'[s].step = step /\ calls'[s].read = calls[s].read
    BY <1>1, <2>2 DEF On, Call
  <2>5. calls[s].step # "require" /\ step # "statusState"
    BY <2>2 DEF Onward
  <2> QED BY <1>2, <2>2, <2>3, <2>4, <2>5
<1>5. ASSUME NEW step, NEW next, ReadState(s, step, next),
             <<step, next>> \in {<<"scopeRead", "scopeWrite">>, <<"recheck", "answer">>,
                               <<"stateRead", "stateWrite">>, <<"clearRead", "clearWrite">>,
                               <<"errorRead", "errorWrite">>}
      PROVE  Told(s)
  <2>1. calls'[s] = [On(s, next) EXCEPT !.read = saved] /\ calls[s].step = step
    BY <1>5, ReadStateMoves DEF ReadState, At
  <2>2. calls'[s].step = next /\ calls'[s].read = saved
    BY <1>1, <2>1 DEF On, Call
  <2>3. <<calls[s].step, next>> \in Reading
    BY <1>5, <2>1 DEF Reading
  <2> QED BY <1>3, <2>2, <2>3
<1>6. ASSUME NEW step, NEW next, collectLocal(s, step, next),
             <<step, next>> \in {<<"collect", "list">>, <<"advance", "stateRead">>,
                               <<"dirtyLocal", "dirtyState">>}
      PROVE  Told(s)
  <2>1. calls'[s] = [On(s, next) EXCEPT !.local = InScope(s, local)] /\ calls[s].step = step
    BY <1>6, collectLocalMoves DEF collectLocal, At
  <2>2. next \in Steps /\ <<calls[s].step, next>> \in Onward /\ next # "statusState" /\ calls[s].step # "require"
    BY <1>6, <2>1 DEF Steps, Onward
  <2>3. calls'[s].step = next /\ calls'[s].read = calls[s].read
    BY <1>1, <2>1 DEF On, Call
  <2> QED BY <1>2, <2>2, <2>3
<1>7. CASE List(s)
  <2>1. calls'[s] = [On(s, "base") EXCEPT !.file = InScope(s, remote[calls[s].repo])] /\ calls[s].step = "list"
    BY <1>7, ListMoves DEF List, At
  <2>2. calls'[s].step = "base" /\ calls'[s].read = calls[s].read
    BY <1>1, <2>1 DEF On, Call
  <2> QED BY <1>2, <2>1, <2>2 DEF Onward, Steps
<1>8. CASE Register(s) \/ Forget(s) \/ ForgetFails(s)
  <2>1. Answered(s) /\ calls[s].step \in {"register", "forget"}
    BY <1>8, RegisterMoves, ForgetMoves, ForgetFailsMoves
  <2>2. calls[s].kind # "run"
    BY <1>1, <2>1 DEF Fits
  <2> QED BY <2>1, <2>2, ToldAnswered
<1>9. CASE clearError(s) \/ recordError(s)
  BY <1>9, clearErrorMoves, recordErrorMoves, ToldAnswered
<1>10. CASE requireBackend(s)
  <2>1. CASE Answered(s) /\ backend = None
    BY <1>10, <2>1, requireBackendMoves, ToldAnswered
  <2>2. CASE ~(Answered(s) /\ backend = None)
    <3> DEFINE next == IF calls[s].kind = "run" THEN "scopeRead" ELSE "recall"
    <3>1. backend # None /\ calls'[s] = [On(s, next) EXCEPT !.repo = backend] /\ calls[s].step = "require"
      BY <1>10, <2>2, requireBackendMoves
    <3>2. calls'[s].step = next /\ calls'[s].read = calls[s].read
      BY <1>1, <3>1 DEF On, Call
    <3>3. next \in {"scopeRead", "recall"}
      OBVIOUS
    <3> HIDE DEF next
    <3> QED BY <1>2, <3>1, <3>2, <3>3 DEF Onward, Steps
  <2> QED BY <2>1, <2>2
<1>11. CASE readScopeForResolve(s)
  <2>1. CASE Answered(s)
    BY <1>11, <2>1, readScopeMoves, ToldAnswered
  <2>2. CASE ~Answered(s)
    <3>1. calls'[s] = [On(s, "scopeRead") EXCEPT !.ignore = saved.scope] /\ calls[s].step = "recall"
      BY <1>11, <2>2, readScopeMoves
    <3>2. calls'[s].step = "scopeRead" /\ calls'[s].read = calls[s].read
      BY <1>1, <3>1 DEF On, Call
    <3> QED BY <1>2, <3>1, <3>2 DEF Onward, Steps
  <2> QED BY <2>1, <2>2
<1>12. CASE Decide(s)
  <2>1. CASE Answered(s) /\ calls'[s].step = "settle"
    BY <1>12, <2>1, DecideMoves, ToldAnswered
  <2>2. CASE calls[s].kind = "resolve" /\ calls'[s] = [On(s, "recheck") EXCEPT !.read = saved]
    <3>1. calls'[s].step = "recheck" /\ calls'[s].read = saved
      BY <1>1, <2>2 DEF On, Call
    <3>2. calls[s].step = "base"
      BY <1>12, DecideMoves
    <3> QED BY <1>3, <3>1, <3>2 DEF Reading
  <2>3. ASSUME NEW step \in {"advance", "push", "pull"}, calls'[s] = On(s, step) PROVE Told(s)
    <3>1. calls'[s].step = step /\ calls'[s].read = calls[s].read
      BY <1>1, <2>3 DEF On, Call
    <3>2. calls[s].step = "base"
      BY <1>12, DecideMoves
    <3> QED BY <1>2, <3>1, <3>2 DEF Onward, Steps
  <2> QED BY <1>12, <2>1, <2>2, <2>3, DecideMoves
<1>13. CASE AnswerMine(s)
  <2>1. calls[s].step = "answer" /\ calls[s].kind = "resolve" /\ (Answered(s) \/ calls'[s] = On(s, "pin"))
    BY <1>13, AnswerMineMoves
  <2>2. CASE Answered(s)
    BY <2>1, <2>2, ToldAnswered
  <2>3. CASE calls'[s] = On(s, "pin")
    <3>1. calls'[s].step = "pin" /\ calls'[s].read = calls[s].read
      BY <1>1, <2>3 DEF On, Call
    <3> QED BY <1>2, <2>1, <3>1 DEF Onward, Steps
  <2> QED BY <2>1, <2>2, <2>3
<1>14. CASE NetworkFails(s)
  <2>1. /\ calls[s].step \in {"open", "list", "push", "answer"}
        /\ (Answered(s) /\ calls[s].kind = "resolve") \/ calls'[s] = On(s, "errorRead")
    BY <1>14, NetworkFailsMoves
  <2>2. CASE Answered(s) /\ calls[s].kind = "resolve"
    BY <2>1, <2>2, ToldAnswered
  <2>3. CASE calls'[s] = On(s, "errorRead")
    <3>1. calls'[s].step = "errorRead" /\ calls'[s].read = calls[s].read
      BY <1>1, <2>3 DEF On, Call
    <3>2. calls[s].step # "answer"
      BY <1>1, <3>1 DEF Moves, Fits
    <3> QED BY <1>2, <2>1, <3>1, <3>2 DEF Onward, Steps
  <2> QED BY <2>1, <2>2, <2>3
<1>15. CASE StorePreference(s)
  BY <1>1, <1>15, StorePreferenceMoves, ToldAfresh DEF Runs
<1>16. CASE onSettled(s)
  <2>1. calls'[s] = NewCall(calls[s].kind, "wait")
    BY <1>16, onSettledMoves
  <2> QED BY <1>1, <2>1, ToldAfresh
<1>17. CASE StartDirty(s)
  <2>1. calls'[s] = [On(s, "dirtyBackend") EXCEPT !.ignore = ignore] /\ calls[s].step = "wait"
    BY <1>17, StartDirtyMoves
  <2>2. calls'[s].step = "dirtyBackend" /\ calls'[s].read = calls[s].read
    BY <1>1, <2>1 DEF On, Call
  <2> QED BY <1>2, <2>1, <2>2 DEF Onward, Steps
<1>18. CASE Flush(s)
  <2>1. /\ calls[s].step = "flush" /\ calls[s].kind = "run"
        /\ calls'[s] = [NewCall("run", "statusBackend") EXCEPT !.again = "require"]
    BY <1>18, FlushMoves
  <2>2. /\ calls'[s].step = "statusBackend" /\ calls'[s].read = NoState /\ calls'[s].again = "require"
        /\ calls'[s].kind = "run"
    BY <2>1 DEF NewCall
  <2>3. ~Rounding(calls'[s]) /\ ~WillCheck(calls[s]) /\ Unsettled(calls'[s])
    BY <2>1, <2>2 DEF Rounding, Round, Writes, WillCheck, Unsettled, Settled, Checks, Runs
  <2> QED BY <2>2, <2>3 DEF Told
<1>19. CASE statusState(s)
  <2>1. /\ calls[s].step = "statusState" /\ calls[s].again \in {"open", "require"}
        /\ calls'[s] = [On(s, calls[s].again) EXCEPT !.again = "done", !.mine = FALSE, !.ignore = ignore]
    BY <1>19, statusStateMoves
  <2>2. calls'[s].step = calls[s].again /\ calls'[s].read = calls[s].read
    BY <1>1, <2>1 DEF On, Call
  <2> QED BY <1>2, <2>1, <2>2 DEF Onward, Steps
<1>20. CASE statusBackend(s)
  <2>1. calls[s].step = "statusBackend"
    BY <1>20, statusBackendMoves
  <2>2. PICK known \in BOOLEAN : calls'[s] = [On(s, "statusState") EXCEPT !.file = None, !.mine = known]
    BY <1>20, statusBackendMoves
  <2>3. calls'[s].step = "statusState" /\ calls'[s].read = calls[s].read /\ calls'[s].again = calls[s].again
    BY <1>1, <2>2 DEF On, Call
  <2> QED BY <1>2, <2>1, <2>3 DEF Onward, Steps
<1>21. CASE hasPendingChanges(s)
  <2>1. ASSUME NEW pending \in BOOLEAN, Checked(s, pending) PROVE Told(s)
    <3>1. /\ calls'[s] = NewCall(calls[s].kind, "statusBackend")
          /\ calls[s].step \in {"dirtyBackend", "dirtyState"}
      BY <2>1 DEF Checked
    <3>2. Settled(calls[s]) /\ calls[s].step # "settle"
      BY <3>1 DEF Settled, Checks
    <3> QED BY <1>1, <3>1, <3>2, ToldAfresh
  <2>2. CASE Checked(s, FALSE)
    BY <2>1, <2>2
  <2>3. CASE calls[s].step = "dirtyBackend" /\ calls'[s] = On(s, "dirtyLocal")
    <3>1. calls'[s].step = "dirtyLocal" /\ calls'[s].read = calls[s].read
      BY <1>1, <2>3 DEF On, Call
    <3> QED BY <1>2, <2>3, <3>1 DEF Onward, Steps
  <2>4. CASE collectLocal(s, "dirtyLocal", "dirtyState")
    BY <1>6, <2>4
  <2>5. CASE Checked(s, calls[s].local # InScope(s, saved.snapshot))
    <3>1. PICK pending \in BOOLEAN : pending = (calls[s].local # InScope(s, saved.snapshot))
      OBVIOUS
    <3>2. Checked(s, pending)
      BY <2>5, <3>1
    <3> QED BY <2>1, <3>2
  <2> QED BY <1>21, <2>2, <2>3, <2>4, <2>5, PendingMoves
<1> QED BY <1>4, <1>5, <1>6, <1>7, <1>8, <1>9, <1>10, <1>11, <1>12, <1>13, <1>14, <1>15, <1>16, <1>17, <1>18,
           <1>19, <1>20, <1>21 DEF Answer
-----------------------------------------------------------------------------
(* The dot *)

\* Which answer an operation may be given, by the step at which it waits.
LEMMA AnswerAt ==
    ASSUME NEW s \in Slots, Answer(s)
    PROVE  /\ calls[s].step = "wait" => StartDirty(s)
           /\ calls[s].step \in {"dirtyBackend", "dirtyLocal", "dirtyState"} => hasPendingChanges(s)
           /\ calls[s].step = "forget" => Forget(s) \/ ForgetFails(s)
           /\ calls[s].step = "errorWrite" => recordError(s)
           /\ calls[s].step = "settle" => onSettled(s)
BY DEF Answer, At, Opens, Register, Forget, ForgetFails, StorePreference, Flush, requireBackend,
       readScopeForResolve, ReadState, rememberScope, collectLocal, List, Decide, Push, PushUnanswered,
       Pull, AnswerMine, AnswerTheirs, writeSnapshotEntry, advanceSnapshot, clearError, recordError,
       NetworkFails, onSettled, StartDirty, hasPendingChanges, statusBackend, statusState, WriteState

\* The document changes by a run or an answer that will settle.
LEMMA LocalTold ==
    ASSUME TInv, NEW s \in Slots, Answer(s), local' # local
    PROVE  /\ calls'[s] # None /\ calls'[s].kind \in Runs /\ calls'[s].step \in {"advance", "pin"}
<1>1. Pull(s) \/ AnswerTheirs(s)
  BY DEF Answer, Opens, Register, Forget, ForgetFails, StorePreference, Flush, requireBackend,
       readScopeForResolve, ReadState, rememberScope, collectLocal, List, Decide, Push, PushUnanswered,
       AnswerMine, writeSnapshotEntry, advanceSnapshot, clearError, recordError, Sends,
       NetworkFails, onSettled, StartDirty, hasPendingChanges, statusBackend, statusState, WriteState,
       Dirty, stores
<1>2. CASE Pull(s)
  <2>1. Moves(s) /\ calls'[s] # None /\ calls'[s] = On(s, "advance") /\ calls[s].step = "pull"
    BY <1>2, PullMoves DEF Pull, At
  <2>2. calls[s] \in Call /\ calls[s].kind = "run" /\ calls'[s].step = "advance"
    BY <1>2, <2>1, CallAt DEF Moves, On, Call, Fits, Pull
  <2> QED BY <2>1, <2>2 DEF Moves, Runs
<1>3. CASE AnswerTheirs(s)
  <2>1. Moves(s) /\ calls'[s] # None /\ calls'[s] = On(s, "pin") /\ calls[s].kind = "resolve"
    BY <1>3, AnswerTheirsMoves
  <2>2. calls[s] \in Call /\ calls'[s].step = "pin"
    BY <2>1 DEF Moves, On, Call
  <2> QED BY <2>1, <2>2 DEF Moves, Runs
<1> QED BY <1>1, <1>2, <1>3

\* The preference changes with a check to follow.
LEMMA IgnoreTold ==
    ASSUME TInv, NEW s \in Slots, Answer(s), ignore' # ignore
    PROVE  calls'[s] # None /\ calls'[s].step = "wait"
<1>1. StorePreference(s)
  BY DEF Answer, Opens, Register, Forget, ForgetFails, Flush, requireBackend,
       readScopeForResolve, ReadState, rememberScope, collectLocal, List, Decide, Push, PushUnanswered,
       Pull, Takes, AnswerTheirs,
       AnswerMine, writeSnapshotEntry, advanceSnapshot, clearError, recordError, Sends,
       NetworkFails, onSettled, StartDirty, hasPendingChanges, statusBackend, statusState, WriteState,
       Dirty, stores
<1>2. calls'[s] # None /\ calls'[s] = NewCall("prefs", "wait")
  BY <1>1, StorePreferenceMoves
<1> QED BY <1>2 DEF NewCall

\* The repository changes only when one is registered.
LEMMA BackendTold ==
    ASSUME TInv, NEW s \in Slots, Answer(s), backend' # backend
    PROVE  calls[s].step = "register" /\ calls[s].kind = "configure" /\ backend' \in Repos
<1>1. Register(s)
  BY DEF Answer, Opens, Forget, ForgetFails, StorePreference, Flush, requireBackend,
       readScopeForResolve, ReadState, rememberScope, collectLocal, List, Decide, Push, PushUnanswered,
       Pull, Takes, AnswerTheirs,
       AnswerMine, writeSnapshotEntry, advanceSnapshot, clearError, recordError, Sends,
       NetworkFails, onSettled, StartDirty, hasPendingChanges, statusBackend, statusState, WriteState,
       Dirty, stores
<1>2. calls[s].step = "register" /\ Fits(calls[s])
  BY <1>1, CallAt DEF Register
<1> QED BY <1>1, <1>2 DEF Register, Fits

\* Who writes the state, and what of it.
LEMMA SavedWritten ==
    ASSUME TInv, NEW s \in Slots, Answer(s), saved' # saved
    PROVE  /\ calls[s] # None /\ calls'[s] # None
           /\ \/ calls[s].step = "forget" /\ saved' = NoState
              \/ /\ calls[s].step \in {"scopeWrite", "pin", "stateWrite", "clearWrite", "errorWrite"}
                 /\ saved'.synced = calls[s].read.synced \/ calls[s].step = "stateWrite"
           /\ calls[s].step \in {"scopeWrite", "pin", "stateWrite"} => ~Settled(calls'[s])
           /\ calls[s].step = "clearWrite" => calls'[s].step = "settle"
           /\ calls[s].step = "errorWrite" => saved'.error
<1>1. Forget(s) \/ rememberScope(s) \/ writeSnapshotEntry(s) \/ advanceSnapshot(s) \/ clearError(s)
      \/ recordError(s)
  BY DEF Answer, Opens, Register, ForgetFails, StorePreference, Flush, requireBackend,
       readScopeForResolve, ReadState, collectLocal, List, Decide, Push, PushUnanswered,
       Pull, Takes, AnswerTheirs, AnswerMine, Sends,
       NetworkFails, onSettled, StartDirty, hasPendingChanges, statusBackend, statusState, Dirty, stores
<1>2. Moves(s) /\ calls[s] \in Call /\ calls[s].read \in State
  BY AnswersSorted DEF Moves, Call
<1>3. CASE Forget(s)
  BY <1>3, ForgetMoves, <1>2, NoneIsNoCall DEF Forget, Answered
<1>4. CASE rememberScope(s)
  <2>1. calls'[s] # None /\ calls'[s] = On(s, "collect") /\ calls[s].step = "scopeWrite"
        /\ saved' = [calls[s].read EXCEPT !.scope = calls[s].ignore]
    BY <1>4, rememberScopeMoves DEF rememberScope, WriteState, At
  <2>2. calls'[s].step = "collect" /\ saved'.synced = calls[s].read.synced
    BY <1>2, <2>1 DEF On, Call, State
  <2> QED BY <1>2, <2>1, <2>2, NoneIsNoCall DEF Settled, Checks, Looks
<1>5. CASE writeSnapshotEntry(s)
  <2>1. calls'[s] # None /\ calls'[s] = On(s, "advance") /\ calls[s].step = "pin"
        /\ saved' = [calls[s].read EXCEPT !.snapshot = IF calls[s].mine THEN calls[s].local ELSE calls[s].file]
    BY <1>5, writeSnapshotEntryMoves DEF writeSnapshotEntry, WriteState, At
  <2>2. calls'[s].step = "advance" /\ saved'.synced = calls[s].read.synced
    BY <1>2, <2>1 DEF On, Call, State
  <2> QED BY <1>2, <2>1, <2>2, NoneIsNoCall DEF Settled, Checks, Looks
<1>6. CASE advanceSnapshot(s)
  <2>1. calls'[s] # None /\ calls'[s] = On(s, "clearRead") /\ calls[s].step = "stateWrite"
    BY <1>6, advanceSnapshotMoves DEF advanceSnapshot, WriteState, At
  <2>2. calls'[s].step = "clearRead"
    BY <1>2, <2>1 DEF On, Call
  <2> QED BY <1>2, <2>1, <2>2, NoneIsNoCall DEF Settled, Checks, Looks
<1>7. CASE clearError(s)
  <2>1. Answered(s) /\ calls[s].step = "clearWrite" /\ calls'[s].step = "settle"
        /\ saved' = [calls[s].read EXCEPT !.error = FALSE]
    BY <1>7, clearErrorMoves DEF clearError, WriteState
  <2>2. saved'.synced = calls[s].read.synced
    BY <1>2, <2>1 DEF State
  <2> QED BY <1>2, <2>1, <2>2, NoneIsNoCall DEF Answered
<1>8. CASE recordError(s)
  <2>1. Answered(s) /\ calls[s].step = "errorWrite" /\ saved' = [calls[s].read EXCEPT !.error = TRUE]
    BY <1>8, recordErrorMoves DEF recordError, WriteState
  <2>2. saved'.synced = calls[s].read.synced /\ saved'.error
    BY <1>2, <2>1 DEF State
  <2> QED BY <1>2, <2>1, <2>2, NoneIsNoCall DEF Answered
<1> QED BY <1>1, <1>3, <1>4, <1>5, <1>6, <1>7, <1>8

LEMMA MannerKnown ==
    ASSUME TInv
    PROVE  manner \in {"calm", "hasty", "fickle"}
BY ControllerBounds DEF TInv, TypeOK

\* While the repository is being removed nothing else is under way that counts.
LEMMA RemovalAlone ==
    ASSUME TInv, OneAtATime, NoRemoval, manner # "fickle", NEW s \in Slots, NEW t \in Slots, s # t,
           calls[t] # None, calls[t].step = "forget", calls[s] # None
    PROVE  calls[s].kind \in {"load", "edit"}
<1>1. calls[t].kind = "remove"
  BY DEF TInv, CallsFit, Fits
<1>2. manner = "calm"
  BY <1>1, MannerKnown DEF NoRemoval, Under
<1> QED BY <1>2 DEF OneAtATime, Under

LEMMA OneKept ==
    ASSUME TInv, OneAtATime, NoRemoval, NEW s \in Slots, Answer(s) \/ Click(s)
    PROVE  OneAtATime' /\ NoRemoval'
<1>1. CASE Answer(s)
  <2>1. Moves(s) /\ manner' = manner /\ calls[s] # None
    BY <1>1, AnswersSorted, NoneIsNoCall DEF Moves, user
  <2>2. \A t \in Slots : calls'[t] # None => calls[t] # None /\ calls'[t].kind = calls[t].kind
    BY <2>1 DEF Moves
  <2> QED BY <2>1, <2>2 DEF OneAtATime, NoRemoval, Under
<1>2. CASE Click(s)
  <2>1. UserMay
    BY <1>2 DEF Click, Edit, configureBackend, removeBackend, savePreference, resolveConflict,
         beginNow, sendMessage, later
  <2>2. manner' = manner /\ (manner = "calm" => \A t \in Slots : calls[t] = None)
    BY <2>1 DEF UserMay, Acts, Idle
  <2>3. \A t \in Slots : t # s => calls'[t] = calls[t]
    BY <1>2, ClickBegins DEF Begins
  <2>4. OneAtATime'
    BY <2>2, <2>3 DEF OneAtATime
  <2>5. calls'[s] # None /\ calls'[s].kind = "remove" => manner # "hasty" \/ calls'[s] = calls[s]
    BY <1>2, ClickBegins DEF Begins, removeBackend
  <2>6. NoRemoval'
    BY <2>2, <2>3, <2>5 DEF NoRemoval, Under
  <2> QED BY <2>4, <2>6
<1> QED BY <1>1, <1>2

LEMMA CleanAnswered ==
    ASSUME TInv, CleanTold, NEW s \in Slots, Answer(s)
    PROVE  CleanTold'
<1>1. Sorted(s)
  BY AnswersSorted
<1>2. CASE Quiet(s) \/ Queues(s) \/ StartDirty(s) \/ Flush(s)
  <2>1. status' = status /\ dirty' = dirty
    BY <1>2 DEF Quiet, Queues, StartDirty, Flush, page
  <2> QED BY <2>1 DEF CleanTold
<1>3. CASE Answered(s)
  <2>1. status' = status /\ (dirty' => dirty)
    BY <1>3 DEF Answered, Moves
  <2> QED BY <2>1 DEF CleanTold
<1>4. CASE statusState(s)
  <2>1. dirty' = dirty /\ (status'.clean => status'.configured /\ ~dirty /\ ~status'.error /\ status'.synced)
    BY <1>4, StatusRead
  <2> QED BY <2>1 DEF CleanTold
<1>5. CASE \E pending \in BOOLEAN : Checked(s, pending)
  <2>1. PICK pending \in BOOLEAN : Checked(s, pending)
    BY <1>5
  <2>2. CASE status = None
    BY <2>1, <2>2 DEF Checked, CleanTold
  <2>3. CASE status # None
    <3>1. dirty \in BOOLEAN
      BY DEF TInv, TypeOK
    <3> QED BY <2>1, <2>3, <3>1 DEF Checked, CleanTold
  <2> QED BY <2>2, <2>3
<1> QED BY <1>1, <1>2, <1>3, <1>4, <1>5 DEF Sorted

LEMMA SavedAnswered ==
    ASSUME TInv, SavedTold, NEW s \in Slots, Answer(s)
    PROVE  SavedTold'
<1>1. Moves(s) /\ Sorted(s) /\ calls[s] \in Call /\ Fits(calls[s])
  BY AnswersSorted, NoneIsNoCall DEF Moves, TInv, CallsFit
<1>2. CASE statusState(s)
  <2>1. saved' = saved
    BY <1>2 DEF statusState, stores
  <2> QED BY <1>2, <2>1, StatusRead DEF SavedTold
<1>3. CASE ~statusState(s) /\ saved' # saved
  <2>1. calls'[s] # None /\ calls[s].step \in {"forget", "scopeWrite", "pin", "stateWrite", "clearWrite", "errorWrite"}
    BY <1>3, SavedWritten
  <2>2. calls[s].kind \in NotEdit
    BY <1>1, <2>1, EditChecks DEF NotEdit, Call, Checks
  <2>3. calls'[s].kind \in NotEdit
    BY <1>1, <2>1, <2>2 DEF Moves
  <2> QED BY <2>1, <2>3 DEF SavedTold, Under
<1>4. CASE ~statusState(s) /\ saved' = saved
  <2>1. status' = None <=> status = None
    BY <1>1, <1>4, NoneIsNothing DEF Sorted, Quiet, Answered, Queues, StartDirty, Flush, Checked, page
  <2>2. status # None => /\ status'.configured = status.configured /\ status'.error = status.error
                         /\ status'.synced = status.synced
    BY <1>1, <1>4 DEF Sorted, Quiet, Answered, Queues, StartDirty, Flush, Checked, page
  <2>3. status' # None /\ status'.configured /\ (status'.error # saved'.error \/ status'.synced # saved'.synced)
        => \E w \in Slots : Under(w, NotEdit)
    BY <1>4, <2>1, <2>2 DEF SavedTold
  <2>4. status' # None /\ status'.configured /\ (status'.error # saved'.error \/ status'.synced # saved'.synced)
        => (\E w \in Slots : Under(w, NotEdit))'
    BY <1>1, <1>4, <2>3, UnderLasts DEF NotEdit
  <2> QED BY <2>4 DEF SavedTold
<1> QED BY <1>2, <1>3, <1>4

LEMMA SyncedAnswered ==
    ASSUME TInv, OneAtATime, NoRemoval, SyncedTo, NEW s \in Slots, Answer(s)
    PROVE  SyncedTo'
<1>1. Moves(s) /\ manner' = manner /\ calls[s] \in Call /\ calls[s] # None /\ Fits(calls[s])
  BY AnswersSorted, NoneIsNoCall DEF Moves, user, TInv, CallsFit
<1>2. SUFFICES ASSUME manner # "fickle" PROVE SyncedTo'
  BY <1>1 DEF SyncedTo
<1>3. backend' = backend \/ (backend' # None /\ calls[s].step = "register" /\ calls[s].kind = "configure")
  BY BackendTold, NoneElsewhere
<1>4. saved'.synced /\ backend' = None => Forgets'
  <2>1. SUFFICES ASSUME saved'.synced, backend' = None PROVE Forgets'
    OBVIOUS
  <2>2. backend = None
    BY <1>3, <2>1
  <2>3. saved' = saved
    <3>1. SUFFICES ASSUME saved' # saved PROVE FALSE
      OBVIOUS
    <3>2. \/ saved' = NoState
          \/ /\ calls[s].step \in {"scopeWrite", "pin", "stateWrite", "clearWrite", "errorWrite"}
             /\ saved'.synced = calls[s].read.synced \/ calls[s].step = "stateWrite"
      BY <3>1, SavedWritten
    <3>3. calls[s].read.synced \/ calls[s].step = "stateWrite"
      <4>1. ~NoState.synced
        BY DEF NoState
      <4> QED BY <2>1, <3>2, <4>1, Zenon
    <3> QED BY <1>1, <1>2, <2>2, <3>3 DEF SyncedTo, Rounding, Round, Writes
  <2>4. PICK t \in Slots : calls[t] # None /\ calls[t].step = "forget"
    BY <1>2, <2>1, <2>2, <2>3 DEF SyncedTo, Forgets
  <2>5. t # s
    <3>1. SUFFICES ASSUME t = s PROVE FALSE
      OBVIOUS
    <3>2. Forget(s)
      BY <1>2, <2>4, <3>1, AnswerAt DEF ForgetFails
    <3> QED BY <2>1, <3>2 DEF Forget, NoState
  <2> QED BY <1>1, <2>4, <2>5 DEF Moves, Forgets
<1>5. ASSUME NEW t \in Slots, calls'[t] # None
      PROVE  /\ calls'[t].read.synced => backend' # None
             /\ Rounding(calls'[t]) => backend' # None
             /\ calls'[t].step = "forget" => backend' = None
  <2>1. CASE t # s
    <3>1. calls'[t] = calls[t]
      BY <1>1, <2>1 DEF Moves
    <3>2. calls[t].step = "forget" => backend' = backend
      BY <1>1, <1>2, <1>3, <1>5, <2>1, <3>1, RemovalAlone
    <3> QED BY <1>2, <1>3, <1>5, <3>1, <3>2 DEF SyncedTo
  <2>2. CASE t = s
    <3>1. Told(s)
      BY <1>5, <2>2, AnswersTold
    <3>2. calls[s].step = "errorRead" /\ saved.synced => backend # None
      <4>1. SUFFICES ASSUME calls[s].step = "errorRead", saved.synced, backend = None PROVE FALSE
        OBVIOUS
      <4>2. PICK w \in Slots : calls[w] # None /\ calls[w].step = "forget"
        BY <1>2, <4>1 DEF SyncedTo, Forgets
      <4>3. calls[s].kind \in {"load", "edit"}
        BY <1>1, <1>2, <4>1, <4>2, RemovalAlone
      <4> QED BY <1>1, <4>1, <4>3 DEF Fits
    <3>3. calls'[s].read.synced => backend # None
      BY <1>1, <1>2, <3>1, <3>2 DEF Told, SyncedTo, NoState
    <3>4. Rounding(calls'[s]) => backend # None
      BY <1>1, <1>2, <3>1 DEF Told, SyncedTo
    <3> QED BY <1>3, <2>2, <3>1, <3>3, <3>4 DEF Told
  <2> QED BY <2>1, <2>2
<1> QED BY <1>4, <1>5 DEF SyncedTo

LEMMA SyncedClicked ==
    ASSUME TInv, SyncedTo, NEW s \in Slots, Click(s)
    PROVE  SyncedTo'
<1>1. UserMay
  BY DEF Click, Edit, configureBackend, removeBackend, savePreference, resolveConflict,
         beginNow, sendMessage, later
<1>2. manner' = manner
  BY <1>1 DEF UserMay, Acts
<1>3. SUFFICES ASSUME manner # "fickle" PROVE SyncedTo'
  BY <1>2 DEF SyncedTo
<1>4. CASE removeBackend(s)
  <2>1. manner = "calm"
    BY <1>3, <1>4, MannerKnown DEF removeBackend
  <2>2. \A t \in Slots : calls[t] = None
    BY <1>1, <2>1 DEF UserMay, Idle
  <2>3. Begins(s, "remove", "forget") /\ backend' = None
    BY <1>4, PlainBegins, <1>1 DEF removeBackend
  <2> QED BY <2>2, <2>3 DEF Begins, SyncedTo, Forgets, Rounding, Round, Writes, NoState
<1>5. ASSUME backend' = backend, saved' = saved, NEW kind,
             NEW step \in {"wait", "statusBackend", "store", "require", "flush"}, Begins(s, kind, step)
      PROVE  SyncedTo'
  <2>1. /\ calls[s] = None /\ \A t \in Slots : t # s => calls'[t] = calls[t]
        /\ calls'[s].step = step /\ ~calls'[s].read.synced
    BY <1>5 DEF Begins, NoState
  <2>2. ~Rounding(calls'[s]) /\ calls'[s].step # "forget"
    BY <2>1 DEF Rounding, Round, Writes
  <2>3. Forgets => Forgets'
    BY <2>1 DEF Forgets
  <2> QED BY <1>3, <1>5, <2>1, <2>2, <2>3 DEF SyncedTo
<1>6. CASE calls' = calls /\ beginNow(s)
  BY <1>3, <1>6 DEF beginNow, stores, SyncedTo, Forgets, Rounding, Round, Writes
<1>7. ~removeBackend(s) => backend' = backend /\ saved' = saved
  BY DEF Click, Edit, configureBackend, removeBackend, savePreference, resolveConflict,
         beginNow, sendMessage, later, stores
<1> QED BY <1>4, <1>5, <1>6, <1>7, ClickBegins

\* An operation goes on as long as a check or a settling is to come.
LEMMA WillGoOn ==
    ASSUME TInv, NEW s \in Slots, Answer(s), WillCheck(calls[s]) \/ Unsettled(calls[s]),
           calls[s].step # "wait"
    PROVE  calls'[s] # None
<1>1. Moves(s) /\ Sorted(s) /\ calls[s] \in Call /\ Fits(calls[s])
  BY AnswersSorted, NoneIsNoCall DEF Moves, TInv, CallsFit
<1>2. SUFFICES ASSUME calls'[s] = None PROVE FALSE
  OBVIOUS
<1>3. CASE calls[s].kind = "edit"
  <2>1. calls[s].step \in Checks
    BY <1>1, <1>3, EditChecks
  <2> QED BY <1>3, <2>1 DEF WillCheck, Unsettled, Runs
<1>4. CASE statusState(s) /\ calls[s].again = "done"
  <2>1. calls[s].step = "statusState"
    BY <1>4, statusStateMoves
  <2> QED BY <1>4, <2>1 DEF WillCheck, Unsettled, Settled, Looks, Writes
<1> QED BY <1>1, <1>2, <1>3, <1>4, GoesOn

\* How a check goes on from request to request.
LEMMA CheckGoesOn ==
    ASSUME TInv, NEW s \in Slots, Answer(s), calls'[s] # None, calls'[s].step \in Checks \ {"wait"}
    PROVE  \/ StartDirty(s) /\ calls'[s].step = "dirtyBackend" /\ calls'[s].ignore = ignore
           \/ /\ calls[s].step \in Checks /\ calls[s].step # "wait" /\ UNCHANGED stores
              /\ calls'[s].ignore = calls[s].ignore
              /\ calls[s].step # "dirtyState"
              /\ calls'[s].step = "dirtyState" => calls'[s].local = InScope(s, local)
<1>1. Moves(s) /\ Sorted(s) /\ calls[s] \in Call
  BY AnswersSorted DEF Moves
<1>2. CASE StartDirty(s)
  <2>1. calls'[s] = [On(s, "dirtyBackend") EXCEPT !.ignore = ignore]
    BY <1>2, StartDirtyMoves
  <2> QED BY <1>1, <1>2, <2>1 DEF On, Call
<1>3. CASE ~StartDirty(s)
  <2>1. calls[s].step \in {"dirtyBackend", "dirtyLocal", "dirtyState"}
    <3>1. CASE Quiet(s)
      BY <3>1 DEF Quiet, Checks
    <3>2. CASE Answered(s)
      BY <3>2 DEF Answered, Checks
    <3>3. CASE Queues(s)
      BY <3>3 DEF Queues, NewCall
    <3>4. CASE Flush(s)
      <4>1. calls'[s] = [NewCall("run", "statusBackend") EXCEPT !.again = "require"]
        BY <3>4, FlushMoves
      <4> QED BY <4>1 DEF NewCall, Checks
    <3>5. CASE statusState(s)
      <4>1. /\ calls[s].again \in {"open", "require"}
            /\ calls'[s] = [On(s, calls[s].again) EXCEPT !.again = "done", !.mine = FALSE, !.ignore = ignore]
        BY <3>5, statusStateMoves
      <4>2. calls'[s].step = calls[s].again
        BY <1>1, <4>1 DEF On, Call
      <4> QED BY <4>1, <4>2 DEF Checks
    <3>6. CASE \E pending \in BOOLEAN : Checked(s, pending)
      BY <3>6 DEF Checked
    <3> QED BY <1>1, <1>3, <3>1, <3>2, <3>3, <3>4, <3>5, <3>6 DEF Sorted
  <2>2. hasPendingChanges(s)
    BY <2>1, AnswerAt
  <2>3. ASSUME NEW pending, Checked(s, pending) PROVE FALSE
    BY <2>3 DEF Checked, NewCall, Checks
  <2>4. CASE calls'[s] = On(s, "dirtyLocal") /\ calls[s].step = "dirtyBackend" /\ UNCHANGED <<user, turns, stores, page>>
    BY <1>1, <2>4 DEF On, Call, Checks
  <2>5. CASE calls[s].step = "dirtyLocal" /\ collectLocal(s, "dirtyLocal", "dirtyState")
    <3>1. calls'[s] = [On(s, "dirtyState") EXCEPT !.local = InScope(s, local)] /\ UNCHANGED stores
      BY <2>5, collectLocalMoves DEF collectLocal
    <3>2. calls'[s].ignore = calls[s].ignore /\ calls'[s].local = InScope(s, local) /\ calls'[s].step = "dirtyState"
      BY <1>1, <3>1 DEF On, Call
    <3> QED BY <2>5, <3>1, <3>2 DEF Checks
  <2> QED BY <2>2, <2>3, <2>4, <2>5, PendingMoves
<1> QED BY <1>2, <1>3

LEMMA StaleAnswered ==
    ASSUME TInv, StaleFollowed, NEW s \in Slots, Answer(s)
    PROVE  StaleFollowed'
<1>1. Moves(s) /\ calls[s] \in Call /\ calls[s] # None /\ (\A t \in Slots : t # s => calls'[t] = calls[t])
  BY AnswersSorted, NoneIsNoCall DEF Moves
<1>2. SUFFICES ASSUME NEW t \in Slots, Checking(t)', ~Reads(calls[t], local)'
               PROVE  (\E w \in Slots : calls[w] # None /\ WillCheck(calls[w]))'
  BY DEF StaleFollowed
<1>3. calls'[t] # None /\ calls'[t].step \in Checks \ {"wait"}
  BY <1>2 DEF Checking, Reads
<1>4. CASE local' # local
  <2>1. calls'[s] # None /\ calls'[s].kind \in Runs /\ calls'[s].step \in {"advance", "pin"}
    BY <1>4, LocalTold
  <2>2. calls'[s].kind = "resolve" \/ calls'[s].step = "advance"
    BY <1>1, <2>1 DEF Moves, Fits
  <2> QED BY <2>1, <2>2 DEF WillCheck, Settled, Checks, Looks, Writes
<1>5. CASE ignore' # ignore
  BY <1>5, IgnoreTold DEF WillCheck
<1>6. CASE local' = local /\ ignore' = ignore
  <2>1. ASSUME StartDirty(s) PROVE FALSE
    <3>1. calls[s].step = "wait" /\ Head(turns) = s
      BY <2>1, StartDirtyMoves DEF StartDirty
    <3>2. CASE t = s
      <4>1. calls'[s].step = "dirtyBackend" /\ calls'[s].ignore = ignore
        <5>1. calls'[s] = [On(s, "dirtyBackend") EXCEPT !.ignore = ignore]
          BY <2>1, StartDirtyMoves
        <5> QED BY <1>1, <5>1 DEF On, Call
      <4> QED BY <1>2, <1>6, <3>2, <4>1 DEF Reads, Checks
    <3>3. CASE t # s
      <4>1. Checking(t) /\ calls[t].step # "wait"
        BY <1>1, <1>3, <3>3 DEF Checking
      <4>2. turns # <<>> /\ turns[1] = t /\ turns \in Seq(Slots)
        BY <4>1 DEF TInv, TurnsTell
      <4> QED BY <3>1, <3>3, <4>2
    <3> QED BY <3>2, <3>3
  <2>2. calls[t] # None /\ calls[t].step \in Checks /\ ~Reads(calls[t], local)
    <3>1. CASE t # s
      <4>1. calls'[t] = calls[t]
        BY <1>1, <3>1
      <4> QED BY <1>2, <1>3, <1>6, <4>1 DEF Reads
    <3>2. CASE t = s
      <4>1. /\ calls[s].step \in Checks /\ calls[s].step # "wait"
            /\ calls'[s].ignore = calls[s].ignore /\ calls[s].step # "dirtyState"
            /\ calls'[s].step = "dirtyState" => calls'[s].local = InScope(s, local)
        BY <1>3, <2>1, <3>2, CheckGoesOn
      <4> QED BY <1>1, <1>2, <1>3, <1>6, <3>2, <4>1 DEF Reads, InScope
    <3> QED BY <3>1, <3>2
  <2>3. PICK w \in Slots : calls[w] # None /\ WillCheck(calls[w])
    BY <2>2 DEF StaleFollowed, Checking
  <2>4. calls'[w] # None /\ WillCheck(calls'[w])
    <3>1. CASE w # s
      BY <1>1, <2>3, <3>1
    <3>2. CASE w = s
      <4>1. calls[s].step # "wait"
        BY <2>1, AnswerAt
      <4>2. calls'[s] # None
        BY <2>3, <3>2, <4>1, WillGoOn
      <4>3. Told(s)
        BY <4>2, AnswersTold
      <4> QED BY <2>3, <3>2, <4>1, <4>2, <4>3 DEF Told
    <3> QED BY <3>1, <3>2
  <2>5. WillCheck(calls[w])'
    BY <2>4 DEF WillCheck, Settled, Checks, Looks, Writes, Runs
  <2> QED BY <2>4, <2>5
<1> QED BY <1>4, <1>5, <1>6

LEMMA StaleClicked ==
    ASSUME TInv, StaleFollowed, NEW s \in Slots, Click(s)
    PROVE  StaleFollowed'
<1>1. CASE \E v \in Doc : Edit(s, v)
  <2>1. Begins(s, "edit", "wait")
    <3>1. PICK v \in Doc : Edit(s, v)
      BY <1>1
    <3> QED BY <3>1, PlainBegins DEF Edit
  <2> QED BY <2>1 DEF Begins, StaleFollowed, WillCheck
<1>2. CASE ~\E v \in Doc : Edit(s, v)
  <2>1. local' = local /\ ignore' = ignore
    BY <1>2 DEF Click, configureBackend, removeBackend, savePreference, resolveConflict,
         beginNow, sendMessage, later, stores
  <2>2. \A t \in Slots : calls[t] # None => calls'[t] = calls[t]
    BY UnderClicked
  <2>3. \A t \in Slots : Checking(t)' => calls[t] # None /\ Checking(t)
    <3>1. \A t \in Slots : t # s => calls'[t] = calls[t]
      BY ClickBegins DEF Begins
    <3>2. calls[s] = None /\ calls'[s] # None => calls'[s].step \notin Checks
      BY <1>2, ClickBegins DEF Begins, Checks
    <3> QED BY <2>2, <3>1, <3>2 DEF Checking, Checks
  <2>4. \A t \in Slots : Checking(t)' /\ ~Reads(calls[t], local)' => Checking(t) /\ ~Reads(calls[t], local)
    BY <2>1, <2>2, <2>3 DEF Reads, Checks
  <2>5. \A w \in Slots : calls[w] # None /\ WillCheck(calls[w]) => (calls[w] # None /\ WillCheck(calls[w]))'
    BY <2>2 DEF WillCheck, Settled, Checks, Looks, Writes, Runs
  <2> QED BY <2>4, <2>5 DEF StaleFollowed
<1> QED BY <1>1, <1>2

DInv == TInv /\ OneAtATime /\ NoRemoval /\ CleanTold /\ SavedTold /\ SyncedTo /\ StaleFollowed /\ PendingTold

LEMMA PendingAnswered ==
    ASSUME DInv, NEW s \in Slots, Answer(s)
    PROVE  PendingTold'
<1> USE DEF DInv
<1>1. /\ Moves(s) /\ Sorted(s) /\ manner' = manner /\ calls[s] \in Call /\ calls[s] # None /\ Fits(calls[s])
      /\ \A t \in Slots : t # s => calls'[t] = calls[t]
  BY AnswersSorted, NoneIsNoCall DEF Moves, user, TInv, CallsFit
<1>2. SUFFICES ASSUME manner # "fickle", Pending', saved'.synced, ~saved'.error, ~dirty',
                      ~(calls'[s] # None /\ (calls'[s].step = "wait" \/ Unsettled(calls'[s])))
               PROVE  (\E t \in Slots : calls[t] # None /\ (Reads(calls[t], local) \/ Unsettled(calls[t])))'
  <2>1. ASSUME calls'[s] # None, calls'[s].step = "wait" PROVE Reads(calls[s], local)'
    BY <2>1 DEF Reads, Checks
  <2>2. ASSUME calls'[s] # None, Unsettled(calls'[s]) PROVE Unsettled(calls[s])'
    BY <2>2 DEF Unsettled, Settled, Checks, Looks, Runs
  <2> QED BY <1>1, <2>1, <2>2 DEF PendingTold
<1>3. local' = local
  <2>1. SUFFICES ASSUME local' # local PROVE FALSE
    OBVIOUS
  <2>2. calls'[s] # None /\ calls'[s].kind \in Runs /\ calls'[s].step \in {"advance", "pin"}
    BY <2>1, LocalTold
  <2> QED BY <1>2, <2>2 DEF Unsettled, Settled, Checks, Looks
<1>4. ignore' = ignore
  BY <1>2, IgnoreTold
<1>5. saved' = saved
  <2>1. SUFFICES ASSUME saved' # saved PROVE FALSE
    OBVIOUS
  <2>2. calls'[s] # None
    BY <2>1, SavedWritten
  <2>3. CASE calls[s].step = "forget" /\ saved' = NoState
    BY <1>2, <2>3 DEF NoState
  <2>4. CASE calls[s].step \in {"scopeWrite", "pin", "stateWrite"}
    <3>1. calls[s].kind \in Runs /\ calls'[s].kind \in Runs
      BY <1>1, <2>2, <2>4 DEF Fits, Moves, Round, Writes, Runs
    <3>2. ~Settled(calls'[s])
      BY <2>1, <2>4, SavedWritten
    <3> QED BY <1>2, <2>2, <3>1, <3>2 DEF Unsettled
  <2>5. CASE calls[s].step = "clearWrite"
    <3>1. calls[s].kind \in Runs /\ calls'[s].kind \in Runs
      BY <1>1, <2>2, <2>5 DEF Fits, Moves, Round, Writes
    <3>2. calls'[s].step = "settle"
      BY <2>1, <2>5, SavedWritten
    <3> QED BY <1>2, <2>2, <3>1, <3>2 DEF Unsettled
  <2>6. CASE calls[s].step = "errorWrite"
    BY <1>2, <2>1, <2>6, SavedWritten
  <2> QED BY <2>1, <2>3, <2>4, <2>5, <2>6, SavedWritten
<1>6. backend # None
  <2>1. CASE backend' = backend
    BY <1>2, <2>1 DEF Pending
  <2>2. CASE backend' # backend /\ backend = None
    <3>1. calls[s].step = "register" /\ calls[s].kind = "configure"
      BY <2>2, BackendTold
    <3>2. PICK t \in Slots : calls[t] # None /\ calls[t].step = "forget"
      BY <1>2, <1>5, <2>2 DEF SyncedTo, Forgets
    <3>3. calls[s].kind \in {"load", "edit"}
      BY <1>1, <1>2, <3>1, <3>2, RemovalAlone
    <3> QED BY <3>1, <3>3
  <2> QED BY <2>1, <2>2
<1>7. Pending /\ saved.synced /\ ~saved.error
  BY <1>2, <1>3, <1>4, <1>5, <1>6 DEF Pending
<1>8. ASSUME NEW w \in Slots, w # s, calls[w] # None, Reads(calls[w], local) \/ Unsettled(calls[w])
      PROVE  (\E t \in Slots : calls[t] # None /\ (Reads(calls[t], local) \/ Unsettled(calls[t])))'
  <2>1. calls'[w] = calls[w]
    BY <1>1, <1>8
  <2>2. Reads(calls[w], local) => Reads(calls[w], local)'
    BY <1>3, <1>4, <2>1 DEF Reads, Checks
  <2>3. Unsettled(calls[w]) => Unsettled(calls[w])'
    BY <2>1 DEF Unsettled, Settled, Checks, Looks, Runs
  <2> QED BY <1>8, <2>1, <2>2, <2>3
<1>9. CASE \E pending \in BOOLEAN : Checked(s, pending)
  <2>1. PICK pending \in BOOLEAN : Checked(s, pending)
    BY <1>9
  <2>2. /\ dirty' = pending /\ backend' = backend /\ calls[s].step \in {"dirtyBackend", "dirtyState"}
    BY <2>1 DEF Checked, stores
  <2>3. hasPendingChanges(s)
    BY <2>2, AnswerAt
  <2>4. calls[s].step = "dirtyState" /\ dirty' = (calls[s].local # InScope(s, saved.snapshot))
    <3>1. calls'[s] # On(s, "dirtyLocal")
      <4>1. calls'[s] = None \/ calls'[s] = NewCall(calls[s].kind, "statusBackend")
        BY <2>1 DEF Checked
      <4>2. calls'[s] # None => calls'[s].step = "statusBackend"
        BY <4>1 DEF NewCall
      <4>3. On(s, "dirtyLocal") # None /\ On(s, "dirtyLocal").step = "dirtyLocal"
        BY <1>1, OnTyped, NoneIsNoCall DEF Steps
      <4> QED BY <4>2, <4>3
    <3>2. calls[s].step # "dirtyLocal"
      BY <2>2
    <3>3. Checked(s, calls[s].local # InScope(s, saved.snapshot)) /\ calls[s].step = "dirtyState"
      BY <1>6, <2>3, <3>1, <3>2, PendingMoves
    <3> QED BY <3>3 DEF Checked
  <2>5. calls[s].local = InScope(s, saved.snapshot)
    BY <1>2, <2>4
  <2>6. ~Reads(calls[s], local)
    BY <1>7, <2>4, <2>5 DEF Reads, InScope, Pending
  <2>7. PICK w \in Slots : calls[w] # None /\ WillCheck(calls[w])
    BY <1>1, <2>4, <2>6 DEF StaleFollowed, Checking, Checks
  <2>8. w # s
    BY <2>4, <2>7 DEF WillCheck, Settled, Checks, Writes
  <2>9. Reads(calls[w], local) \/ Unsettled(calls[w])
    BY <2>7 DEF WillCheck, Reads, Unsettled, Settled, Checks, Looks, Writes, Runs
  <2> QED BY <1>8, <2>7, <2>8, <2>9
<1>10. CASE ~\E pending \in BOOLEAN : Checked(s, pending)
  <2>1. ~dirty
    <3>1. CASE Answered(s) /\ ~Settled(calls[s]) /\ calls[s].kind = "remove"
      <4>1. calls[s].step = "forget"
        BY <1>1, <3>1 DEF Fits, Settled, Call, Steps, Round, Writes, Runs, Checks, Looks
      <4>2. Forget(s)
        BY <1>2, <4>1, AnswerAt DEF ForgetFails
      <4> QED BY <1>2, <4>2 DEF Forget, NoState
    <3>2. CASE ~(Answered(s) /\ ~Settled(calls[s]) /\ calls[s].kind = "remove")
      <4>1. dirty' = dirty
        <5>1. CASE Quiet(s) \/ Queues(s) \/ StartDirty(s) \/ Flush(s)
          BY <5>1 DEF Quiet, Queues, StartDirty, Flush, page
        <5>2. CASE Answered(s) /\ ~Settled(calls[s])
          BY <3>2, <5>2 DEF Answered
        <5>3. CASE statusState(s)
          BY <5>3, StatusRead
        <5> QED BY <1>1, <1>10, <5>1, <5>2, <5>3 DEF Sorted
      <4> QED BY <1>2, <4>1
    <3> QED BY <3>1, <3>2
  <2>2. PICK w \in Slots : calls[w] # None /\ (Reads(calls[w], local) \/ Unsettled(calls[w]))
    BY <1>2, <1>7, <2>1 DEF PendingTold
  <2>3. CASE w # s
    BY <1>8, <2>2, <2>3
  <2>4. CASE w = s /\ Unsettled(calls[s])
    <3>1. calls[s].step # "wait" /\ calls'[s] # None
      <4>1. calls[s].step # "wait"
        BY <2>4 DEF Unsettled, Settled, Checks
      <4> QED BY <2>4, <4>1, WillGoOn
    <3>2. Told(s)
      BY <3>1, AnswersTold
    <3>3. calls[s].step = "errorWrite"
      BY <1>2, <1>6, <2>4, <3>1, <3>2 DEF Told
    <3>4. saved'.error
      <4>1. recordError(s)
        BY <3>3, AnswerAt
      <4>2. saved' = [calls[s].read EXCEPT !.error = TRUE] /\ calls[s].read \in State
        BY <1>1, <4>1 DEF recordError, WriteState, Call
      <4> QED BY <4>2 DEF State
    <3> QED BY <1>2, <3>4
  <2>5. CASE w = s /\ Reads(calls[s], local)
    <3>1. CASE calls[s].step = "wait"
      <4>1. StartDirty(s)
        BY <3>1, AnswerAt
      <4>2. calls'[s] # None /\ calls'[s] = [On(s, "dirtyBackend") EXCEPT !.ignore = ignore]
        BY <4>1, StartDirtyMoves
      <4>3. calls'[s].step = "dirtyBackend" /\ calls'[s].ignore = ignore
        BY <1>1, <4>2 DEF On, Call
      <4>4. Reads(calls[s], local)'
        BY <1>4, <4>3 DEF Reads, Checks
      <4> QED BY <4>2, <4>4
    <3>2. CASE calls[s].step # "wait"
      <4>1. hasPendingChanges(s)
        BY <2>5, <3>2, AnswerAt DEF Reads, Checks
      <4>2. ASSUME Checked(s, calls[s].local # InScope(s, saved.snapshot)) PROVE FALSE
        <5>1. PICK pending \in BOOLEAN : pending = (calls[s].local # InScope(s, saved.snapshot))
          OBVIOUS
        <5>2. Checked(s, pending)
          BY <4>2, <5>1
        <5> QED BY <1>10, <5>2
      <4>3. CASE /\ calls[s].step = "dirtyBackend" /\ calls'[s] # None /\ calls'[s] = On(s, "dirtyLocal")
        <5>1. calls'[s].step = "dirtyLocal" /\ calls'[s].ignore = calls[s].ignore
          BY <1>1, <4>3 DEF On, Call
        <5>2. Reads(calls[s], local)'
          BY <1>4, <2>5, <3>2, <5>1 DEF Reads, Checks
        <5> QED BY <4>3, <5>2
      <4>4. CASE calls[s].step = "dirtyLocal" /\ collectLocal(s, "dirtyLocal", "dirtyState")
        <5>1. calls'[s] # None /\ calls'[s] = [On(s, "dirtyState") EXCEPT !.local = InScope(s, local)]
          BY <4>4, collectLocalMoves
        <5>2. calls'[s].step = "dirtyState" /\ calls'[s].ignore = calls[s].ignore /\ calls'[s].local = InScope(s, local)
          BY <1>1, <5>1 DEF On, Call
        <5>3. Reads(calls[s], local)'
          BY <1>3, <1>4, <2>5, <3>2, <5>2 DEF Reads, Checks, InScope
        <5> QED BY <5>1, <5>3
      <4> QED BY <1>6, <4>1, <4>2, <4>3, <4>4, PendingMoves
    <3> QED BY <3>1, <3>2
  <2> QED BY <2>2, <2>3, <2>4, <2>5
<1> QED BY <1>9, <1>10

LEMMA DotClicked ==
    ASSUME DInv, NEW s \in Slots, Click(s)
    PROVE  CleanTold' /\ SavedTold' /\ PendingTold'
<1> USE DEF DInv
<1>1. status' = status /\ dirty' = dirty /\ saved' = saved
  BY DEF Click, Edit, configureBackend, removeBackend, savePreference, resolveConflict,
         beginNow, sendMessage, later, page, stores
<1>2. \A w \in Slots : calls[w] # None => calls'[w] = calls[w]
  BY UnderClicked
<1>3. CleanTold'
  BY <1>1 DEF CleanTold
<1>4. SavedTold'
  BY <1>1, <1>2 DEF SavedTold, Under
<1>5. CASE \E v \in Doc : Edit(s, v)
  <2>1. Begins(s, "edit", "wait")
    <3>1. PICK v \in Doc : Edit(s, v)
      BY <1>5
    <3> QED BY <3>1, PlainBegins DEF Edit
  <2>2. calls'[s] # None /\ Reads(calls[s], local)'
    BY <2>1 DEF Begins, Reads, Checks
  <2> QED BY <1>3, <1>4, <2>2 DEF PendingTold
<1>6. CASE removeBackend(s)
  <2>1. backend' = None
    BY <1>6 DEF removeBackend
  <2> QED BY <1>3, <1>4, <2>1 DEF PendingTold, Pending
<1>7. CASE ~removeBackend(s) /\ ~\E v \in Doc : Edit(s, v)
  <2>1. local' = local /\ ignore' = ignore /\ backend' = backend
    BY <1>7 DEF Click, configureBackend, savePreference, resolveConflict, beginNow, sendMessage, later, stores
  <2>2. manner' = manner
    BY DEF Click, Edit, configureBackend, removeBackend, savePreference, resolveConflict,
           beginNow, sendMessage, later, UserMay, Acts
  <2>3. \A w \in Slots : calls[w] # None /\ Reads(calls[w], local) => (calls[w] # None /\ Reads(calls[w], local))'
    BY <1>2, <2>1 DEF Reads, Checks
  <2>4. \A w \in Slots : calls[w] # None /\ Unsettled(calls[w]) => (calls[w] # None /\ Unsettled(calls[w]))'
    BY <1>2 DEF Unsettled, Settled, Checks, Looks, Runs
  <2> QED BY <1>1, <1>3, <1>4, <2>1, <2>2, <2>3, <2>4 DEF PendingTold, Pending
<1> QED BY <1>5, <1>6, <1>7

LEMMA DotKept ==
    ASSUME DInv, [Next]_vars
    PROVE  DInv'
<1> USE DEF DInv
<1>1. TInv'
  BY TypesKept
<1>2. ASSUME NEW s \in Slots, Answer(s) PROVE DInv'
  BY <1>1, <1>2, OneKept, CleanAnswered, SavedAnswered, SyncedAnswered, StaleAnswered, PendingAnswered
<1>3. ASSUME NEW s \in Slots, Click(s) PROVE DInv'
  BY <1>1, <1>3, OneKept, DotClicked, SyncedClicked, StaleClicked
<1>4. ASSUME UNCHANGED <<calls, manner, local, backend, saved, ignore, status, dirty>> PROVE DInv'
  <2>1. OneAtATime' /\ NoRemoval' /\ CleanTold' /\ SavedTold'
    BY <1>4 DEF OneAtATime, NoRemoval, CleanTold, SavedTold, Under, NotEdit, Kinds
  <2>2. SyncedTo'
    BY <1>4 DEF SyncedTo, Forgets, Rounding, Round, Writes
  <2>3. StaleFollowed'
    BY <1>4 DEF StaleFollowed, Checking, Checks, Reads, WillCheck, Settled, Looks, Writes, Runs
  <2>4. PendingTold'
    BY <1>4 DEF PendingTold, Pending, Checks, Reads, Unsettled, Settled, Looks, Runs
  <2> QED BY <1>1, <2>1, <2>2, <2>3, <2>4
<1>5. CASE dismissMessage \/ (\E r \in Repos, v \in Doc : Foreign(r, v)) \/ UNCHANGED vars
  BY <1>4, <1>5 DEF dismissMessage, Foreign, UserMay, Acts, vars, user, stores, page
<1> QED BY <1>2, <1>3, <1>5 DEF Next

LEMMA DotAtFirst ==
    ASSUME Init
    PROVE  DInv
<1>1. TInv
  BY TypesAtFirst
<1>2. PICK s \in Slots, t \in Slots :
              /\ s # t /\ turns = <<t>> /\ calls \in [Slots -> Call \cup {None}]
              /\ calls[s] = NewCall("load", "statusBackend") /\ calls[t] = NewCall("edit", "wait")
              /\ \A q \in Slots : q # s /\ q # t => calls[q] = None
  BY InitCalls
<1>3. OneAtATime /\ NoRemoval
  BY <1>2, LoadCalls DEF OneAtATime, NoRemoval, Under
<1>4. CleanTold /\ SavedTold
  BY DEF Init, CleanTold, SavedTold
<1>5. SyncedTo
  <2>1. ~(saved.synced /\ backend = None)
    <3>1. (backend = None /\ saved = NoState) \/ backend \in Repos
      BY DEF Init
    <3>2. backend \in Repos => backend # None
      BY NoneElsewhere
    <3>3. ~NoState.synced
      BY DEF NoState
    <3> QED BY <3>1, <3>2, <3>3
  <2>2. \A q \in Slots : calls[q] # None => /\ ~calls[q].read.synced /\ ~Rounding(calls[q])
                                            /\ calls[q].step # "forget"
    BY <1>2, LoadCalls DEF NoState, Rounding, Round, Writes
  <2> QED BY <2>1, <2>2 DEF SyncedTo
<1>6. StaleFollowed /\ PendingTold
  <2>1. Reads(calls[t], local) /\ WillCheck(calls[t]) /\ calls[t] # None
    BY <1>2, LoadCalls, NoneIsNoCall DEF Reads, WillCheck, Checks
  <2> QED BY <2>1 DEF StaleFollowed, PendingTold
<1> QED BY <1>1, <1>3, <1>4, <1>5, <1>6 DEF DInv

LEMMA DotInvariant == Spec => []DInv
<1>1. Init => DInv
  BY DotAtFirst
<1>2. DInv /\ [Next]_vars => DInv'
  BY DotKept
<1> QED BY <1>1, <1>2, PTL DEF Spec

\* However saves, runs, answers and checks overlapped before, when nothing is under
\* way a green dot, or a sync button switched off because all is clean, means that
\* this device has nothing to send.  The user who removes the repository while the
\* network is awaited is excepted.
THEOREM DotIsTrue == Spec => []DotTellsTruth
<1>1. DInv => DotTellsTruth
  <2>1. SUFFICES ASSUME DInv, manner # "fickle", Idle, dot = "ok" \/ (Configured /\ status.clean), Pending
                 PROVE  FALSE
    BY DEF DotTellsTruth
  <2>2. \A s \in Slots : calls[s] = None
    BY <2>1 DEF Idle
  <2>3. /\ status # None /\ status.configured /\ ~dirty /\ ~status.error /\ status.synced
    BY <2>1 DEF dot, Configured, DInv, CleanTold
  <2>4. status.error = saved.error /\ status.synced = saved.synced
    BY <2>1, <2>2, <2>3 DEF DInv, SavedTold, Under
  <2> QED BY <2>1, <2>2, <2>3, <2>4 DEF DInv, PendingTold
<1> QED BY <1>1, DotInvariant, PTL
-----------------------------------------------------------------------------
(* Runs lose nothing *)

\* The operation goes on from step to step with these in hand.
Row(s, before, after, read, mine, theirs) ==
    /\ calls[s].step = before /\ calls'[s] # None /\ calls'[s].step = after
    /\ calls'[s].kind = calls[s].kind /\ calls'[s].repo = calls[s].repo
    /\ calls'[s].ignore = calls[s].ignore /\ calls'[s].mine = calls[s].mine
    /\ calls'[s].again = calls[s].again
    /\ calls'[s].read = read /\ calls'[s].local = mine /\ calls'[s].file = theirs
Plain(s, before, after) == Row(s, before, after, calls[s].read, calls[s].local, calls[s].file)

LEMMA PlainRow ==
    ASSUME TInv, NEW s \in Slots, calls[s] \in Call, NEW after \in Steps, calls'[s] = On(s, after)
    PROVE  Plain(s, calls[s].step, after)
<1>1. On(s, after) \in Call
  BY OnTyped
<1> QED BY <1>1, OnTyped, NoneIsNoCall DEF Plain, Row

LEMMA ReadRow ==
    ASSUME TInv, NEW s \in Slots, NEW step, NEW next,
           <<step, next>> \in {<<"scopeRead", "scopeWrite">>, <<"recheck", "answer">>,
                               <<"stateRead", "stateWrite">>, <<"clearRead", "clearWrite">>,
                               <<"errorRead", "errorWrite">>},
           ReadState(s, step, next)
    PROVE  Row(s, step, next, saved, calls[s].local, calls[s].file) /\ UNCHANGED stores
<1>1. calls[s] \in Call /\ calls'[s] # None /\ calls'[s] = [On(s, next) EXCEPT !.read = saved]
      /\ calls[s].step = step /\ UNCHANGED stores
  BY ReadStateMoves DEF ReadState, At, Moves
<1> QED BY <1>1 DEF Row, On, Call

LEMMA LocalRow ==
    ASSUME TInv, NEW s \in Slots, NEW step, NEW next,
           <<step, next>> \in {<<"collect", "list">>, <<"advance", "stateRead">>,
                               <<"dirtyLocal", "dirtyState">>},
           collectLocal(s, step, next)
    PROVE  Row(s, step, next, calls[s].read, Scoped(calls[s]), calls[s].file) /\ UNCHANGED stores
<1>1. calls[s] \in Call /\ calls'[s] # None /\ calls'[s] = [On(s, next) EXCEPT !.local = InScope(s, local)]
      /\ calls[s].step = step /\ UNCHANGED stores
  BY collectLocalMoves DEF collectLocal, At, Moves
<1>2. InScope(s, local) = Scoped(calls[s])
  BY DEF InScope, Scoped
<1> QED BY <1>1, <1>2 DEF Row, On, Call

\* An operation that starts afresh has nothing in hand.
Afresh(s) ==
    /\ calls'[s] # None /\ calls'[s].step \in {"settle", "statusBackend", "wait"}
    /\ calls'[s].again = "done" /\ calls'[s].file = None /\ calls'[s].read = NoState

LEMMA NewAfresh ==
    ASSUME NEW s \in Slots, NEW kind, NEW step \in {"settle", "statusBackend", "wait"},
           calls'[s] = NewCall(kind, step), calls'[s] # None
    PROVE  Afresh(s)
BY DEF Afresh, NewCall

LEMMA AnsweredAfresh ==
    ASSUME NEW s \in Slots, Answered(s)
    PROVE  Afresh(s)
<1>1. calls'[s] = NewCall(calls[s].kind, "settle") \/ calls'[s] = NewCall(calls[s].kind, "statusBackend")
  BY DEF Answered
<1> QED BY <1>1, NewAfresh DEF Answered

\* Where the operation of a slot goes when storage stays as it is.
Pairs == {<<"open", "register">>, <<"open", "errorRead">>, <<"list", "errorRead">>, <<"push", "errorRead">>,
          <<"dirtyBackend", "dirtyLocal">>}
Standing(s) ==
    /\ UNCHANGED stores
    /\ \/ Afresh(s) \/ Flush(s) \/ StartDirty(s)
       \/ \E p \in Pairs : Plain(s, p[1], p[2])
       \/ \E p \in Reading \ {<<"base", "recheck">>} : Row(s, p[1], p[2], saved, calls[s].local, calls[s].file)
       \/ \E p \in {<<"collect", "list">>, <<"advance", "stateRead">>, <<"dirtyLocal", "dirtyState">>} :
             Row(s, p[1], p[2], calls[s].read, Scoped(calls[s]), calls[s].file)
       \/ /\ calls[s].repo \in Repos
          /\ Row(s, "list", "base", calls[s].read, calls[s].local, InScope(s, remote[calls[s].repo]))
       \/ /\ calls[s].step = "require" /\ calls'[s] # None /\ backend # None
          /\ calls'[s].step \in {"scopeRead", "recall"} /\ calls'[s].kind = calls[s].kind
          /\ calls'[s].repo = backend /\ calls'[s].file = calls[s].file /\ calls'[s].read = calls[s].read
       \/ /\ calls[s].step = "recall" /\ calls'[s] # None /\ calls'[s].step = "scopeRead"
          /\ calls'[s].kind = calls[s].kind
          /\ calls'[s].repo = calls[s].repo /\ calls'[s].file = calls[s].file /\ calls'[s].read = calls[s].read
       \/ Decide(s) /\ (\/ Row(s, "base", "recheck", saved, calls[s].local, calls[s].file)
                        \/ \E after \in {"advance", "push", "pull"} : Plain(s, "base", after))
       \/ /\ calls[s].step = "statusBackend" /\ calls'[s] # None /\ calls'[s].step = "statusState"
          /\ calls'[s].kind = calls[s].kind /\ calls'[s].again = calls[s].again
          /\ calls'[s].file = None /\ calls'[s].read = calls[s].read
          /\ calls'[s].mine <=> backend # None
       \/ statusState(s) /\ (\/ calls'[s] = None
                             \/ /\ calls'[s] # None /\ calls[s].again \in {"open", "require"}
                                /\ calls'[s].step = calls[s].again /\ calls'[s].kind = calls[s].kind
                                /\ calls'[s].file = calls[s].file /\ calls'[s].read = calls[s].read
                                /\ calls'[s].again = "done")
       \/ calls'[s] = None

Changing(s) ==
    \/ Register(s) \/ Forget(s) \/ StorePreference(s) \/ rememberScope(s) \/ Push(s) \/ PushUnanswered(s)
    \/ Pull(s) \/ (AnswerMine(s) /\ Sends(s, "pin")) \/ AnswerTheirs(s) \/ writeSnapshotEntry(s)
    \/ advanceSnapshot(s) \/ clearError(s) \/ recordError(s)

LEMMA AnswersStand ==
    ASSUME TInv, NEW s \in Slots, Answer(s)
    PROVE  Standing(s) \/ Changing(s)
<1>1. Moves(s) /\ calls[s] \in Call /\ Fits(calls[s])
  BY AnswersSorted, NoneIsNoCall DEF Moves, TInv, CallsFit
<1>2. CASE Opens(s)
  <2>1. calls'[s] = On(s, "register") /\ calls[s].step = "open" /\ UNCHANGED stores
    BY <1>2, OpensMoves DEF Opens, At
  <2>2. Plain(s, "open", "register")
    BY <1>1, <2>1, PlainRow DEF Steps
  <2>3. \E p \in Pairs : Plain(s, p[1], p[2])
    BY <2>2 DEF Pairs
  <2> QED BY <2>1, <2>3 DEF Standing
<1>3. CASE ForgetFails(s)
  BY <1>3, ForgetFailsMoves, AnsweredAfresh DEF ForgetFails, Standing
<1>4. CASE Flush(s)
  BY <1>4 DEF Flush, Standing
<1>5. CASE requireBackend(s)
  <2>1. UNCHANGED stores
    BY <1>5 DEF requireBackend
  <2>2. CASE Answered(s)
    BY <2>1, <2>2, AnsweredAfresh DEF Standing
  <2>3. CASE ~Answered(s)
    <3> DEFINE next == IF calls[s].kind = "run" THEN "scopeRead" ELSE "recall"
    <3>1. backend # None /\ calls'[s] # None /\ calls'[s] = [On(s, next) EXCEPT !.repo = backend]
          /\ calls[s].step = "require"
      BY <1>5, <2>3, requireBackendMoves
    <3>2. next \in {"scopeRead", "recall"}
      OBVIOUS
    <3> HIDE DEF next
    <3>3. /\ calls'[s].step = next /\ calls'[s].kind = calls[s].kind /\ calls'[s].repo = backend
          /\ calls'[s].file = calls[s].file /\ calls'[s].read = calls[s].read
      BY <1>1, <3>1 DEF On, Call
    <3> QED BY <2>1, <3>1, <3>2, <3>3 DEF Standing
  <2> QED BY <2>2, <2>3
<1>6. CASE readScopeForResolve(s)
  <2>1. UNCHANGED stores
    BY <1>6 DEF readScopeForResolve
  <2>2. CASE Answered(s)
    BY <2>1, <2>2, AnsweredAfresh DEF Standing
  <2>3. CASE ~Answered(s)
    <3>1. calls'[s] # None /\ calls'[s] = [On(s, "scopeRead") EXCEPT !.ignore = saved.scope]
          /\ calls[s].step = "recall"
      BY <1>6, <2>3, readScopeMoves
    <3>2. /\ calls'[s].step = "scopeRead" /\ calls'[s].kind = calls[s].kind /\ calls'[s].repo = calls[s].repo
          /\ calls'[s].file = calls[s].file /\ calls'[s].read = calls[s].read
      BY <1>1, <3>1 DEF On, Call
    <3> QED BY <2>1, <3>1, <3>2 DEF Standing
  <2> QED BY <2>2, <2>3
<1>7. ASSUME NEW step, NEW next, ReadState(s, step, next),
             <<step, next>> \in {<<"scopeRead", "scopeWrite">>, <<"recheck", "answer">>,
                               <<"stateRead", "stateWrite">>, <<"clearRead", "clearWrite">>,
                               <<"errorRead", "errorWrite">>}
      PROVE  Standing(s)
  <2>1. Row(s, step, next, saved, calls[s].local, calls[s].file) /\ UNCHANGED stores
    BY <1>7, ReadRow
  <2>2. <<step, next>> \in Reading \ {<<"base", "recheck">>}
    BY <1>7 DEF Reading
  <2>3. \E p \in Reading \ {<<"base", "recheck">>} : Row(s, p[1], p[2], saved, calls[s].local, calls[s].file)
    BY <2>1, <2>2
  <2> QED BY <2>1, <2>3 DEF Standing
<1>8. ASSUME NEW step, NEW next, collectLocal(s, step, next),
             <<step, next>> \in {<<"collect", "list">>, <<"advance", "stateRead">>,
                               <<"dirtyLocal", "dirtyState">>}
      PROVE  Standing(s)
  <2>1. Row(s, step, next, calls[s].read, Scoped(calls[s]), calls[s].file) /\ UNCHANGED stores
    BY <1>8, LocalRow
  <2>2. \E p \in {<<"collect", "list">>, <<"advance", "stateRead">>, <<"dirtyLocal", "dirtyState">>} :
             Row(s, p[1], p[2], calls[s].read, Scoped(calls[s]), calls[s].file)
    BY <1>8, <2>1
  <2> QED BY <2>1, <2>2 DEF Standing
<1>9. CASE List(s)
  <2>1. /\ calls'[s] # None /\ calls[s].repo \in Repos /\ calls[s].step = "list" /\ UNCHANGED stores
        /\ calls'[s] = [On(s, "base") EXCEPT !.file = InScope(s, remote[calls[s].repo])]
    BY <1>9, ListMoves DEF List, At
  <2>2. Row(s, "list", "base", calls[s].read, calls[s].local, InScope(s, remote[calls[s].repo]))
    BY <1>1, <2>1 DEF Row, On, Call
  <2> QED BY <2>1, <2>2 DEF Standing
<1>10. CASE Decide(s)
  <2>1. UNCHANGED stores /\ calls[s].step = "base"
    BY <1>10, DecideMoves DEF Decide
  <2>2. CASE Answered(s)
    BY <2>1, <2>2, AnsweredAfresh DEF Standing
  <2>3. CASE calls'[s] # None /\ calls'[s] = [On(s, "recheck") EXCEPT !.read = saved]
    <3>1. Row(s, "base", "recheck", saved, calls[s].local, calls[s].file)
      BY <1>1, <2>1, <2>3 DEF Row, On, Call
    <3> QED BY <1>10, <2>1, <3>1 DEF Standing
  <2>4. ASSUME NEW after \in {"advance", "push", "pull"}, calls'[s] = On(s, after) PROVE Standing(s)
    <3>1. Plain(s, "base", after)
      BY <1>1, <2>1, <2>4, PlainRow DEF Steps
    <3> QED BY <1>10, <2>1, <3>1 DEF Standing
  <2> QED BY <1>10, <2>2, <2>3, <2>4, DecideMoves
<1>11. CASE AnswerMine(s)
  <2>1. CASE Answered(s) /\ UNCHANGED stores
    BY <2>1, AnsweredAfresh DEF Standing
  <2>2. CASE ~(Answered(s) /\ UNCHANGED stores)
    BY <1>11, <2>2, AnswerMineMoves DEF Changing
  <2> QED BY <2>1, <2>2
<1>12. CASE NetworkFails(s)
  <2>1. UNCHANGED stores
    BY <1>12 DEF NetworkFails
  <2>2. CASE Answered(s)
    BY <2>1, <2>2, AnsweredAfresh DEF Standing
  <2>3. CASE ~Answered(s)
    <3>1. /\ calls'[s] = On(s, "errorRead") /\ calls'[s] # None /\ calls[s].step \in {"open", "list", "push", "answer"}
          /\ calls[s].kind \in {"run", "configure"}
      BY <1>12, <2>3, NetworkFailsMoves
    <3>2. calls[s].step \in {"open", "list", "push"}
      BY <1>1, <3>1 DEF Fits
    <3>3. Plain(s, calls[s].step, "errorRead")
      BY <1>1, <3>1, PlainRow DEF Steps
    <3>4. \E p \in Pairs : Plain(s, p[1], p[2])
      BY <3>2, <3>3 DEF Pairs
    <3> QED BY <2>1, <3>4 DEF Standing
  <2> QED BY <2>2, <2>3
<1>13. CASE onSettled(s)
  <2>1. calls'[s] # None /\ calls'[s] = NewCall(calls[s].kind, "wait") /\ UNCHANGED stores
    BY <1>13, onSettledMoves DEF onSettled
  <2>2. Afresh(s)
    BY <2>1, NewAfresh
  <2> QED BY <2>1, <2>2 DEF Standing
<1>14. CASE StartDirty(s)
  BY <1>14 DEF StartDirty, Standing
<1>15. CASE hasPendingChanges(s)
  <2>1. ASSUME NEW pending, Checked(s, pending) PROVE Standing(s)
    <3>1. UNCHANGED stores /\ (calls'[s] = None \/ calls'[s] = NewCall(calls[s].kind, "statusBackend"))
      BY <2>1 DEF Checked
    <3>2. calls'[s] = None \/ Afresh(s)
      BY <3>1, NewAfresh
    <3> QED BY <3>1, <3>2 DEF Standing
  <2>2. CASE /\ calls[s].step = "dirtyBackend" /\ calls'[s] = On(s, "dirtyLocal")
             /\ UNCHANGED <<user, turns, stores, page>>
    <3>1. Plain(s, "dirtyBackend", "dirtyLocal")
      BY <1>1, <2>2, PlainRow DEF Steps
    <3>2. \E p \in Pairs : Plain(s, p[1], p[2])
      BY <3>1 DEF Pairs
    <3> QED BY <2>2, <3>2 DEF Standing
  <2>3. CASE collectLocal(s, "dirtyLocal", "dirtyState")
    BY <1>8, <2>3
  <2> QED BY <1>15, <2>1, <2>2, <2>3, PendingMoves
<1>16. CASE statusBackend(s)
  <2>1. calls'[s] # None /\ calls[s].step = "statusBackend" /\ UNCHANGED stores
    BY <1>16, statusBackendMoves DEF statusBackend
  <2>2. PICK known \in BOOLEAN : /\ known <=> backend # None
                                 /\ calls'[s] = [On(s, "statusState") EXCEPT !.file = None, !.mine = known]
    BY <1>16, statusBackendMoves
  <2>3. /\ calls'[s].step = "statusState" /\ calls'[s].kind = calls[s].kind /\ calls'[s].again = calls[s].again
        /\ calls'[s].file = None /\ calls'[s].read = calls[s].read /\ calls'[s].mine = known
    BY <1>1, <2>2 DEF On, Call
  <2>4. calls'[s].mine <=> backend # None
    BY <2>2, <2>3
  <2> QED BY <2>1, <2>3, <2>4 DEF Standing
<1>17. CASE statusState(s)
  <2>1. UNCHANGED stores
    BY <1>17 DEF statusState
  <2>2. CASE calls'[s] = None
    BY <2>1, <2>2 DEF Standing
  <2>3. CASE calls'[s] # None
    <3>1. /\ calls[s].again \in {"open", "require"}
          /\ calls'[s] = [On(s, calls[s].again) EXCEPT !.again = "done", !.mine = FALSE, !.ignore = ignore]
      BY <1>17, <2>3, statusStateMoves
    <3>2. /\ calls'[s].step = calls[s].again /\ calls'[s].kind = calls[s].kind /\ calls'[s].again = "done"
          /\ calls'[s].file = calls[s].file /\ calls'[s].read = calls[s].read
      BY <1>1, <3>1 DEF On, Call
    <3> QED BY <1>17, <2>1, <2>3, <3>1, <3>2 DEF Standing
  <2> QED BY <2>2, <2>3
<1>18. CASE Register(s) \/ Forget(s) \/ StorePreference(s) \/ rememberScope(s) \/ Push(s) \/ PushUnanswered(s)
            \/ Pull(s) \/ AnswerTheirs(s) \/ writeSnapshotEntry(s)
            \/ advanceSnapshot(s) \/ clearError(s) \/ recordError(s)
  BY <1>18 DEF Changing
<1> QED BY <1>2, <1>3, <1>4, <1>5, <1>6, <1>7, <1>8, <1>9, <1>10, <1>11, <1>12, <1>13, <1>14, <1>15, <1>16,
           <1>17, <1>18 DEF Answer

ChangePairs == {<<"scopeWrite", "collect">>, <<"push", "advance">>, <<"push", "errorRead">>,
                <<"pull", "advance">>, <<"answer", "pin">>, <<"pin", "advance">>, <<"stateWrite", "clearRead">>}

LEMMA ChangingRows ==
    ASSUME TInv, NEW s \in Slots, Changing(s)
    PROVE  Afresh(s) \/ \E p \in ChangePairs : Plain(s, p[1], p[2])
<1>1. ASSUME calls[s] \in Call, NEW before, NEW after, calls[s].step = before, calls'[s] = On(s, after),
             <<before, after>> \in ChangePairs
      PROVE  \E p \in ChangePairs : Plain(s, p[1], p[2])
  <2>1. after \in Steps
    BY <1>1 DEF ChangePairs, Steps
  <2>2. Plain(s, before, after)
    BY <1>1, <2>1, PlainRow
  <2>3. Plain(s, <<before, after>>[1], <<before, after>>[2])
    BY <2>2
  <2> QED BY <1>1, <2>3
<1>2. CASE Register(s) \/ Forget(s) \/ clearError(s) \/ recordError(s)
  BY <1>2, RegisterMoves, ForgetMoves, clearErrorMoves, recordErrorMoves, AnsweredAfresh
<1>3. CASE StorePreference(s)
  BY <1>3, StorePreferenceMoves, NewAfresh
<1>4. CASE rememberScope(s)
  <2>1. calls[s] \in Call /\ calls[s].step = "scopeWrite" /\ calls'[s] = On(s, "collect")
    BY <1>4, rememberScopeMoves DEF Moves, rememberScope, WriteState, At
  <2> QED BY <1>1, <2>1 DEF ChangePairs
<1>5. CASE Push(s)
  <2>1. calls[s] \in Call /\ calls[s].step = "push" /\ calls'[s] = On(s, "advance")
    BY <1>5, PushMoves DEF Moves, Push, At
  <2> QED BY <1>1, <2>1 DEF ChangePairs
<1>6. CASE PushUnanswered(s)
  <2>1. calls[s] \in Call /\ calls[s].step = "push" /\ calls'[s] = On(s, "errorRead")
    BY <1>6, PushUnansweredMoves DEF Moves, PushUnanswered, At
  <2> QED BY <1>1, <2>1 DEF ChangePairs
<1>7. CASE Pull(s)
  <2>1. calls[s] \in Call /\ calls[s].step = "pull" /\ calls'[s] = On(s, "advance")
    BY <1>7, PullMoves DEF Moves, Pull, At
  <2> QED BY <1>1, <2>1 DEF ChangePairs
<1>8. CASE AnswerMine(s) /\ Sends(s, "pin")
  <2>1. calls[s] \in Call /\ calls[s].step = "answer"
    BY <1>8, CallAt DEF AnswerMine
  <2>2. Goto(s, On(s, "pin")) /\ calls \in [Slots -> Call \cup {None}]
    BY <1>8 DEF Sends, TInv, TypeOK
  <2>3. calls'[s] = On(s, "pin")
    BY <2>2 DEF Goto
  <2> QED BY <1>1, <2>1, <2>3 DEF ChangePairs
<1>9. CASE AnswerTheirs(s)
  <2>1. calls[s] \in Call /\ calls[s].step = "answer" /\ calls'[s] = On(s, "pin")
    BY <1>9, AnswerTheirsMoves DEF Moves
  <2> QED BY <1>1, <2>1 DEF ChangePairs
<1>10. CASE writeSnapshotEntry(s)
  <2>1. calls[s] \in Call /\ calls[s].step = "pin" /\ calls'[s] = On(s, "advance")
    BY <1>10, writeSnapshotEntryMoves DEF Moves, writeSnapshotEntry, WriteState, At
  <2> QED BY <1>1, <2>1 DEF ChangePairs
<1>11. CASE advanceSnapshot(s)
  <2>1. calls[s] \in Call /\ calls[s].step = "stateWrite" /\ calls'[s] = On(s, "clearRead")
    BY <1>11, advanceSnapshotMoves DEF Moves, advanceSnapshot, WriteState, At
  <2> QED BY <1>1, <2>1 DEF ChangePairs
<1> QED BY <1>2, <1>3, <1>4, <1>5, <1>6, <1>7, <1>8, <1>9, <1>10, <1>11 DEF Changing

\* What a repository has held is never forgotten.
LEMMA HeldAdded ==
    ASSUME TInv, NEW r \in Repos, NEW v, held' = [held EXCEPT ![r] = @ \cup ({v} \ {None})]
    PROVE  /\ \A q \in Repos : held[q] \subseteq held'[q]
           /\ v \in held'[r] \cup {None}
<1>1. DOMAIN held = Repos
  BY DEF TInv, TypeOK
<1>2. held'[r] = held[r] \cup ({v} \ {None}) /\ \A q \in Repos : q # r => held'[q] = held[q]
  BY <1>1
<1>3. \A q \in Repos : held[q] \subseteq held'[q]
  BY <1>2
<1> QED BY <1>2, <1>3

LEMMA HeldGrows ==
    ASSUME TInv, NEW s \in Slots, Answer(s)
    PROVE  \A q \in Repos : held[q] \subseteq held'[q]
<1>1. CASE \E next : Sends(s, next) /\ calls[s] # None /\ calls[s].step \in {"push", "answer"}
  <2>1. calls[s].repo \in Repos
    BY <1>1 DEF TInv, CallsFit, Fits
  <2> QED BY <1>1, <2>1, HeldAdded DEF Sends
<1>2. CASE AnswerTheirs(s)
  <2>1. calls[s].repo \in Repos
    BY <1>2, CallAt DEF AnswerTheirs, Fits
  <2> QED BY <1>2, <2>1, HeldAdded DEF AnswerTheirs, Takes
<1>3. CASE UNCHANGED held
  BY <1>3
<1>4. UNCHANGED held \/ AnswerTheirs(s)
      \/ \E next : Sends(s, next) /\ calls[s] # None /\ calls[s].step \in {"push", "answer"}
  <2>1. CASE Standing(s)
    BY <2>1 DEF Standing, stores
  <2>2. CASE Changing(s)
    BY <2>2 DEF Changing, Register, Forget, StorePreference, rememberScope, Push, PushUnanswered, Pull, Takes,
        AnswerMine, At, writeSnapshotEntry, advanceSnapshot, clearError, recordError, WriteState
  <2> QED BY <2>1, <2>2, AnswersStand
<1> QED BY <1>1, <1>2, <1>3, <1>4

LEMMA RemotesAnswered ==
    ASSUME TInv, RemotesHeld, NEW s \in Slots, Answer(s)
    PROVE  RemotesHeld'
<1>1. \A q \in Repos : held[q] \subseteq held'[q]
  BY HeldGrows
<1>2. CASE UNCHANGED remote
  BY <1>1, <1>2 DEF RemotesHeld, Parted
<1>3. CASE \E next : Sends(s, next) /\ calls[s] # None /\ calls[s].step \in {"push", "answer"}
  <2>1. calls[s].repo \in Repos
    BY <1>3 DEF TInv, CallsFit, Fits
  <2>2. calls[s].local \in held'[calls[s].repo] \cup {None}
    BY <1>3, <2>1, HeldAdded DEF Sends
  <2>3. remote' = [remote EXCEPT ![calls[s].repo] = calls[s].local] /\ DOMAIN remote = Repos
    BY <1>3 DEF Sends, TInv, TypeOK
  <2>4. \A q \in Repos : remote'[q] = IF q = calls[s].repo THEN calls[s].local ELSE remote[q]
    BY <2>3
  <2> QED BY <1>1, <2>2, <2>4 DEF RemotesHeld, Parted
<1>4. UNCHANGED remote \/ \E next : Sends(s, next) /\ calls[s] # None /\ calls[s].step \in {"push", "answer"}
  <2>1. CASE Standing(s)
    BY <2>1 DEF Standing, stores
  <2>2. CASE Changing(s)
    BY <2>2 DEF Changing, Register, Forget, StorePreference, rememberScope, Push, PushUnanswered, Pull, Takes,
        AnswerMine, AnswerTheirs, At, writeSnapshotEntry, advanceSnapshot, clearError, recordError, WriteState
  <2> QED BY <2>1, <2>2, AnswersStand
<1> QED BY <1>2, <1>3, <1>4

LEMMA FilesAnswered ==
    ASSUME TInv, RemotesHeld, FilesHeld, NEW s \in Slots, Answer(s)
    PROVE  FilesHeld'
<1>1. /\ Moves(s) /\ calls[s] \in Call /\ calls[s] # None /\ \A t \in Slots : t # s => calls'[t] = calls[t]
  BY AnswersSorted, NoneIsNoCall DEF Moves
<1>2. \A q \in Repos : held[q] \subseteq held'[q]
  BY HeldGrows
<1>3. SUFFICES ASSUME NEW t \in Slots, calls'[t] # None, calls'[t].file # None
               PROVE  /\ calls'[t].step \in AfterList /\ calls'[t].repo \in Repos
                      /\ calls'[t].file \in held'[calls'[t].repo]
  BY DEF FilesHeld, AfterList, Writes
<1>4. CASE t # s
  <2>1. calls'[t] = calls[t]
    BY <1>1, <1>4
  <2> QED BY <1>2, <1>3, <2>1 DEF FilesHeld
<1>5. CASE t = s
  <2>1. ASSUME calls'[s].file = calls[s].file, calls[s].step \in AfterList => calls'[s].step \in AfterList,
               calls[s].step \in AfterList => calls'[s].repo = calls[s].repo
        PROVE  /\ calls'[t].step \in AfterList /\ calls'[t].repo \in Repos
               /\ calls'[t].file \in held'[calls'[t].repo]
    BY <1>1, <1>2, <1>3, <1>5, <2>1 DEF FilesHeld
  <2>2. CASE Afresh(s)
    BY <1>3, <1>5, <2>2 DEF Afresh
  <2>3. ASSUME NEW p \in Pairs \cup ChangePairs, Plain(s, p[1], p[2]) PROVE calls'[s].step \in AfterList \/ calls'[s].file = None
    <3>1. calls[s].step \in AfterList => calls'[s].step \in AfterList
      BY <2>3 DEF Plain, Row, Pairs, ChangePairs, AfterList, Writes
    <3>2. calls[s].file = None \/ calls[s].step \in AfterList
      BY <1>1 DEF FilesHeld
    <3> QED BY <2>3, <3>1, <3>2 DEF Plain, Row
  <2>4. CASE \E p \in Pairs \cup ChangePairs : Plain(s, p[1], p[2])
    <3>1. calls'[s].file = calls[s].file /\ calls'[s].repo = calls[s].repo
      BY <2>4 DEF Plain, Row
    <3>2. calls'[s].step \in AfterList
      BY <1>3, <1>5, <2>3, <2>4
    <3> QED BY <2>1, <3>1, <3>2
  <2>5. CASE Standing(s)
    <3>1. held' = held
      BY <2>5 DEF Standing, stores
    <3>2. CASE Flush(s)
      <4>1. calls'[s] = [NewCall("run", "statusBackend") EXCEPT !.again = "require"]
        BY <3>2, FlushMoves
      <4> QED BY <1>3, <1>5, <4>1 DEF NewCall
    <3>3. CASE StartDirty(s)
      <4>1. calls'[s] = [On(s, "dirtyBackend") EXCEPT !.ignore = ignore] /\ calls[s].step = "wait"
        BY <3>3, StartDirtyMoves
      <4>2. calls'[s].file = calls[s].file
        BY <1>1, <4>1 DEF On, Call
      <4> QED BY <2>1, <4>1, <4>2 DEF AfterList, Writes
    <3>4. CASE \E p \in Reading \ {<<"base", "recheck">>} : Row(s, p[1], p[2], saved, calls[s].local, calls[s].file)
      <4>1. /\ calls'[s].file = calls[s].file /\ calls'[s].repo = calls[s].repo
            /\ calls[s].step \in AfterList => calls'[s].step \in AfterList
        BY <3>4 DEF Row, Reading, AfterList, Writes
      <4> QED BY <2>1, <4>1
    <3>5. CASE \E p \in {<<"collect", "list">>, <<"advance", "stateRead">>, <<"dirtyLocal", "dirtyState">>} :
             Row(s, p[1], p[2], calls[s].read, Scoped(calls[s]), calls[s].file)
      <4>1. /\ calls'[s].file = calls[s].file /\ calls'[s].repo = calls[s].repo
            /\ calls[s].step \in AfterList => calls'[s].step \in AfterList
        BY <3>5 DEF Row, AfterList, Writes
      <4> QED BY <2>1, <4>1
    <3>6. CASE /\ calls[s].repo \in Repos
               /\ Row(s, "list", "base", calls[s].read, calls[s].local, InScope(s, remote[calls[s].repo]))
      <4>1. /\ calls'[s].step = "base" /\ calls'[s].repo = calls[s].repo
            /\ calls'[s].file = remote[calls[s].repo]
        BY <1>3, <1>5, <3>6 DEF Row, InScope
      <4>2. remote[calls[s].repo] \in held[calls[s].repo]
        BY <1>3, <1>5, <3>6, <4>1 DEF RemotesHeld, Parted
      <4> QED BY <1>5, <3>1, <3>6, <4>1, <4>2 DEF AfterList
    <3>7. CASE calls[s].step \in {"require", "recall"} /\ calls'[s].file = calls[s].file
      BY <2>1, <3>7 DEF AfterList, Writes
    <3>8. CASE Row(s, "base", "recheck", saved, calls[s].local, calls[s].file)
               \/ \E after \in {"advance", "push", "pull"} : Plain(s, "base", after)
      <4>1. /\ calls'[s].file = calls[s].file /\ calls'[s].repo = calls[s].repo
            /\ calls'[s].step \in AfterList
        BY <3>8 DEF Row, Plain, AfterList, Writes
      <4> QED BY <2>1, <4>1
    <3>9. CASE calls'[s].file = None
      BY <1>3, <1>5, <3>9
    <3>10. CASE statusState(s) /\ calls'[s].file = calls[s].file
      <4>1. calls[s].step = "statusState"
        BY <3>10, statusStateMoves
      <4> QED BY <2>1, <3>10, <4>1 DEF AfterList, Writes
    <3> QED BY <1>3, <1>5, <2>2, <2>4, <2>5, <3>2, <3>3, <3>4, <3>5, <3>6, <3>7, <3>8, <3>9, <3>10 DEF Standing
  <2>6. CASE Changing(s)
    BY <2>2, <2>4, <2>6, ChangingRows
  <2> QED BY <2>5, <2>6, AnswersStand
<1> QED BY <1>4, <1>5

HInv == TInv /\ OneAtATime /\ NoRemoval /\ RemotesHeld /\ FilesHeld /\ StatusTold /\ BaseHeld /\ CallsHeld

LEMMA AfreshHeld ==
    ASSUME NEW s \in Slots, Afresh(s)
    PROVE  CallHeld(calls[s])'
<1>1. /\ calls'[s].read.snapshot = None /\ calls'[s].step \in {"settle", "statusBackend", "wait"}
      /\ calls'[s].again = "done"
  BY DEF Afresh, NoState
<1> QED BY <1>1 DEF CallHeld, Based, Settled, Rounding, Round, Writes, Checks, Looks

\* Where a calm user's run, answer or connection is under way, nothing is being removed.
LEMMA BaseKnown ==
    ASSUME HInv, manner = "calm", NEW s \in Slots, calls[s] # None,
           calls[s].kind \in {"run", "resolve", "configure"}
    PROVE  Based(saved.snapshot)
<1>1. ASSUME Forgets PROVE FALSE
  <2>1. PICK t \in Slots : calls[t] # None /\ calls[t].step = "forget"
    BY <1>1 DEF Forgets
  <2>2. calls[t].kind = "remove"
    BY <2>1 DEF HInv, TInv, CallsFit, Fits
  <2>3. t # s
    BY <2>2
  <2> QED BY <2>1, <2>3, RemovalAlone DEF HInv
<1> QED BY <1>1 DEF HInv, BaseHeld

LEMMA StandingHeld ==
    ASSUME HInv, manner = "calm", NEW s \in Slots, Answer(s), Standing(s), calls'[s] # None
    PROVE  CallHeld(calls[s])'
<1> USE DEF HInv
<1>1. /\ calls[s] \in Call /\ calls[s] # None /\ Fits(calls[s]) /\ CallHeld(calls[s])
      /\ Moves(s) /\ Fits(calls'[s]) /\ calls'[s].kind = calls[s].kind
  BY AnswersSorted, NoneIsNoCall DEF Moves, TInv, CallsFit, CallsHeld
<1>2. /\ local' = local /\ remote' = remote /\ backend' = backend /\ saved' = saved /\ held' = held
  BY DEF Standing, stores
<1>3. calls[s].kind \in {"run", "resolve", "configure"} => Based(saved.snapshot)
  BY <1>1, BaseKnown
<1>4. CASE Afresh(s)
  BY <1>4, AfreshHeld
<1>5. CASE Flush(s)
  <2>1. calls'[s] = [NewCall("run", "statusBackend") EXCEPT !.again = "require"]
    BY <1>5, FlushMoves
  <2>2. /\ calls'[s].read.snapshot = None /\ calls'[s].step = "statusBackend" /\ calls'[s].kind = "run"
    BY <2>1 DEF NewCall, NoState
  <2> QED BY <2>2 DEF CallHeld, Based, Rounding, Round, Writes
<1>6. CASE StartDirty(s)
  <2>1. calls'[s] = [On(s, "dirtyBackend") EXCEPT !.ignore = ignore]
    BY <1>6, StartDirtyMoves
  <2>2. calls'[s].read = calls[s].read /\ calls'[s].step = "dirtyBackend"
    BY <1>1, <2>1 DEF On, Call
  <2>3. Based(calls[s].read.snapshot)
    BY <1>1 DEF CallHeld
  <2>4. Based(calls[s].read.snapshot)'
    BY <1>2, <2>2, <2>3 DEF Based
  <2> QED BY <2>2, <2>4 DEF CallHeld, Settled, Checks, Rounding, Round, Writes
<1>7. CASE \E p \in Pairs : Plain(s, p[1], p[2])
  <2>1. /\ calls'[s].step \in {"register", "errorRead", "dirtyLocal"} /\ calls'[s].read = calls[s].read
        /\ calls'[s].step = "register" => calls[s].step = "open"
    BY <1>7 DEF Plain, Row, Pairs
  <2>2. Based(calls[s].read.snapshot)'
    BY <1>1, <1>2, <2>1 DEF Based, CallHeld
  <2>3. calls'[s].step = "register" => backend = None
    BY <1>1, <2>1 DEF CallHeld, Fits, Settled, Checks, Looks
  <2> QED BY <1>2, <2>1, <2>2, <2>3 DEF CallHeld, Settled, Checks, Rounding, Round, Writes
<1>8. CASE \E p \in Reading \ {<<"base", "recheck">>} : Row(s, p[1], p[2], saved, calls[s].local, calls[s].file)
  <2>1. /\ calls'[s].step \in {"scopeWrite", "answer", "stateWrite", "clearWrite", "errorWrite"}
        /\ calls'[s].read = saved /\ calls'[s].repo = calls[s].repo
        /\ calls'[s].ignore = calls[s].ignore /\ calls'[s].local = calls[s].local
        /\ calls'[s].step \in {"scopeWrite", "answer", "stateWrite", "clearWrite"} => Rounding(calls[s])
        /\ calls'[s].step = "answer" => calls[s].step = "recheck"
        /\ calls'[s].step = "stateWrite" => calls[s].step = "stateRead"
    BY <1>8 DEF Row, Reading, Rounding, Round, Writes
  <2>2. calls[s].kind \in {"run", "resolve", "configure"}
    BY <1>1, <2>1 DEF Fits, Round, Writes, Runs
  <2>3. Based(calls[s].read.snapshot)'
    BY <1>2, <1>3, <2>1, <2>2 DEF Based
  <2>4. calls'[s].step # "errorWrite" => backend # None /\ calls'[s].repo = backend
    BY <1>1, <2>1 DEF CallHeld
  <2>5. calls'[s].step \in {"answer", "stateWrite"} => calls'[s].local = Scoped(calls[s])
    BY <1>1, <2>1 DEF CallHeld
  <2>6. calls'[s].step = "stateWrite" => Scoped(calls[s]) \in Parted(backend)
    BY <1>1, <2>1 DEF CallHeld
  <2>7. calls'[s].kind = "configure" => calls'[s].step = "errorWrite"
    BY <1>1, <2>1 DEF Fits, Round, Writes, Runs
  <2>8. Scoped(calls[s])' = Scoped(calls[s])
    BY <1>2, <2>1 DEF Scoped
  <2> QED BY <1>2, <2>1, <2>3, <2>4, <2>5, <2>6, <2>7, <2>8 DEF CallHeld, Rounding, Round, Writes, Parted
<1>9. CASE \E p \in {<<"collect", "list">>, <<"advance", "stateRead">>, <<"dirtyLocal", "dirtyState">>} :
             Row(s, p[1], p[2], calls[s].read, Scoped(calls[s]), calls[s].file)
  <2>1. /\ calls'[s].step \in {"list", "stateRead", "dirtyState"}
        /\ calls'[s].read = calls[s].read /\ calls'[s].repo = calls[s].repo
        /\ calls'[s].ignore = calls[s].ignore /\ calls'[s].local = Scoped(calls[s])
        /\ calls'[s].step \in {"list", "stateRead"} => Rounding(calls[s])
        /\ calls'[s].step = "stateRead" => calls[s].step = "advance"
    BY <1>9 DEF Row, Rounding, Round, Writes
  <2>2. Based(calls[s].read.snapshot)'
    BY <1>1, <1>2, <2>1 DEF Based, CallHeld
  <2>3. calls'[s].step \in {"list", "stateRead"} => backend # None /\ calls'[s].repo = backend
    BY <1>1, <2>1 DEF CallHeld
  <2>4. calls'[s].step = "stateRead" => Scoped(calls[s]) \in Parted(backend)
    BY <1>1, <2>1 DEF CallHeld
  <2>5. Scoped(calls[s])' = Scoped(calls[s])
    BY <1>2, <2>1 DEF Scoped
  <2>6. calls'[s].kind = "configure" => Settled(calls'[s])
    BY <1>1, <2>1 DEF Fits, Round, Writes, Runs, Settled, Checks
  <2> QED BY <1>2, <2>1, <2>2, <2>3, <2>4, <2>5, <2>6 DEF CallHeld, Rounding, Round, Writes, Parted, Settled, Checks, Looks
<1>10. CASE /\ calls[s].repo \in Repos
            /\ Row(s, "list", "base", calls[s].read, calls[s].local, InScope(s, remote[calls[s].repo]))
  <2>1. /\ calls[s].step = "list" /\ calls'[s].step = "base"
        /\ calls'[s].read = calls[s].read /\ calls'[s].repo = calls[s].repo
        /\ calls'[s].ignore = calls[s].ignore /\ calls'[s].local = calls[s].local
        /\ calls'[s].ignore => calls'[s].file = None
    BY <1>10 DEF Row, InScope
  <2>2. Based(calls[s].read.snapshot)'
    BY <1>1, <1>2, <2>1 DEF Based, CallHeld
  <2>3. backend # None /\ calls'[s].repo = backend /\ calls'[s].local = Scoped(calls[s])
    BY <1>1, <2>1 DEF CallHeld, Rounding, Round
  <2>4. Scoped(calls[s])' = Scoped(calls[s])
    BY <1>2, <2>1 DEF Scoped
  <2>5. calls'[s].kind # "configure"
    BY <1>1, <2>1 DEF Fits, Round, Runs
  <2> QED BY <1>2, <2>1, <2>2, <2>3, <2>4, <2>5 DEF CallHeld, Rounding, Round, Writes
<1>11. CASE /\ calls[s].step = "require" /\ backend # None
            /\ calls'[s].step \in {"scopeRead", "recall"} /\ calls'[s].repo = backend /\ calls'[s].read = calls[s].read
  <2>1. Based(calls[s].read.snapshot)'
    BY <1>1, <1>2, <1>11 DEF Based, CallHeld
  <2>2. calls'[s].kind # "configure"
    BY <1>1, <1>11 DEF Fits, Round, Runs
  <2> QED BY <1>2, <1>11, <2>1, <2>2 DEF CallHeld
<1>12. CASE /\ calls[s].step = "recall" /\ calls'[s].step = "scopeRead" /\ calls'[s].repo = calls[s].repo
            /\ calls'[s].read = calls[s].read
  <2>1. Based(calls[s].read.snapshot)'
    BY <1>1, <1>2, <1>12 DEF Based, CallHeld
  <2>2. backend # None /\ calls'[s].repo = backend
    BY <1>1, <1>12 DEF CallHeld, Rounding
  <2>3. calls'[s].kind # "configure"
    BY <1>1, <1>12 DEF Fits, Round, Runs
  <2> QED BY <1>2, <1>12, <2>1, <2>2, <2>3 DEF CallHeld
<1>13. CASE Decide(s) /\ Row(s, "base", "recheck", saved, calls[s].local, calls[s].file)
  <2>1. /\ calls[s].step = "base" /\ calls'[s].step = "recheck" /\ calls'[s].read = saved
        /\ calls'[s].repo = calls[s].repo
        /\ calls'[s].ignore = calls[s].ignore /\ calls'[s].local = calls[s].local
    BY <1>13 DEF Row
  <2>2. calls[s].kind \in Runs
    BY <1>1, <2>1 DEF Fits, Round
  <2>3. Based(calls[s].read.snapshot)'
    BY <1>2, <1>3, <2>1, <2>2 DEF Based, Runs
  <2>4. backend # None /\ calls'[s].repo = backend /\ calls'[s].local = Scoped(calls[s])
    BY <1>1, <2>1 DEF CallHeld, Rounding, Round
  <2>5. Scoped(calls[s])' = Scoped(calls[s])
    BY <1>2, <2>1 DEF Scoped
  <2> QED BY <1>1, <1>2, <2>1, <2>2, <2>3, <2>4, <2>5 DEF CallHeld, Runs
<1>14. ASSUME Decide(s), NEW after \in {"advance", "push", "pull"}, Plain(s, "base", after)
       PROVE  CallHeld(calls[s])'
  <2>1. /\ calls[s].step = "base" /\ calls'[s].step = after /\ calls'[s].read = calls[s].read
        /\ calls'[s].repo = calls[s].repo /\ calls'[s].ignore = calls[s].ignore
        /\ calls'[s].local = calls[s].local
    BY <1>14 DEF Plain, Row
  <2>2. calls[s].kind \in Runs
    BY <1>1, <2>1 DEF Fits, Round
  <2>3. Based(calls[s].read.snapshot)'
    BY <1>1, <1>2, <2>1 DEF Based, CallHeld
  <2>4. /\ backend # None /\ calls[s].repo = backend /\ calls[s].local = Scoped(calls[s])
        /\ calls[s].ignore => calls[s].file = None
    BY <1>1, <2>1 DEF CallHeld, Rounding, Round
  <2>5. Scoped(calls[s])' = Scoped(calls[s])
    BY <1>2, <2>1 DEF Scoped
  <2>6. LET plan == Plan(InScope(s, saved.snapshot), calls[s].local, calls[s].file)
        IN  after = IF plan = "nothing" THEN "advance" ELSE plan
    <3> DEFINE plan == Plan(InScope(s, saved.snapshot), calls[s].local, calls[s].file)
    <3>1. calls[s].kind = "run" /\ ~Afresh(s)
      <4>1. ~Afresh(s)
        BY <2>1 DEF Afresh
      <4>2. ~Answered(s)
        BY <4>1, AnsweredAfresh
      <4>3. calls'[s] # [On(s, "recheck") EXCEPT !.read = saved]
        <5>1. [On(s, "recheck") EXCEPT !.read = saved].step = "recheck"
          BY <1>1 DEF On, Call
        <5> QED BY <2>1, <5>1
      <4> QED BY <1>14, <4>1, <4>2, <4>3, DecideMoves
    <3>2. plan # "conflict"
      <4>1. SUFFICES ASSUME plan = "conflict" PROVE FALSE
        OBVIOUS
      <4>2. Settle(s, TRUE, TRUE)
        BY <1>14, <3>1, <4>1 DEF Decide
      <4>3. Answered(s)
        BY <1>1, <3>1, <4>2, SettleAnswers
      <4> QED BY <3>1, <4>3, AnsweredAfresh
    <3> DEFINE next == IF plan = "nothing" THEN "advance" ELSE plan
    <3>3. Goto(s, On(s, next))
      BY <1>14, <3>1, <3>2 DEF Decide
    <3>4. plan \in {"nothing", "push", "pull", "conflict"}
      BY DEF Plan
    <3> HIDE DEF plan
    <3>5. next \in Steps
      BY <3>2, <3>4 DEF Steps
    <3> HIDE DEF next
    <3>6. On(s, next).step = next
      BY <1>1, <3>5, OnTyped
    <3>7. calls'[s] = On(s, next)
      BY <3>3 DEF Goto, TInv, TypeOK
    <3>8. after = next
      BY <2>1, <3>6, <3>7
    <3> QED BY <3>8 DEF next, plan
  <2>7. after = "pull" => ~calls[s].ignore /\ calls[s].local = saved.snapshot
    BY <2>4, <2>6 DEF Plan, InScope
  <2>8. after = "advance" => Scoped(calls[s]) \in Parted(backend)
    <3>1. SUFFICES ASSUME after = "advance" PROVE Scoped(calls[s]) \in Parted(backend)
      OBVIOUS
    <3>2. calls[s].local = calls[s].file
      BY <2>6, <3>1 DEF Plan
    <3>3. calls[s].file # None => calls[s].file \in held[backend]
      BY <1>1, <2>4 DEF FilesHeld
    <3> QED BY <2>4, <3>2, <3>3 DEF Parted
  <2> QED BY <1>1, <1>2, <2>1, <2>2, <2>3, <2>4, <2>5, <2>7, <2>8 DEF CallHeld, Runs, Parted
<1>15. CASE /\ calls[s].step = "statusBackend" /\ calls'[s].step = "statusState"
            /\ calls'[s].kind = calls[s].kind /\ calls'[s].again = calls[s].again
            /\ calls'[s].read = calls[s].read /\ (calls'[s].mine <=> backend # None)
  <2>1. Based(calls[s].read.snapshot)'
    BY <1>1, <1>2, <1>15 DEF Based, CallHeld
  <2>2. calls'[s].kind = "configure" /\ ~Settled(calls'[s]) => backend = None
    BY <1>1, <1>15 DEF CallHeld, Settled, Checks, Looks
  <2> QED BY <1>2, <1>15, <2>1, <2>2 DEF CallHeld, Rounding, Round, Writes, Settled, Checks, Looks
<1>16. CASE statusState(s) /\ /\ calls[s].again \in {"open", "require"} /\ calls'[s].step = calls[s].again
                              /\ calls'[s].kind = calls[s].kind /\ calls'[s].read = calls[s].read
  <2>1. calls[s].step = "statusState"
    BY <1>16, statusStateMoves
  <2>2. Based(calls[s].read.snapshot)'
    BY <1>1, <1>2, <1>16 DEF Based, CallHeld
  <2>3. calls'[s].kind = "configure" => backend = None
    BY <1>1, <1>16, <2>1 DEF CallHeld, Settled, Checks, Looks
  <2> QED BY <1>2, <1>16, <2>2, <2>3 DEF CallHeld, Rounding, Round, Writes
<1> QED BY <1>4, <1>5, <1>6, <1>7, <1>8, <1>9, <1>10, <1>11, <1>12, <1>13, <1>14, <1>15, <1>16 DEF Standing

\* A base stays one that its repository has held.
LEMMA BasedStays ==
    ASSUME TInv, NEW v, Based(v), backend' = backend, \A q \in Repos : held[q] \subseteq held'[q]
    PROVE  v # None => backend' # None /\ v \in held'[backend']
<1>1. backend # None => backend \in Repos
  BY DEF TInv, TypeOK
<1> QED BY <1>1 DEF Based

LEMMA ChangingHeld ==
    ASSUME HInv, manner = "calm", NEW s \in Slots, Answer(s), Changing(s)
    PROVE  CallHeld(calls[s])' /\ (Based(saved.snapshot) \/ Forgets)'
<1> USE DEF HInv
<1>1. /\ calls[s] \in Call /\ calls[s] # None /\ Fits(calls[s]) /\ CallHeld(calls[s])
      /\ calls[s].read \in State
      /\ Moves(s) /\ \A t \in Slots : t # s => calls'[t] = calls[t]
  BY AnswersSorted, NoneIsNoCall DEF Moves, TInv, CallsFit, CallsHeld, Call
<1>2. calls[s].kind \in {"run", "resolve", "configure"} => Based(saved.snapshot)
  BY <1>1, BaseKnown
<1>3. \A q \in Repos : held[q] \subseteq held'[q]
  BY HeldGrows
<1>4. backend # None => backend \in Repos
  BY DEF TInv, TypeOK
<1>5. Based(calls[s].read.snapshot)
  BY <1>1 DEF CallHeld
<1>6. ASSUME Rounding(calls[s]), NEW before, NEW after, Plain(s, before, after), backend' = backend,
             after \in {"collect", "advance", "errorRead", "pin", "clearRead"},
             after = "pin" => (IF calls[s].mine THEN calls[s].local ELSE calls[s].file) \in held'[backend] \cup {None},
             after \in {"pin", "advance"} => (IF calls[s].ignore THEN None ELSE local') \in held'[backend] \cup {None}
      PROVE  CallHeld(calls[s])'
  <2>1. /\ calls'[s].step = after /\ calls'[s].kind = calls[s].kind /\ calls'[s].repo = calls[s].repo
        /\ calls'[s].ignore = calls[s].ignore /\ calls'[s].mine = calls[s].mine
        /\ calls'[s].read = calls[s].read /\ calls'[s].local = calls[s].local /\ calls'[s].file = calls[s].file
    BY <1>6 DEF Plain, Row
  <2>2. backend # None /\ calls[s].repo = backend /\ calls[s].kind # "configure"
    BY <1>1, <1>6 DEF CallHeld, Rounding, Fits, Round, Writes, Runs
  <2>3. Based(calls[s].read.snapshot)'
    BY <1>3, <1>5, <1>6, <2>1, BasedStays DEF Based
  <2>4. (Scoped(calls[s]))' = IF calls[s].ignore THEN None ELSE local'
    BY <2>1 DEF Scoped
  <2>5. (Parted(backend))' = held'[backend] \cup {None}
    BY <1>6 DEF Parted
  <2> QED BY <1>6, <2>1, <2>2, <2>3, <2>4, <2>5 DEF CallHeld
<1>7. ASSUME backend' = backend, saved' = saved, calls[s].kind \in {"run", "resolve", "configure"}
      PROVE  (Based(saved.snapshot) \/ Forgets)'
  BY <1>2, <1>3, <1>7, BasedStays DEF Based
<1>8. ASSUME backend' = backend, saved'.snapshot = calls[s].read.snapshot
      PROVE  (Based(saved.snapshot) \/ Forgets)'
  BY <1>3, <1>5, <1>8, BasedStays DEF Based
<1>9. ASSUME backend' = backend, held' = held, Rounding(calls[s]), saved'.snapshot \in Parted(backend)
      PROVE  (Based(saved.snapshot) \/ Forgets)'
  BY <1>1, <1>9 DEF Based, Parted, CallHeld
<1>10. calls[s].step \in {"push", "pull", "answer"} =>
          /\ backend # None /\ backend \in Repos /\ calls[s].repo = backend /\ Rounding(calls[s])
          /\ calls[s].local = IF calls[s].ignore THEN None ELSE local
          /\ calls[s].kind \in {"run", "resolve"}
  BY <1>1, <1>4 DEF CallHeld, Rounding, Scoped, Fits
<1>11. ASSUME NEW next, Sends(s, next), calls[s].step \in {"push", "answer"}
       PROVE  /\ backend' = backend /\ saved' = saved /\ local' = local
              /\ calls[s].local \in held'[backend] \cup {None}
              /\ (IF calls[s].ignore THEN None ELSE local') \in held'[backend] \cup {None}
  <2>1. calls[s].local \in held'[backend] \cup {None}
    BY <1>10, <1>11, HeldAdded DEF Sends
  <2> QED BY <1>10, <1>11, <2>1 DEF Sends
<1>12. CASE Register(s)
  <2>1. Afresh(s) /\ calls[s].step = "register"
    BY <1>12, RegisterMoves, AnsweredAfresh
  <2>2. calls[s].kind = "configure" /\ ~Settled(calls[s])
    BY <1>1, <2>1 DEF Fits, Settled, Checks, Looks
  <2>3. backend = None
    BY <1>1, <2>1, <2>2 DEF CallHeld
  <2>4. saved'.snapshot = None
    BY <1>2, <1>12, <2>2, <2>3 DEF Based, Register
  <2> QED BY <2>1, <2>4, AfreshHeld DEF Based
<1>13. CASE Forget(s)
  BY <1>13, ForgetMoves, AnsweredAfresh, AfreshHeld DEF Forget, NoState, Based
<1>14. CASE StorePreference(s)
  <2>1. Afresh(s) /\ calls[s].step = "store"
    BY <1>14, StorePreferenceMoves, NewAfresh
  <2>2. backend' = backend /\ saved' = saved /\ held' = held
    BY <1>14 DEF StorePreference
  <2>3. Forgets => Forgets'
    BY <1>1, <2>1 DEF Forgets
  <2> QED BY <2>1, <2>2, <2>3, AfreshHeld DEF BaseHeld, Based
<1>15. CASE rememberScope(s)
  <2>1. calls[s].step = "scopeWrite" /\ calls'[s] = On(s, "collect") /\ backend' = backend
        /\ saved' = [calls[s].read EXCEPT !.scope = calls[s].ignore]
    BY <1>15, rememberScopeMoves DEF rememberScope, WriteState, At
  <2>2. Plain(s, "scopeWrite", "collect") /\ saved'.snapshot = calls[s].read.snapshot /\ Rounding(calls[s])
    BY <1>1, <2>1, PlainRow DEF Steps, State, Rounding, Round
  <2> QED BY <1>6, <1>8, <2>1, <2>2
<1>16. CASE Push(s)
  <2>1. calls[s].step = "push" /\ calls'[s] = On(s, "advance") /\ Sends(s, "advance")
    BY <1>16, PushMoves DEF Push, At
  <2>2. Plain(s, "push", "advance")
    BY <1>1, <2>1, PlainRow DEF Steps
  <2> QED BY <1>6, <1>7, <1>10, <1>11, <2>1, <2>2
<1>17. CASE PushUnanswered(s)
  <2>1. calls[s].step = "push" /\ calls'[s] = On(s, "errorRead") /\ Sends(s, "errorRead")
    BY <1>17, PushUnansweredMoves DEF PushUnanswered, At
  <2>2. Plain(s, "push", "errorRead")
    BY <1>1, <2>1, PlainRow DEF Steps
  <2> QED BY <1>6, <1>7, <1>10, <1>11, <2>1, <2>2
<1>18. ASSUME NEW next, Takes(s, next), calls[s].step \in {"pull", "answer"}
       PROVE  /\ backend' = backend /\ saved' = saved /\ held' = held /\ local' = calls[s].file
              /\ calls[s].file \in held'[backend] \cup {None}
              /\ (IF calls[s].ignore THEN None ELSE local') \in held'[backend] \cup {None}
  <2>1. calls[s].file \in held[backend] \cup {None}
    BY <1>1, <1>10, <1>18 DEF FilesHeld
  <2> QED BY <1>18, <2>1 DEF Takes
<1>19. CASE Pull(s)
  <2>1. calls[s].step = "pull" /\ calls'[s] = On(s, "advance") /\ Takes(s, "advance")
    BY <1>19, PullMoves DEF Pull, At
  <2>2. Plain(s, "pull", "advance")
    BY <1>1, <2>1, PlainRow DEF Steps
  <2> QED BY <1>6, <1>7, <1>10, <1>18, <2>1, <2>2
<1>20. CASE AnswerMine(s) /\ Sends(s, "pin")
  <2>1. calls[s].step = "answer" /\ calls[s].mine
    BY <1>20 DEF AnswerMine, At
  <2>2. calls'[s] = On(s, "pin")
    BY <1>20 DEF Sends, Goto, TInv, TypeOK
  <2>3. Plain(s, "answer", "pin")
    BY <1>1, <2>1, <2>2, PlainRow DEF Steps
  <2> QED BY <1>6, <1>7, <1>10, <1>11, <1>20, <2>1, <2>3
<1>21. CASE AnswerTheirs(s)
  <2>1. calls[s].step = "answer" /\ ~calls[s].mine /\ calls'[s] = On(s, "pin")
    BY <1>21, AnswerTheirsMoves
  <2>2. Plain(s, "answer", "pin")
    BY <1>1, <2>1, PlainRow DEF Steps
  <2>3. CASE calls[s].file # None
    <3>1. Takes(s, "pin")
      BY <1>21, <2>3 DEF AnswerTheirs
    <3> QED BY <1>6, <1>7, <1>10, <1>18, <2>1, <2>2, <3>1
  <2>4. CASE calls[s].file = None
    <3>1. /\ held' = [held EXCEPT ![calls[s].repo] = @ \cup ({calls[s].local} \ {None})]
          /\ local' = local /\ backend' = backend /\ saved' = saved
      BY <1>21, <2>4 DEF AnswerTheirs
    <3>2. calls[s].local \in held'[backend] \cup {None}
      BY <1>10, <2>1, <3>1, HeldAdded
    <3>3. (IF calls[s].ignore THEN None ELSE local') \in held'[backend] \cup {None}
      BY <1>10, <2>1, <3>1, <3>2
    <3>4. (IF calls[s].mine THEN calls[s].local ELSE calls[s].file) \in held'[backend] \cup {None}
      BY <2>1, <2>4
    <3> QED BY <1>6, <1>7, <1>10, <2>1, <2>2, <3>1, <3>3, <3>4
  <2> QED BY <2>3, <2>4
<1>22. CASE writeSnapshotEntry(s)
  <2>1. /\ calls[s].step = "pin" /\ calls'[s] = On(s, "advance") /\ backend' = backend /\ held' = held
        /\ local' = local
        /\ saved' = [calls[s].read EXCEPT !.snapshot = IF calls[s].mine THEN calls[s].local ELSE calls[s].file]
    BY <1>22, writeSnapshotEntryMoves DEF writeSnapshotEntry, WriteState, At
  <2>2. Plain(s, "pin", "advance")
    BY <1>1, <2>1, PlainRow DEF Steps
  <2>3. saved'.snapshot = IF calls[s].mine THEN calls[s].local ELSE calls[s].file
    BY <1>1, <2>1 DEF State
  <2>4. Rounding(calls[s])
    BY <2>1 DEF Rounding
  <2>5. /\ (IF calls[s].mine THEN calls[s].local ELSE calls[s].file) \in Parted(backend)
        /\ Scoped(calls[s]) \in Parted(backend)
    BY <1>1, <2>1 DEF CallHeld
  <2>6. (IF calls[s].ignore THEN None ELSE local') \in held'[backend] \cup {None}
    BY <2>1, <2>5 DEF Scoped, Parted
  <2> QED BY <1>6, <1>9, <2>1, <2>2, <2>3, <2>4, <2>5, <2>6
<1>23. CASE advanceSnapshot(s)
  <2>1. /\ calls[s].step = "stateWrite" /\ calls'[s] = On(s, "clearRead") /\ backend' = backend /\ held' = held
        /\ saved' = [calls[s].read EXCEPT !.snapshot = calls[s].local, !.synced = TRUE]
    BY <1>23, advanceSnapshotMoves DEF advanceSnapshot, WriteState, At
  <2>2. Plain(s, "stateWrite", "clearRead")
    BY <1>1, <2>1, PlainRow DEF Steps
  <2>3. saved'.snapshot = calls[s].local /\ Rounding(calls[s])
    BY <1>1, <2>1 DEF State, Rounding, Round, Writes
  <2>4. calls[s].local \in Parted(backend)
    BY <1>1, <2>1 DEF CallHeld
  <2> QED BY <1>6, <1>9, <2>1, <2>2, <2>3, <2>4
<1>24. CASE clearError(s)
  <2>1. Afresh(s) /\ backend' = backend /\ saved' = [calls[s].read EXCEPT !.error = FALSE]
    BY <1>24, clearErrorMoves, AnsweredAfresh DEF clearError, WriteState
  <2>2. saved'.snapshot = calls[s].read.snapshot
    BY <1>1, <2>1 DEF State
  <2> QED BY <1>8, <2>1, <2>2, AfreshHeld
<1>25. CASE recordError(s)
  <2>1. Afresh(s) /\ backend' = backend /\ saved' = [calls[s].read EXCEPT !.error = TRUE]
    BY <1>25, recordErrorMoves, AnsweredAfresh DEF recordError, WriteState
  <2>2. saved'.snapshot = calls[s].read.snapshot
    BY <1>1, <2>1 DEF State
  <2> QED BY <1>8, <2>1, <2>2, AfreshHeld
<1> QED BY <1>12, <1>13, <1>14, <1>15, <1>16, <1>17, <1>19, <1>20, <1>21, <1>22, <1>23, <1>24, <1>25 DEF Changing

\* The first rendering and the check of a save change nothing that is stored.
LEMMA ChangingKind ==
    ASSUME TInv, NEW s \in Slots, Changing(s)
    PROVE  calls[s].kind \notin {"load", "edit"}
<1>1. calls[s] # None /\ calls[s].step \in {"register", "forget", "store", "scopeWrite", "push", "pull", "answer",
                                            "pin", "stateWrite", "clearWrite", "errorWrite"}
  BY DEF Changing, Register, Forget, StorePreference, rememberScope, Push, PushUnanswered, Pull, AnswerMine,
         AnswerTheirs, writeSnapshotEntry, advanceSnapshot, clearError, recordError, WriteState, At
<1>2. Fits(calls[s])
  BY <1>1 DEF TInv, CallsFit
<1> QED BY <1>1, <1>2 DEF Fits, Round, Writes, Runs

LEMMA CallsAnswered ==
    ASSUME HInv, NEW s \in Slots, Answer(s)
    PROVE  CallsHeld'
<1> USE DEF HInv
<1>1. /\ Moves(s) /\ calls[s] # None /\ manner' = manner /\ \A t \in Slots : t # s => calls'[t] = calls[t]
  BY AnswersSorted, NoneIsNoCall DEF Moves, user
<1>2. SUFFICES ASSUME manner = "calm", NEW t \in Slots, calls'[t] # None
               PROVE  CallHeld(calls[t])'
  BY <1>1 DEF CallsHeld
<1>3. CASE t = s
  BY <1>2, <1>3, AnswersStand, StandingHeld, ChangingHeld
<1>4. CASE t # s
  <2>1. calls'[t] = calls[t] /\ calls[t] # None /\ CallHeld(calls[t])
    BY <1>1, <1>2, <1>4 DEF CallsHeld
  <2>2. calls[s].kind \in {"load", "edit"}
    BY <1>1, <1>2, <1>4, <2>1 DEF OneAtATime, Under
  <2>3. local' = local /\ backend' = backend /\ saved' = saved /\ held' = held
    BY <2>2, AnswersStand, ChangingKind DEF Standing, stores
  <2>4. (Based(calls[t].read.snapshot))' = Based(calls[t].read.snapshot)
    BY <2>1, <2>3 DEF Based
  <2>5. (Scoped(calls[t]))' = Scoped(calls[t]) /\ (Parted(backend))' = Parted(backend)
    BY <2>1, <2>3 DEF Scoped, Parted
  <2>6. (Rounding(calls[t]))' = Rounding(calls[t]) /\ (Settled(calls[t]))' = Settled(calls[t])
    BY <2>1 DEF Rounding, Round, Writes, Settled, Checks, Looks
  <2> QED BY <2>1, <2>3, <2>4, <2>5, <2>6 DEF CallHeld
<1> QED BY <1>3, <1>4

LEMMA BaseAnswered ==
    ASSUME HInv, NEW s \in Slots, Answer(s)
    PROVE  BaseHeld'
<1> USE DEF HInv
<1>1. /\ Moves(s) /\ calls[s] # None /\ manner' = manner /\ \A t \in Slots : t # s => calls'[t] = calls[t]
  BY AnswersSorted, NoneIsNoCall DEF Moves, user
<1>2. SUFFICES ASSUME manner = "calm" PROVE (Based(saved.snapshot) \/ Forgets)'
  BY <1>1 DEF BaseHeld
<1>3. CASE Changing(s)
  BY <1>2, <1>3, ChangingHeld
<1>4. CASE ~Changing(s)
  <2>1. backend' = backend /\ saved' = saved /\ held' = held
    BY <1>4, AnswersStand DEF Standing, stores
  <2>2. CASE Based(saved.snapshot)
    BY <2>1, <2>2 DEF Based
  <2>3. CASE Forgets
    <3>1. PICK t \in Slots : calls[t] # None /\ calls[t].step = "forget"
      BY <2>3 DEF Forgets
    <3>2. t # s
      BY <1>2, <1>4, <3>1, AnswerAt DEF ForgetFails, Changing
    <3> QED BY <1>1, <3>1, <3>2 DEF Forgets
  <2> QED BY <1>2, <2>2, <2>3 DEF BaseHeld
<1> QED BY <1>3, <1>4

LEMMA ConnectionAnswered ==
    ASSUME HInv, NEW s \in Slots, Answer(s)
    PROVE  StatusTold'
<1> USE DEF HInv
<1>1. /\ Moves(s) /\ Sorted(s) /\ calls[s] # None /\ manner' = manner
  BY AnswersSorted, NoneIsNoCall DEF Moves, user
<1>2. SUFFICES ASSUME manner = "calm"
               PROVE  ((status # None /\ (status.configured <=> backend # None)) \/ \E w \in Slots : Under(w, NotEdit))'
  BY <1>1 DEF StatusTold
<1>3. CASE statusState(s)
  <2>1. calls[s].step = "statusState" /\ backend' = backend
    BY <1>3, statusStateMoves, StatusRead DEF stores
  <2>2. calls[s].mine <=> backend # None
    BY <1>1, <1>2, <2>1 DEF CallsHeld, CallHeld
  <2>3. status' # None /\ status'.configured = calls[s].mine
    BY <1>3, StatusRead
  <2> QED BY <2>1, <2>2, <2>3
<1>4. CASE ~statusState(s) /\ backend' = backend
  <2>1. status' = None <=> status = None
    BY <1>1, <1>4, NoneIsNothing DEF Sorted, Quiet, Answered, Queues, StartDirty, Flush, Checked, page
  <2>2. status # None => status'.configured = status.configured
    BY <1>1, <1>4 DEF Sorted, Quiet, Answered, Queues, StartDirty, Flush, Checked, page
  <2>3. CASE status # None /\ (status.configured <=> backend # None)
    BY <1>4, <2>1, <2>2, <2>3
  <2>4. CASE \E w \in Slots : Under(w, NotEdit)
    BY <1>1, <1>4, <2>4, UnderLasts DEF NotEdit
  <2> QED BY <1>2, <2>3, <2>4 DEF StatusTold
<1>5. CASE backend' # backend
  <2>1. calls[s].kind = "configure" /\ calls[s].step = "register"
    BY <1>5, BackendTold
  <2>2. calls'[s] # None
    BY <1>1, <2>1, GoesOn, statusStateMoves
  <2>3. calls'[s].kind \in NotEdit
    BY <1>1, <2>1, <2>2 DEF Moves, NotEdit, Kinds
  <2> QED BY <2>2, <2>3 DEF Under
<1> QED BY <1>3, <1>4, <1>5

\* What a calm user clicks begins an operation when none is under way.
LEMMA HeldClicked ==
    ASSUME HInv, NEW s \in Slots, Click(s)
    PROVE  RemotesHeld' /\ FilesHeld' /\ StatusTold' /\ BaseHeld' /\ CallsHeld'
<1> USE DEF HInv
<1>1. UserMay
  BY DEF Click, Edit, configureBackend, removeBackend, savePreference, resolveConflict,
         beginNow, sendMessage, later
<1>2. manner' = manner /\ (manner = "calm" => \A t \in Slots : calls[t] = None)
  BY <1>1 DEF UserMay, Acts, Idle
<1>3. remote' = remote /\ held' = held /\ saved' = saved /\ status' = status
  BY DEF Click, Edit, configureBackend, removeBackend, savePreference, resolveConflict,
         beginNow, sendMessage, later, stores, page
<1>4. RemotesHeld'
  BY <1>3 DEF RemotesHeld, Parted
<1>5. /\ \A t \in Slots : t # s => calls'[t] = calls[t]
      /\ calls'[s] = calls[s] \/ (calls'[s] # None /\ calls'[s].file = None)
  BY ClickBegins DEF Begins
<1>6. FilesHeld'
  BY <1>3, <1>5 DEF FilesHeld, AfterList, Writes
<1>7. SUFFICES ASSUME manner = "calm" PROVE StatusTold' /\ BaseHeld' /\ CallsHeld'
  BY <1>2, <1>4, <1>6 DEF StatusTold, BaseHeld, CallsHeld
<1>8. \A t \in Slots : calls[t] = None /\ (t # s => calls'[t] = None)
  BY <1>2, <1>5, <1>7
<1>9. status # None /\ (status.configured <=> backend # None)
  BY <1>7, <1>8 DEF StatusTold, Under
<1>10. Based(saved.snapshot)
  BY <1>7, <1>8 DEF BaseHeld, Forgets
<1>11. CASE removeBackend(s)
  <2>1. Begins(s, "remove", "forget")
    BY <1>1, <1>11, PlainBegins DEF removeBackend
  <2>2. StatusTold'
    BY <2>1 DEF StatusTold, Begins, Under, NotEdit, Kinds
  <2>3. BaseHeld'
    BY <2>1 DEF BaseHeld, Begins, Forgets
  <2>4. CallHeld(calls[s])'
    BY <2>1 DEF Begins, CallHeld, Based, NoState, Rounding, Round, Writes
  <2> QED BY <1>8, <2>2, <2>3, <2>4 DEF CallsHeld
<1>12. CASE backend' = backend
  <2>1. StatusTold' /\ BaseHeld'
    BY <1>3, <1>9, <1>10, <1>12 DEF StatusTold, BaseHeld, Based
  <2>2. ASSUME NEW kind, NEW step \in {"wait", "statusBackend", "store", "require", "flush"},
               Begins(s, kind, step), kind = "configure" => backend = None
        PROVE  CallHeld(calls[s])'
    BY <1>12, <2>2 DEF Begins, CallHeld, Based, NoState, Rounding, Round, Writes
  <2>3. (\E r \in Repos : configureBackend(s, r)) => backend = None
    BY <1>9 DEF configureBackend, Configured
  <2>4. calls'[s] # None => CallHeld(calls[s])'
    <3>1. ~removeBackend(s) \/ ~Begins(s, "remove", "forget") \/ backend' = None
      BY DEF removeBackend
    <3>2. CASE removeBackend(s)
      BY <1>1, <3>2, PlainBegins DEF removeBackend, Begins, CallHeld, Based, NoState, Rounding, Round, Writes
    <3> QED BY <1>8, <2>2, <2>3, <3>2, ClickBegins
  <2> QED BY <1>8, <2>1, <2>4 DEF CallsHeld
<1>13. removeBackend(s) \/ backend' = backend
  BY DEF Click, Edit, configureBackend, savePreference, resolveConflict, beginNow, sendMessage, later, stores
<1> QED BY <1>11, <1>12, <1>13

LEMMA HeldForeign ==
    ASSUME HInv, NEW r \in Repos, NEW v \in Doc, Foreign(r, v)
    PROVE  /\ OneAtATime' /\ NoRemoval'
           /\ RemotesHeld' /\ FilesHeld' /\ StatusTold' /\ BaseHeld' /\ CallsHeld'
<1> USE DEF HInv
<1>1. /\ manner' = manner /\ calls' = calls /\ status' = status
      /\ local' = local /\ backend' = backend /\ saved' = saved
  BY DEF Foreign, Acts, page
<1>2. (\A q \in Repos : held[q] \subseteq held'[q]) /\ v \in held'[r] \cup {None}
  BY HeldAdded DEF Foreign
<1>3. \A q \in Repos : remote'[q] = IF q = r THEN v ELSE remote[q]
  BY DEF Foreign, TInv, TypeOK
<1>4. RemotesHeld'
  BY <1>2, <1>3 DEF RemotesHeld, Parted
<1>5. FilesHeld'
  BY <1>1, <1>2 DEF FilesHeld, AfterList, Writes
<1>6. OneAtATime' /\ NoRemoval' /\ StatusTold'
  BY <1>1 DEF OneAtATime, NoRemoval, StatusTold, Under, NotEdit, Kinds
<1>7. BaseHeld'
  <2>1. Based(saved.snapshot) => (Based(saved.snapshot))'
    BY <1>1, <1>2, BasedStays DEF Based
  <2>2. Forgets => Forgets'
    BY <1>1 DEF Forgets
  <2> QED BY <1>1, <2>1, <2>2 DEF BaseHeld
<1>8. CallsHeld'
  <2>1. SUFFICES ASSUME manner = "calm", NEW t \in Slots, calls[t] # None
                 PROVE  CallHeld(calls[t])'
    BY <1>1 DEF CallsHeld
  <2>2. CallHeld(calls[t]) /\ calls'[t] = calls[t]
    BY <1>1, <2>1 DEF CallsHeld
  <2>3. Based(calls[t].read.snapshot) => (Based(calls[t].read.snapshot))'
    BY <1>1, <1>2, <2>2, BasedStays DEF Based
  <2>4. (Scoped(calls[t]))' = Scoped(calls[t])
    BY <1>1 DEF Scoped
  <2>5. backend # None => Parted(backend) \subseteq (Parted(backend))'
    BY <1>1, <1>2 DEF Parted, TInv, TypeOK
  <2>6. (Rounding(calls[t]))' = Rounding(calls[t]) /\ (Settled(calls[t]))' = Settled(calls[t])
    BY <1>1 DEF Rounding, Round, Writes, Settled, Checks, Looks
  <2>7. calls[t].step \in {"pin", "advance", "stateRead", "stateWrite"} => backend # None
    BY <2>2 DEF CallHeld, Rounding, Round, Writes
  <2> QED BY <1>1, <2>2, <2>3, <2>4, <2>5, <2>6, <2>7 DEF CallHeld
<1> QED BY <1>4, <1>5, <1>6, <1>7, <1>8

LEMMA HeldKept ==
    ASSUME HInv, [Next]_vars
    PROVE  HInv'
<1>1. TInv'
  BY TypesKept DEF HInv
<1>2. ASSUME NEW s \in Slots, Answer(s) PROVE HInv'
  BY <1>1, <1>2, OneKept, RemotesAnswered, FilesAnswered, ConnectionAnswered, BaseAnswered, CallsAnswered DEF HInv
<1>3. ASSUME NEW s \in Slots, Click(s) PROVE HInv'
  BY <1>1, <1>3, OneKept, HeldClicked DEF HInv
<1>4. ASSUME NEW r \in Repos, NEW v \in Doc, Foreign(r, v) PROVE HInv'
  BY <1>1, <1>4, HeldForeign DEF HInv
<1>5. ASSUME UNCHANGED <<calls, manner, local, remote, backend, saved, held, status>> PROVE HInv'
  <2>1. OneAtATime' /\ NoRemoval' /\ StatusTold' /\ RemotesHeld'
    BY <1>5 DEF HInv, OneAtATime, NoRemoval, StatusTold, RemotesHeld, Parted, Under, NotEdit, Kinds
  <2>2. FilesHeld' /\ BaseHeld'
    BY <1>5 DEF HInv, FilesHeld, AfterList, Writes, BaseHeld, Based, Forgets
  <2>3. CallsHeld'
    BY <1>5 DEF HInv, CallsHeld, CallHeld, Based, Scoped, Parted, Rounding, Round, Writes, Settled, Checks, Looks
  <2> QED BY <1>1, <2>1, <2>2, <2>3 DEF HInv
<1>6. CASE dismissMessage \/ UNCHANGED vars
  BY <1>5, <1>6 DEF dismissMessage, UserMay, Acts, vars, user, stores, page
<1> QED BY <1>2, <1>3, <1>4, <1>6 DEF Next

LEMMA HeldAtFirst ==
    ASSUME Init
    PROVE  HInv
<1>1. TInv
  BY TypesAtFirst
<1>2. PICK s \in Slots, t \in Slots :
              /\ s # t /\ turns = <<t>> /\ calls \in [Slots -> Call \cup {None}]
              /\ calls[s] = NewCall("load", "statusBackend") /\ calls[t] = NewCall("edit", "wait")
              /\ \A q \in Slots : q # s /\ q # t => calls[q] = None
  BY InitCalls
<1>3. OneAtATime /\ NoRemoval
  BY <1>2, LoadCalls DEF OneAtATime, NoRemoval, Under
<1>4. FilesHeld
  BY <1>2, LoadCalls DEF FilesHeld
<1>5. StatusTold
  <2>1. Under(s, NotEdit)
    BY <1>2, LoadCalls, NoneIsNoCall DEF Under, NotEdit, Kinds
  <2> QED BY <2>1 DEF StatusTold
<1>6. CallsHeld
  <2>1. \A q \in Slots : calls[q] # None =>
           /\ calls[q].read = NoState /\ calls[q].step \in {"statusBackend", "wait"}
           /\ calls[q].kind \in {"load", "edit"}
    BY <1>2, LoadCalls
  <2> QED BY <2>1 DEF CallsHeld, CallHeld, Based, NoState, Rounding, Round, Writes
<1>7. RemotesHeld /\ BaseHeld
  <2>1. CASE backend = None /\ saved = NoState /\ held = [r \in Repos |-> {remote[r]} \ {None}]
    BY <2>1 DEF RemotesHeld, Parted, BaseHeld, Based, NoState
  <2>2. ASSUME NEW base \in Doc, backend \in Repos,
               saved = [NoState EXCEPT !.snapshot = base, !.scope = FALSE, !.synced = TRUE],
               held = [r \in Repos |-> ({remote[r]} \cup (IF r = backend THEN {base} ELSE {})) \ {None}]
        PROVE  RemotesHeld /\ BaseHeld
    <3>1. saved.snapshot = base
      BY <2>2 DEF NoState
    <3>2. base # None => base \in held[backend]
      BY <2>2
    <3>3. RemotesHeld
      BY <2>2 DEF RemotesHeld, Parted
    <3> QED BY <2>2, <3>1, <3>2, <3>3, NoneElsewhere DEF BaseHeld, Based
  <2> QED BY <2>1, <2>2 DEF Init
<1> QED BY <1>1, <1>3, <1>4, <1>5, <1>6, <1>7 DEF HInv

LEMMA HeldInvariant == Spec => []HInv
<1>1. Init => HInv
  BY HeldAtFirst
<1>2. HInv /\ [Next]_vars => HInv'
  BY HeldKept
<1> QED BY <1>1, <1>2, PTL DEF Spec

LEMMA RunTakesHeld ==
    ASSUME HInv, Next, manner = "calm", acts' = acts, ~Answering, local # None, local' # local
    PROVE  backend # None /\ local \in held[backend]
<1>1. acts' # acts + 1
  <2>1. acts \in Nat
    BY ControllerBounds DEF HInv, TInv, TypeOK
  <2> QED BY <2>1
<1>2. PICK s \in Slots : Answer(s)
  BY <1>1 DEF Next, dismissMessage, Foreign, Click, Edit, configureBackend, removeBackend, savePreference,
              resolveConflict, beginNow, sendMessage, later, UserMay, Acts
<1>3. Pull(s) \/ AnswerTheirs(s)
  BY <1>2 DEF Answer, Opens, Register, Forget, ForgetFails, StorePreference, Flush, requireBackend,
       readScopeForResolve, ReadState, rememberScope, collectLocal, List, Decide, Push, PushUnanswered,
       AnswerMine, writeSnapshotEntry, advanceSnapshot, clearError, recordError, Sends,
       NetworkFails, onSettled, StartDirty, hasPendingChanges, statusBackend, statusState, WriteState,
       Dirty, stores
<1>4. calls[s] # None /\ Fits(calls[s]) /\ CallHeld(calls[s]) /\ calls[s].kind # "resolve"
  BY <1>2, AnswersSorted, NoneIsNoCall DEF Moves, HInv, TInv, CallsFit, CallsHeld, Answering
<1>5. calls[s].step = "pull"
  BY <1>3, <1>4 DEF Pull, AnswerTheirs, At, Fits
<1>6. calls[s].local = local /\ local = saved.snapshot
  BY <1>4, <1>5 DEF CallHeld, Scoped
<1>7. Based(saved.snapshot)
  BY <1>4, <1>5, BaseKnown DEF Fits
<1> QED BY <1>6, <1>7 DEF Based

\* A run of a calm user takes a version of the document from this device only when the
\* repository it is connected to has held that version, or the user has accepted its
\* deletion there, also after the repository was changed for another and whatever other
\* devices did there (sync-engine.js plans it, sync-round.js applies it).
THEOREM RunsAreSafe == Spec => RunsLoseNothing
<1>1. HInv /\ [Next]_vars =>
        [manner = "calm" /\ acts' = acts /\ ~Answering /\ local # None /\ local' # local
           => backend # None /\ local \in held[backend]]_vars
  BY RunTakesHeld
<1> QED BY <1>1, HeldInvariant, PTL DEF Spec, RunsLoseNothing
=============================================================================
