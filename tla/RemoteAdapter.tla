---------------------------- MODULE RemoteAdapter ----------------------------
(***************************************************************************)
(* The two backends of the sync: the Contents API of GitHub and the Files  *)
(* API of GitLab.  The round awaits one call at a time; a call is one HTTP *)
(* request after another.  A request reaches the server at some moment or  *)
(* never; its answer may be lost, and after 30 seconds the adapter gives   *)
(* up, while the request may still arrive.  Other devices write meanwhile. *)
(*                                                                         *)
(* The revision of a file is the hash of its content, so it is the content *)
(* here; GitLab's lock is the file's last commit, a number.  The checks of *)
(* the parameters, the encoding and the wording of errors are left out.    *)
(***************************************************************************)
EXTENDS Naturals, FiniteSets

CONSTANTS
    Paths,          \* numbers, in the order in which GitLab lists them
    DirOf,          \* path -> its directory, or None at the top
    Texts, None, Unseen,
    PageSize,       \* entries of a page of GitLab's listing
    MaxCalls,       \* bound: calls of the round
    MaxCommits      \* bound: commits of all devices, goings and comings

ASSUME PathsOrdered == Paths \subseteq Nat \ {0} /\ IsFiniteSet(Paths) /\ PageSize \in Nat \ {0}
ASSUME DirsKnown == DOMAIN DirOf = Paths
ASSUME SentinelsApart ==
    None \notin Texts \cup (0 .. MaxCommits) /\ Unseen \notin Texts \cup {None}
ASSUME AdapterBounds == MaxCalls \in Nat /\ MaxCommits \in Nat

VARIABLES
    kind,       \* "git" or "gitlab"
    repo,       \* path -> its text (None: no file) and last commit
    gone,       \* the repository or its branch is not there for this device:
                \* renamed, deleted, or access to it withdrawn
    clock,      \* commits made, and times the repository has gone or come back
    calls,      \* calls begun
    call,       \* the call under way, or None
    sent,       \* its request that has not been answered, or None
    turn,       \* flips with every request of a call
    served,     \* the reply of the server, once it has dealt with it, or None
    headers,    \* the headers of the reply have arrived
    late,       \* requests of calls given up
    answer      \* of the last call

server == <<repo, gone, clock>>
client == <<calls, call, answer>>
wire == <<sent, turn, served, headers, late>>
vars == <<kind, server, client, wire>>

Ops == {"open", "list", "read", "write", "delete"}
File == Texts \cup {None}
Dirs == {DirOf[p] : p \in Paths} \ {None}
Changing == {"put", "delete"}
\* GETs name the repository, its branch, a path, a directory or (a page of
\* GitLab's listing) the last path of the page before.  lock is what the server
\* compares the file with, expect: history, the content it stands for.
Request == [verb : {"repo", "branch", "get", "dir", "page"} \cup Changing,
            at : Paths \cup Dirs \cup {0, None}, text : File,
            lock : File \cup (0 .. MaxCommits), expect : File]
\* found: what a listing or read found; more: there is another page.
Reply == [status : {"ok", "missing", "stale", "absent", "unauthorized", "forbidden", "limited", "broken"},
          found : [Paths -> File \cup {Unseen}],
          dirs : SUBSET Dirs, more : BOOLEAN, commit : 0 .. MaxCommits]
\* todo: directories still to be listed; done: history, what has become of the
\* change.
Call == [op : Ops, path : Paths, text : File, rev : File, todo : SUBSET Dirs,
         done : {"no", "applied", "refused"}, seen : [Paths -> File \cup {Unseen}]]

Nothing == [p \in Paths |-> Unseen]
\* What this device can see of the repository.
FilesOf == [p \in Paths |-> IF gone THEN None ELSE repo[p].text]
Keep(P) == [p \in Paths |-> IF p \in P THEN FilesOf[p] ELSE Unseen]

Init ==
    /\ kind \in {"git", "gitlab"} /\ clock = 0 /\ calls = 0 /\ gone = FALSE
    /\ repo \in [Paths -> {[text |-> t, commit |-> 0] : t \in File}]
    /\ call = None /\ sent = None /\ turn = 0 /\ served = None /\ headers = FALSE
    /\ late = {} /\ answer = None
-----------------------------------------------------------------------------
(* Requests *)

Get(verb, at) == [verb |-> verb, at |-> at, text |-> None, lock |-> None, expect |-> None]
Change(c, lock, expect) ==
    [verb |-> IF c.op = "write" THEN "put" ELSE "delete", at |-> c.path, text |-> c.text,
     lock |-> lock, expect |-> expect]
Send(request) ==
    /\ sent' = request /\ turn' = 1 - turn /\ served' = None /\ headers' = FALSE
    /\ UNCHANGED late

\* The first request of a call: GitHub changes a known revision at once; GitLab
\* reads the file first.  Both create without reading.
First(c) ==
    CASE c.op = "open" -> Get("repo", None)
      [] c.op = "list" -> IF kind = "git" THEN Get("dir", None) ELSE Get("page", 0)
      [] c.op = "read" -> Get("get", c.path)
      [] c.op = "write" -> IF kind = "git" \/ c.rev = None THEN Change(c, c.rev, c.rev)
                           ELSE Get("get", c.path)
      [] c.op = "delete" -> IF kind = "git" /\ c.rev # None THEN Change(c, c.rev, c.rev)
                            ELSE Get("get", c.path)

Begin(op, p, t, rev) ==
    /\ call = None /\ calls < MaxCalls /\ calls' = calls + 1
    /\ op = "write" <=> t # None
    /\ op \in {"open", "list", "read"} => rev = None
    /\ op \in {"open", "list"} => p = CHOOSE q \in Paths : TRUE     \* no path
    /\ call' = [op |-> op, path |-> p, text |-> t, rev |-> rev, todo |-> {},
                done |-> "no", seen |-> Nothing]
    /\ Send(First(call')) /\ answer' = None /\ UNCHANGED <<kind, server>>
-----------------------------------------------------------------------------
(* The servers *)

\* A page reaches as far as the next PageSize files.
FilesAfter(token) == {p \in Paths : p > token /\ FilesOf[p] # None}
MorePages(token) == Cardinality(FilesAfter(token)) > PageSize
PageOf(token) == {p \in Paths : /\ p > token
                                /\ \/ ~MorePages(token)
                                   \/ Cardinality({q \in FilesAfter(token) : q < p}) < PageSize}
EmptyDir(d) == \A p \in Paths : DirOf[p] = d => FilesOf[p] = None

\* GitLab compares the last commit, GitHub the content; a file that is created
\* must not be there.
Allowed(r) == /\ ~gone
              /\ IF kind = "git" \/ r.lock = None THEN repo[r.at].text = r.lock
                 ELSE repo[r.at].text # None /\ repo[r.at].commit = r.lock

Told(status, P) ==
    [status |-> status, found |-> Keep(P), dirs |-> {}, more |-> FALSE, commit |-> 0]
\* A file or directory that is not there is a 404, and so is everything in a
\* repository that is gone.
Status(P) == IF \A p \in P : FilesOf[p] = None THEN "missing" ELSE "ok"
Unless404(status) == IF gone THEN "absent" ELSE status
ReplyTo(r) ==
    CASE r.verb = "repo" -> Told("ok", {})
      [] r.verb = "branch" -> Told(Unless404("ok"), {})
      [] r.verb = "get" -> [Told(Status({r.at}), {r.at}) EXCEPT !.commit = repo[r.at].commit]
      [] r.verb = "dir" /\ r.at = None ->
           LET P == {p \in Paths : DirOf[p] = None \/ EmptyDir(DirOf[p])}
           IN [Told(Status(Paths), P) EXCEPT !.dirs = {d \in Dirs : ~EmptyDir(d)}]
      [] r.verb = "dir" /\ r.at # None ->
           LET P == {p \in Paths : DirOf[p] = r.at} IN Told(Status(P), P)
      [] r.verb = "page" -> [Told(Status(PageOf(r.at)), PageOf(r.at)) EXCEPT !.more = MorePages(r.at)]
      [] r.verb = "put" -> Told(Unless404(IF Allowed(r) THEN "ok" ELSE "stale"), {})
      [] r.verb = "delete" ->
           IF FilesOf[r.at] = None THEN Told("missing", {r.at})
           ELSE Told(IF Allowed(r) THEN "ok" ELSE "stale", {})

Takes(r) ==
    /\ Allowed(r) /\ clock < MaxCommits /\ clock' = clock + 1
    /\ repo' = [repo EXCEPT ![r.at] = [text |-> r.text, commit |-> clock']] /\ UNCHANGED gone

\* A request is served; a proxy may report an error of a change all the same.
Serve ==
    /\ sent # None /\ served = None
    /\ \/ served' = ReplyTo(sent)
       \/ sent.verb \in Changing /\ served' = [ReplyTo(sent) EXCEPT !.status = "broken"]
    /\ \/ sent.verb \notin Changing /\ UNCHANGED <<server, call>>
       \/ sent.verb \in Changing /\ Takes(sent) /\ call' = [call EXCEPT !.done = "applied"]
       \/ /\ sent.verb \in Changing /\ ~Allowed(sent)
          /\ call' = [call EXCEPT !.done = "refused"] /\ UNCHANGED server
    /\ UNCHANGED <<kind, calls, answer, sent, turn, headers, late>>
\* A request is turned away; of a repository without its branch, open is told
\* so by the second request only.
TurnAway(status) ==
    /\ sent # None /\ served = None
    /\ status = "absent" => gone /\ sent.verb = "repo"
    /\ served' = Told(status, {})
    /\ call' = [call EXCEPT !.done = IF sent.verb \in Changing THEN "refused" ELSE @]
    /\ UNCHANGED <<kind, server, calls, answer, sent, turn, headers, late>>
\* fetch resolves, and the timer is cleared; the body is still to come.
HeadersArrive ==
    /\ served # None /\ ~headers /\ headers' = TRUE
    /\ UNCHANGED <<kind, server, client, sent, turn, served, late>>
\* A request of a call given up arrives after all, or never.
ServeLate(r) ==
    /\ r \in late /\ late' = late \ {r} /\ (Takes(r) \/ UNCHANGED server)
    /\ UNCHANGED <<kind, client, sent, turn, served, headers>>
Foreign(p, t) ==
    /\ t # repo[p].text /\ clock < MaxCommits /\ clock' = clock + 1
    /\ repo' = [repo EXCEPT ![p] = [text |-> t, commit |-> clock']]
    /\ UNCHANGED <<kind, gone, client, wire>>
\* The repository goes away, or is there again.
Vanish ==
    /\ gone' = ~gone /\ clock < MaxCommits /\ clock' = clock + 1
    /\ UNCHANGED <<kind, repo, client, wire>>
-----------------------------------------------------------------------------
(* The adapters *)

\* What the requests of the call have found, one over the other.
Found == [p \in Paths |-> IF served.found[p] # Unseen THEN served.found[p] ELSE call.seen[p]]
OverBug(code, seen) ==
    /\ call' = None /\ answer' = [code |-> code, seen |-> seen] /\ turn' = 0
    /\ UNCHANGED <<calls, sent, served, headers>>
Over(code, seen) ==
    /\ call' = None /\ answer' = [code |-> code, seen |-> seen]
    /\ sent' = None /\ turn' = 0 /\ served' = None /\ headers' = FALSE /\ UNCHANGED calls
Finish == Over("ok", Found) /\ UNCHANGED late
Throw(code) == Over(code, Nothing) /\ UNCHANGED late
GoOn(request) ==
    /\ call' = [call EXCEPT !.seen = Found] /\ Send(request) /\ UNCHANGED <<calls, answer>>
Answered(verb, statuses) ==
    /\ sent # None /\ headers /\ sent.verb = verb /\ served.status \in statuses
    /\ UNCHANGED <<kind, server>>

open == \/ Answered("repo", {"ok"}) /\ GoOn(Get("branch", None))
        \/ Answered("branch", {"ok"}) /\ Finish
        \/ /\ Answered("repo", {"absent"}) \/ Answered("branch", {"absent"})
           /\ Throw("absent")

\* The directories found are gone into, one after the other.  A 404 is an empty
\* directory.
collectDir ==
    /\ Answered("dir", {"ok", "missing"})
    /\ LET todo == call.todo \cup served.dirs
       IN IF todo = {} THEN Finish
          ELSE \E d \in todo :
                 /\ call' = [call EXCEPT !.seen = Found, !.todo = todo \ {d}]
                 /\ Send(Get("dir", d)) /\ UNCHANGED <<calls, answer>>

\* The link to the next page is followed.  A 404 ends the listing.
LastShown == CHOOSE p \in Paths : /\ served.found[p] \in Texts
                                  /\ \A q \in Paths : served.found[q] \in Texts => q <= p
collectPage ==
    /\ Answered("page", {"ok", "missing"})
    /\ IF served.more THEN GoOn(Get("page", LastShown)) ELSE Finish

\* readOne: the file asked for, or the read-back of GitLab's write.
readOne ==
    /\ call # None /\ call.op # "delete" /\ (call.op = "write" => call.done = "applied")
    /\ Answered("get", {"ok", "missing"}) /\ Finish

\* assertUnchanged, and the reads of deleteFile: the file is still the version
\* the round has seen, or it is not there.
assertUnchangedBug ==
    /\ call # None /\ call.op \in {"write", "delete"} /\ call.done = "no"
    /\ Answered("get", {"ok", "missing"})
    /\ LET now == served.found[call.path]
       IN IF now = None THEN IF call.op = "delete" THEN Finish ELSE Throw("mismatch")
          ELSE GoOn(Change(call, IF kind = "git" THEN now ELSE served.commit, now))
assertUnchanged ==
    /\ call # None /\ call.op \in {"write", "delete"} /\ call.done = "no"
    /\ Answered("get", {"ok", "missing"})
    /\ LET now == served.found[call.path]
       IN IF now = None THEN IF call.op = "delete" THEN Finish ELSE Throw("mismatch")
          ELSE IF call.rev \notin {None, now} THEN Throw("mismatch")
          ELSE GoOn(Change(call, IF kind = "git" THEN now ELSE served.commit, now))

\* GitHub answers a write with the new revision, GitLab is asked for it.
Written ==
    /\ Answered("put", {"ok"})
    /\ IF kind = "git" THEN Over("ok", [call.seen EXCEPT ![call.path] = call.text]) /\ UNCHANGED late
       ELSE GoOn(Get("get", call.path))
Deleted == /\ Answered("delete", {"ok", "missing"})
           /\ Over("ok", [call.seen EXCEPT ![call.path] = None]) /\ UNCHANGED late

\* The codes of the failures.  GitHub's limit is a 403; its deletion and its
\* branch look less closely.
Code(verb, status) ==
    LET careless == kind = "git" /\ verb \in {"delete", "branch"}
    IN CASE status = "forbidden" -> "auth"
         [] status = "unauthorized" -> IF careless THEN "broken" ELSE "auth"
         [] status = "limited" -> IF careless THEN "auth" ELSE "limited"
         [] status = "stale" -> IF verb = "put" THEN "mismatch" ELSE "broken"
         [] OTHER -> "broken"
failIfResponseDoes ==
    \E verb \in {"repo", "branch", "get", "dir", "page"} \cup Changing :
      /\ \/ Answered(verb, {"forbidden", "unauthorized", "limited", "stale", "broken"})
         \/ verb = "put" /\ Answered(verb, {"absent"})
      /\ Throw(Code(verb, served.status))

\* Unreachable, or 30 seconds are over without headers.
TimesOutBug ==
    /\ sent # None /\ served # None /\ ~headers /\ Over("network", Nothing)
    /\ UNCHANGED <<kind, server, late>>
TimesOut ==
    /\ sent # None /\ ~headers /\ Over("network", Nothing)
    /\ late' = IF served = None /\ sent.verb \in Changing THEN late \cup {sent} ELSE late
    /\ UNCHANGED <<kind, server>>

Receive == \/ open \/ collectDir \/ collectPage \/ readOne \/ assertUnchanged
           \/ Written \/ Deleted \/ failIfResponseDoes

Next ==
    \/ \E op \in Ops, p \in Paths, t, rev \in File : Begin(op, p, t, rev)
    \/ Serve \/ HeadersArrive
    \/ \E status \in {"unauthorized", "forbidden", "limited", "absent", "broken"} : TurnAway(status)
    \/ \E r \in late : ServeLate(r)
    \/ (\E p \in Paths, t \in File : Foreign(p, t)) \/ Vanish
    \/ Receive \/ TimesOut

\* The timer of every request fires until the headers are there, and the body
\* of a reply follows its headers (it is awaited without a timer); nothing is
\* assumed of the network before, of the server or of the other devices.
Spec ==
    /\ Init /\ [][Next]_vars
    /\ WF_vars(TimesOut /\ turn = 0) /\ WF_vars(TimesOut /\ turn = 1)
    /\ WF_vars(Receive)
-----------------------------------------------------------------------------
(* Properties *)

\* Every variable has its type; a request is under way exactly during a call.
TypeOK ==
    /\ kind \in {"git", "gitlab"} /\ clock \in 0 .. MaxCommits /\ calls \in 0 .. MaxCalls
    /\ repo \in [Paths -> [text : File, commit : 0 .. MaxCommits]] /\ gone \in BOOLEAN
    /\ call \in Call \cup {None} /\ sent \in Request \cup {None}
    /\ served \in Reply \cup {None} /\ late \subseteq Request
    /\ (call = None <=> sent = None) /\ (sent = None => served = None)
    /\ turn \in {0, 1} /\ headers \in BOOLEAN /\ (headers => served # None)

\* The store the calls implement: what has been asked for, what has become of
\* it, and what the call has found so far, the answer on its way included.
EffectOf(r) == [path |-> r.at, expect |-> r.expect, text |-> r.text]
SeenOf == [p \in Paths |->
    IF served # None /\ served.found[p] # Unseen THEN served.found[p]
    ELSE IF call.done = "applied" /\ p = call.path THEN call.text ELSE call.seen[p]]
CallOf == IF call = None THEN None
          ELSE [op |-> call.op, path |-> call.path, text |-> call.text, rev |-> call.rev,
                sent |-> IF sent.verb \in Changing THEN EffectOf(sent)
                         ELSE IF call.done = "applied"
                         THEN [path |-> call.path, expect |-> call.rev, text |-> call.text]
                         ELSE None,
                done |-> call.done, seen |-> SeenOf]
LateOf == {EffectOf(r) : r \in late}
Store == INSTANCE FileStore WITH files <- FilesOf, call <- CallOf, late <- LateOf, answer <- answer
ASSUME NoneIsNothing == None \notin Request \cup Reply \cup Call \cup Store!Effect \cup Store!CallRec
\* Whatever the requests, pages, delays, failures and other devices, the calls
\* of either adapter do what adapters/README.md asks of a backend: no write or
\* deletion reaches a version other than the one it names, none takes effect
\* twice, a listing shows every file as it was at some moment of the call, and a
\* reported mismatch means that nothing was written or will be.  This is as far
\* as the adapters can see: they take a 404 for a file that is not there, so
\* that a repository which is gone is one whose files have all been deleted, and
\* a listing of it, or the rest of one under way, comes back empty and "ok".
Contract == Store!Spec

\* Every call of an adapter comes back, whatever the network and the server do:
\* each request has its own deadline, and the pages and directories run out.
CallsEnd == call # None ~> call = None
=============================================================================
