------------------------- MODULE RemoteAdapter_proofs -------------------------
(***************************************************************************)
(* For all sets of paths, directories and contents, all page sizes and all *)
(* bounds: the calls of either adapter are those of a file store.          *)
(*                                                                         *)
(* A step of the adapter or of the server is a step of the store, or none  *)
(* that it sees.  For that the requests of a call must be the ones that    *)
(* the operation asks for, a lock must stand for the content it was made   *)
(* of, a reply must say what has become of its request, and the pages and  *)
(* directories still to come must be those of the files not yet seen.      *)
(***************************************************************************)
EXTENDS RemoteAdapter, TLAPS, FiniteSetTheorems, WellFoundedInduction

\* A request is one that the operation of its call makes.
RequestsFit == call # None =>
    /\ call.op = "open" <=> sent.verb \in {"repo", "branch"}
    /\ call.op = "list" <=> sent.verb \in {"dir", "page"}
    /\ sent.verb = "put" => call.op = "write"
    /\ sent.verb = "delete" => call.op = "delete"
    /\ sent.verb \in {"get"} \cup Changing => sent.at = call.path
    /\ call.op = "write" <=> call.text # None
    /\ sent.verb \in Changing =>
          /\ sent.text = call.text
          /\ call.op = "write" \/ call.rev # None => sent.expect = call.rev
          /\ sent.verb = "delete" => sent.expect # None

\* Only a change of which it is not yet known what has become of it is under
\* way; GitLab's reads of a file it writes come before the write or after it.
ChangesOnce == call # None =>
    /\ sent.verb \in Changing => (call.done = "no" <=> served = None)
    /\ sent.verb \notin Changing => call.done # "refused"
    /\ call.done = "applied" /\ sent.verb \notin Changing =>
          sent.verb = "get" /\ call.op = "write"
    /\ sent.verb = "get" /\ call.op = "write" /\ call.done = "no" => call.rev # None

\* The lock of a change stands for the content the change is to replace.
LockFits(r) ==
    /\ r.verb \in Changing /\ r.at \in Paths
    /\ IF kind = "git" \/ r.lock = None THEN r.lock = r.expect
       ELSE /\ r.lock \in 0 .. clock /\ r.expect # None
            /\ repo[r.at].commit = r.lock => repo[r.at].text = r.expect
LocksHold ==
    /\ \A p \in Paths : repo[p].commit \in 0 .. clock
    /\ \A r \in late : LockFits(r)
    /\ sent # None /\ sent.verb \in Changing => LockFits(sent)

\* A reply to a change says what has become of it, one to a read what the file
\* was and which commit it was of, unless the file was not there.
RepliesTell == served # None =>
    /\ sent.verb \in Changing =>
          /\ \A p \in Paths : served.found[p] # Unseen => p = sent.at /\ served.found[p] = None
          /\ served.found[sent.at] # Unseen => sent.verb = "delete" /\ call.done = "refused"
          /\ served.status = "ok" => call.done = "applied"
          /\ served.status = "stale" => call.done = "refused"
          /\ served.status = "missing" => sent.verb = "delete" /\ served.found[sent.at] = None
    /\ sent.verb = "get" /\ served.status \in {"ok", "missing"} =>
          /\ \A p \in Paths : served.found[p] # Unseen <=> p = sent.at
          /\ served.commit \in 0 .. clock
          /\ served.found[sent.at] # None /\ repo[sent.at].commit = served.commit =>
                repo[sent.at].text = served.found[sent.at]
    /\ sent.verb \notin Changing /\ served.status \notin {"ok", "missing"} => served.found = Nothing
    /\ sent.verb \notin Changing => served.status # "stale"
    /\ sent.verb \in {"repo", "branch"} => served.found = Nothing

\* The files not yet seen are those of the pages to come.
PagesToCome == call # None /\ sent.verb = "page" =>
    /\ sent.at \in Nat /\ \A p \in Paths : call.seen[p] = Unseen <=> p > sent.at
    /\ served # None /\ served.status \in {"ok", "missing"} =>
          \E end \in Nat :
             /\ \A p \in Paths : served.found[p] # Unseen <=> sent.at < p /\ p <= end
             /\ served.more => end \in Paths /\ served.found[end] \in Texts
             /\ ~served.more => \A p \in Paths : p <= end

\* The files not yet seen are those of the directories to come.
DirsToCome == call # None /\ sent.verb = "dir" =>
    /\ IF sent.at = None THEN call.seen = Nothing /\ call.todo = {}
       ELSE /\ sent.at \in Dirs \ call.todo
            /\ \A p \in Paths : call.seen[p] = Unseen <=> DirOf[p] \in call.todo \cup {sent.at}
    /\ served # None /\ served.status \in {"ok", "missing"} =>
          IF sent.at = None
          THEN \A p \in Paths : served.found[p] = Unseen <=> DirOf[p] \in served.dirs
          ELSE served.dirs = {} /\ \A p \in Paths : served.found[p] # Unseen <=> DirOf[p] = sent.at

AInv == /\ TypeOK /\ RequestsFit /\ ChangesOnce /\ LocksHold
        /\ RepliesTell /\ PagesToCome /\ DirsToCome
-----------------------------------------------------------------------------
(* Pages *)

LEMMA LeastOf ==
    ASSUME NEW S \in SUBSET Nat, S # {}
    PROVE  \E x \in S : \A y \in S : x <= y
<1> DEFINE R == OpToRel(<, Nat)
<1>1. PICK x \in S : \A y \in S : <<y, x>> \notin R
  BY NatLessThanWellFounded, WFMin
<1>2. \A y \in S : ~(y < x)
  BY <1>1 DEF OpToRel
<1> QED BY <1>2

\* A finite set of numbers has a greatest one: the one that the fewest exceed.
LEMMA GreatestOf ==
    ASSUME NEW S \in SUBSET Nat, IsFiniteSet(S), S # {}
    PROVE  \E x \in S : \A y \in S : y <= x
<1> DEFINE Above(x) == {y \in S : y > x}
           Family == {Above(x) : x \in S}
           R == StrictSubsetOrdering(S)
<1>1. IsWellFoundedOn(R, SUBSET S)
  BY FS_StrictSubsetOrderingWellFounded, FS_FiniteSubsetsOfFinite
<1>2. Family \subseteq SUBSET S /\ Family # {}
  OBVIOUS
<1>3. PICK T \in Family : \A U \in Family : <<U, T>> \notin R
  <2> HIDE DEF Family, R
  <2>1. \E x \in Family : \A y \in Family : ~ (<<y, x>> \in R)
    BY <1>1, <1>2, WFMin, Zenon
  <2> QED BY <2>1
<1>4. PICK x \in S : T = Above(x)
  OBVIOUS
<1>5. ASSUME NEW y \in S, y > x PROVE FALSE
  <2>1. Above(y) \subseteq Above(x) /\ y \in Above(x) /\ y \notin Above(y)
    <3>1. x \in Nat /\ y \in Nat /\ \A z \in S : z \in Nat
      OBVIOUS
    <3>2. ASSUME NEW z \in S, z > y PROVE z > x
      BY <1>5, <3>1, <3>2
    <3>3. ~(y > y)
      BY <3>1
    <3>4. Above(y) \subseteq Above(x)
      BY <3>2
    <3> QED BY <1>5, <3>3, <3>4
  <2>2. <<Above(y), T>> \in R
    BY <1>4, <2>1 DEF StrictSubsetOrdering
  <2> QED BY <1>3, <2>2
<1> QED BY <1>5

\* A page reaches from its token to its last file, if there is a next page, and
\* to the end otherwise.
LEMMA PageReaches ==
    ASSUME NEW token \in Nat
    PROVE  \E end \in Nat :
              /\ PageOf(token) = {p \in Paths : token < p /\ p <= end}
              /\ MorePages(token) => end \in Paths /\ end > token /\ FilesOf[end] # None
              /\ ~MorePages(token) => \A p \in Paths : p <= end
<1> USE PathsOrdered
<1> DEFINE Files == FilesAfter(token)
           Before(p) == {q \in Files : q < p}
           Count(p) == Cardinality(Before(p))
<1>1. /\ Files \subseteq Paths /\ \A p \in Files : p \in Nat /\ p > token /\ FilesOf[p] # None
      /\ IsFiniteSet(Files) /\ Cardinality(Files) \in Nat
  <2>1. Files \subseteq Paths /\ \A p \in Files : p \in Nat /\ p > token /\ FilesOf[p] # None
    BY DEF FilesAfter
  <2> QED BY <2>1, FS_Subset, FS_CardinalityType
<1>2. CASE ~MorePages(token)
  <2>1. \E end \in Nat : \A p \in Paths : p <= end
    <3>1. CASE Paths = {}
      <4>1. 0 \in Nat /\ \A p \in Paths : p <= 0
        BY <3>1
      <4> QED BY <4>1
    <3>2. CASE Paths # {}
      <4>1. Paths \in SUBSET Nat
        OBVIOUS
      <4>2. \E end \in Paths : \A p \in Paths : p <= end
        BY <3>2, <4>1, GreatestOf
      <4> QED BY <4>1, <4>2
    <3> QED BY <3>1, <3>2
  <2>2. PageOf(token) = {p \in Paths : p > token}
    BY <1>2 DEF PageOf
  <2> QED BY <1>2, <2>1, <2>2
<1>3. CASE MorePages(token)
  <2>1. /\ Cardinality(Files) > PageSize
        /\ \A p \in Paths : p \in PageOf(token) <=> p > token /\ Count(p) < PageSize
    BY <1>3 DEF MorePages, PageOf
  <2>2. PageOf(token) \subseteq Paths
    BY DEF PageOf
  <2> HIDE DEF Files
  <2>3. ASSUME NEW p \in Nat, NEW q \in Nat
        PROVE  /\ Count(p) \in Nat
               /\ p <= q => Count(p) <= Count(q)
               /\ (\A r \in Files : r < p <=> r < q) => Count(p) = Count(q)
               /\ (\A r \in Files : r < p) => Count(p) = Cardinality(Files)
               /\ (\A r \in Files : ~(r < p)) => Count(p) = 0
    <3>1. Before(p) \subseteq Files /\ IsFiniteSet(Before(p))
      BY <1>1, FS_Subset
    <3>2. IsFiniteSet(Before(q))
      BY <1>1, FS_Subset
    <3>3. Count(p) \in Nat
      BY <3>1, FS_CardinalityType
    <3>4. p <= q => Count(p) <= Count(q)
      <4>1. p <= q => Before(p) \subseteq Before(q)
        <5>1. \A r \in Files : r \in Nat
          BY <1>1
        <5>2. p <= q => \A r \in Files : r < p => r < q
          BY <5>1
        <5> QED BY <5>2
      <4> HIDE DEF Before
      <4> QED BY <3>2, <4>1, FS_Subset
    <3>5. (\A r \in Files : r < p <=> r < q) => Before(p) = Before(q)
      OBVIOUS
    <3>6. (\A r \in Files : r < p) => Before(p) = Files
      OBVIOUS
    <3>7. (\A r \in Files : ~(r < p)) => Before(p) = {}
      OBVIOUS
    <3> HIDE DEF Before
    <3> QED BY <3>3, <3>4, <3>5, <3>6, <3>7, FS_EmptySet
  <2> HIDE DEF Count
  <2> DEFINE Shown == Files \cap PageOf(token)
  <2>4. Shown # {}
    <3>1. Files # {} /\ Files \in SUBSET Nat
      BY <1>1, <2>1, FS_EmptySet
    <3>2. PICK first \in Files : \A q \in Files : first <= q
      BY <3>1, LeastOf
    <3>3. Count(first) = 0
      BY <1>1, <2>3, <3>2
    <3>4. first \in PageOf(token)
      BY <1>1, <2>1, <3>3
    <3> QED BY <3>4
  <2>5. PICK end \in Shown : \A q \in Shown : q <= end
    <3>1. Shown \subseteq Files /\ Shown \in SUBSET Nat
      BY <1>1
    <3>2. IsFiniteSet(Shown)
      BY <1>1, <3>1, FS_Subset
    <3> HIDE DEF Shown
    <3> QED BY <2>4, <3>1, <3>2, GreatestOf
  <2>6. /\ end \in Paths /\ end \in Nat /\ end > token /\ FilesOf[end] # None
        /\ Count(end) < PageSize
    BY <1>1, <2>1, <2>5
  <2>7. ASSUME NEW p \in Paths, p > token, p <= end PROVE p \in PageOf(token)
    <3>1. p \in Nat /\ Count(p) <= Count(end) /\ Count(p) \in Nat /\ Count(end) \in Nat
      BY <2>3, <2>6, <2>7
    <3> QED BY <2>1, <2>6, <2>7, <3>1
  <2>8. ASSUME NEW p \in PageOf(token), p > end PROVE FALSE
    <3>1. p \in Paths /\ p \in Nat /\ Count(p) < PageSize /\ Count(p) \in Nat
      BY <2>1, <2>2, <2>3
    <3>2. ASSUME NEW q \in Files, q < p PROVE q <= end
      <4>1. q \in Nat /\ Count(q) <= Count(p) /\ Count(q) \in Nat
        BY <1>1, <2>3, <3>1, <3>2
      <4>2. q \in PageOf(token)
        BY <1>1, <2>1, <3>1, <4>1
      <4> QED BY <2>5, <4>2
    <3> DEFINE Later == {q \in Files : q > end}
    <3>3. CASE Later = {}
      <4>1. \A q \in Files : q < p
        BY <1>1, <2>6, <2>8, <3>1, <3>3
      <4>2. Count(p) = Cardinality(Files)
        BY <2>3, <3>1, <4>1
      <4> QED BY <1>1, <2>1, <3>1, <4>2
    <3>4. CASE Later # {}
      <4>1. Later \in SUBSET Nat
        BY <1>1
      <4>2. PICK next \in Later : \A q \in Later : next <= q
        <5> HIDE DEF Later
        <5> QED BY <3>4, <4>1, LeastOf
      <4>3. next \in Files /\ next \in Nat /\ next > end /\ next \in Paths /\ next > token
        BY <1>1, <2>6, <4>2
      <4>4. \A q \in Files : q < next <=> q < p
        BY <1>1, <2>6, <2>8, <3>1, <3>2, <4>2, <4>3
      <4>5. Count(next) = Count(p)
        BY <2>3, <3>1, <4>3, <4>4
      <4>6. next \in Shown
        BY <2>1, <3>1, <4>3, <4>5
      <4> QED BY <2>5, <2>6, <4>3, <4>6
    <3> QED BY <3>3, <3>4
  <2>9. PageOf(token) = {p \in Paths : token < p /\ p <= end}
    <3>1. \A p \in PageOf(token) : p \in Paths /\ p > token /\ p \in Nat
      BY <2>1, <2>2
    <3>2. \A p \in PageOf(token) : token < p /\ p <= end
      BY <2>6, <2>8, <3>1
    <3> QED BY <2>7, <3>1, <3>2
  <2> QED BY <1>3, <2>6, <2>9
<1> QED BY <1>2, <1>3
-----------------------------------------------------------------------------
(* Replies *)

RepoTyped == repo \in [Paths -> [text : File, commit : 0 .. MaxCommits]]

LEMMA FilesTyped ==
    ASSUME RepoTyped
    PROVE  FilesOf \in [Paths -> File]
BY DEF RepoTyped, FilesOf, File

LEMMA KeepTells ==
    ASSUME RepoTyped, NEW P
    PROVE  /\ Keep(P) \in [Paths -> File \cup {Unseen}]
           /\ \A p \in Paths : Keep(P)[p] # Unseen <=> p \in P
           /\ \A p \in Paths : Keep(P)[p] # Unseen => Keep(P)[p] = FilesOf[p]
           /\ Keep({}) = Nothing
<1>1. \A p \in Paths : FilesOf[p] \in File
  BY FilesTyped
<1> QED BY <1>1, SentinelsApart DEF Keep, File, Nothing

LEMMA ToldTyped ==
    ASSUME RepoTyped, NEW P,
           NEW status \in {"ok", "missing", "stale", "absent", "unauthorized", "forbidden",
                           "limited", "broken"}
    PROVE  Told(status, P) \in Reply
<1>1. Keep(P) \in [Paths -> File \cup {Unseen}]
  BY KeepTells
<1> QED BY <1>1, AdapterBounds DEF Told, Reply

\* The reply of each request, as the server makes it.
ReplyOf(r) ==
    /\ r.verb = "repo" => ReplyTo(r) = Told("ok", {})
    /\ r.verb = "branch" => ReplyTo(r) = Told(Unless404("ok"), {})
    /\ r.verb = "get" =>
         ReplyTo(r) = [Told(Status({r.at}), {r.at}) EXCEPT !.commit = repo[r.at].commit]
    /\ r.verb = "dir" /\ r.at = None =>
         ReplyTo(r) = [Told(Status(Paths), {p \in Paths : DirOf[p] = None \/ EmptyDir(DirOf[p])})
                       EXCEPT !.dirs = {d \in Dirs : ~EmptyDir(d)}]
    /\ r.verb = "dir" /\ r.at # None =>
         LET P == {p \in Paths : DirOf[p] = r.at} IN ReplyTo(r) = Told(Status(P), P)
    /\ r.verb = "page" =>
         ReplyTo(r) = [Told(Status(PageOf(r.at)), PageOf(r.at)) EXCEPT !.more = MorePages(r.at)]
    /\ r.verb = "put" => ReplyTo(r) = Told(Unless404(IF Allowed(r) THEN "ok" ELSE "stale"), {})
    /\ r.verb = "delete" =>
         ReplyTo(r) = IF FilesOf[r.at] = None THEN Told("missing", {r.at})
                      ELSE Told(IF Allowed(r) THEN "ok" ELSE "stale", {})

LEMMA ReplyIs == ASSUME NEW r PROVE ReplyOf(r)
BY DEF ReplyOf, ReplyTo

LEMMA ReplyExcept ==
    ASSUME NEW reply \in Reply
    PROVE  /\ \A c \in 0 .. MaxCommits : [reply EXCEPT !.commit = c] \in Reply
           /\ \A D \in SUBSET Dirs : [reply EXCEPT !.dirs = D] \in Reply
           /\ \A b \in BOOLEAN : [reply EXCEPT !.more = b] \in Reply
BY DEF Reply

LEMMA ReplyTyped ==
    ASSUME RepoTyped, NEW r \in Request, r.verb \in {"get"} \cup Changing => r.at \in Paths
    PROVE  ReplyTo(r) \in Reply
<1>1. r.verb \in {"repo", "branch", "get", "dir", "page", "put", "delete"}
  BY DEF Request, Changing
<1>2. ReplyOf(r)
  BY ReplyIs
<1>3. /\ \A P : Told("ok", P) \in Reply /\ Told("stale", P) \in Reply /\ Told("missing", P) \in Reply
      /\ \A P : Told("absent", P) \in Reply /\ \A Q : Told(Status(Q), P) \in Reply
  BY ToldTyped DEF Status
<1>4. CASE r.verb \in {"repo", "branch"}
  <2>1. ReplyTo(r) \in {Told("ok", {}), Told("absent", {})}
    BY <1>2, <1>4 DEF ReplyOf, Unless404
  <2> QED BY <1>3, <2>1
<1>5. CASE r.verb = "get"
  <2>1. repo[r.at].commit \in 0 .. MaxCommits
    BY <1>5 DEF RepoTyped
  <2>2. Told(Status({r.at}), {r.at}) \in Reply
    BY <1>3
  <2>3. ReplyTo(r) = [Told(Status({r.at}), {r.at}) EXCEPT !.commit = repo[r.at].commit]
    BY <1>2, <1>5 DEF ReplyOf
  <2> QED BY <2>1, <2>2, <2>3, ReplyExcept
<1>6. CASE r.verb = "dir" /\ r.at = None
  <2> DEFINE D == {d \in Dirs : ~EmptyDir(d)}
  <2>1. D \in SUBSET Dirs
    OBVIOUS
  <2>2. PICK P : ReplyTo(r) = [Told(Status(Paths), P) EXCEPT !.dirs = D]
    BY <1>2, <1>6, Zenon DEF ReplyOf
  <2> HIDE DEF D
  <2> QED BY <1>3, <2>1, <2>2, ReplyExcept
<1>7. CASE r.verb = "dir" /\ r.at # None
  <2>1. PICK P : ReplyTo(r) = Told(Status(P), P)
    BY <1>2, <1>7, Zenon DEF ReplyOf
  <2> QED BY <1>3, <2>1
<1>8. CASE r.verb = "page"
  <2>1. MorePages(r.at) \in BOOLEAN
    BY DEF MorePages
  <2>2. ReplyTo(r) = [Told(Status(PageOf(r.at)), PageOf(r.at)) EXCEPT !.more = MorePages(r.at)]
    BY <1>2, <1>8 DEF ReplyOf
  <2> QED BY <1>3, <2>1, <2>2, ReplyExcept
<1>9. CASE r.verb = "put"
  <2>1. ReplyTo(r) \in {Told("ok", {}), Told("stale", {}), Told("absent", {})}
    BY <1>2, <1>9 DEF ReplyOf, Unless404
  <2> QED BY <1>3, <2>1
<1>10. CASE r.verb = "delete"
  <2>1. ReplyTo(r) \in {Told("missing", {r.at}), Told("ok", {}), Told("stale", {})}
    BY <1>2, <1>10 DEF ReplyOf
  <2> QED BY <1>3, <2>1
<1> QED BY <1>1, <1>4, <1>5, <1>6, <1>7, <1>8, <1>9, <1>10
-----------------------------------------------------------------------------
(* The invariant *)

LEMMA InitAInv == Init => AInv
<1> SUFFICES ASSUME Init PROVE AInv
  OBVIOUS
<1>1. repo \in [Paths -> [text : File, commit : 0 .. MaxCommits]]
  <2>1. \A t \in File : [text |-> t, commit |-> 0] \in [text : File, commit : 0 .. MaxCommits]
    BY AdapterBounds
  <2> QED BY <2>1 DEF Init
<1>2. TypeOK
  <2>1. clock \in 0 .. MaxCommits /\ calls \in 0 .. MaxCalls
    BY AdapterBounds DEF Init
  <2> QED BY <1>1, <2>1 DEF Init, TypeOK
<1>3. LocksHold
  BY AdapterBounds DEF Init, LocksHold
<1> QED BY <1>2, <1>3 DEF Init, AInv, RequestsFit, ChangesOnce, RepliesTell, PagesToCome, DirsToCome

\* What is known during a call.
LEMMA UnderWay ==
    ASSUME AInv, sent # None
    PROVE  /\ call # None /\ call \in Call /\ sent \in Request /\ RepoTyped
           /\ call.path \in Paths /\ call.text \in File /\ call.rev \in File
           /\ call.seen \in [Paths -> File \cup {Unseen}] /\ call.todo \in SUBSET Dirs
           /\ served # None => served \in Reply
           /\ sent.verb \in {"get"} \cup Changing => sent.at \in Paths
           /\ late \subseteq Request /\ kind \in {"git", "gitlab"} /\ clock \in 0 .. MaxCommits
<1>1. /\ call # None /\ call \in Call /\ sent \in Request /\ RepoTyped
      /\ served # None => served \in Reply
      /\ late \subseteq Request /\ kind \in {"git", "gitlab"} /\ clock \in 0 .. MaxCommits
  BY DEF AInv, TypeOK, RepoTyped
<1>2. /\ call.path \in Paths /\ call.text \in File /\ call.rev \in File
      /\ call.seen \in [Paths -> File \cup {Unseen}] /\ call.todo \in SUBSET Dirs
  BY <1>1 DEF Call
<1>3. sent.verb \in {"get"} \cup Changing => sent.at \in Paths
  BY <1>1, <1>2 DEF AInv, RequestsFit
<1> QED BY <1>1, <1>2, <1>3

\* The end of a call: of what was asked for, at most a change that was not yet
\* served remains.
LEMMA OverKeepsAInv ==
    ASSUME AInv, sent # None, NEW code, NEW seen, Over(code, seen), UNCHANGED <<kind, server>>,
           late' \in {late, IF sent.verb \in Changing THEN late \cup {sent} ELSE late}
    PROVE  AInv'
<1>1. sent \in Request
  BY UnderWay
<1>2. TypeOK'
  BY <1>1 DEF AInv, TypeOK, Over, server
<1>3. LocksHold'
  BY DEF AInv, LocksHold, LockFits, Over, server
<1> QED BY <1>2, <1>3 DEF Over, AInv, RequestsFit, ChangesOnce, RepliesTell, PagesToCome, DirsToCome

\* The beginning of a request: nothing is known yet of its reply.
LEMMA SendKeepsAInv ==
    ASSUME AInv, NEW request \in Request, Send(request), UNCHANGED <<kind, server>>,
           calls' \in 0 .. MaxCalls, call' \in Call,
           RequestsFit', ChangesOnce', request.verb \in Changing => LockFits(request),
           request.verb = "page" =>
              request.at \in Nat /\ \A p \in Paths : call'.seen[p] = Unseen <=> p > request.at,
           request.verb = "dir" =>
              IF request.at = None THEN call'.seen = Nothing /\ call'.todo = {}
              ELSE /\ request.at \in Dirs \ call'.todo
                   /\ \A p \in Paths :
                        call'.seen[p] = Unseen <=> DirOf[p] \in call'.todo \cup {request.at}
    PROVE  AInv'
<1>1. request # None /\ call' # None
  BY NoneIsNothing
<1>2. TypeOK'
  <2>1. turn' \in {0, 1}
    BY DEF AInv, TypeOK, Send
  <2>2. sent' = request /\ served' = None /\ headers' = FALSE /\ late' = late
    BY DEF Send
  <2> QED BY <1>1, <2>1, <2>2 DEF AInv, TypeOK, server
<1>3. LocksHold'
  BY DEF AInv, LocksHold, LockFits, Send, server
<1>4. RepliesTell' /\ PagesToCome' /\ DirsToCome'
  BY DEF Send, RepliesTell, PagesToCome, DirsToCome
<1> QED BY <1>2, <1>3, <1>4 DEF AInv

LEMMA GetTyped ==
    ASSUME NEW verb \in {"repo", "branch", "get", "dir", "page"},
           NEW at \in Paths \cup Dirs \cup {0, None}
    PROVE  Get(verb, at) \in Request
BY DEF Get, Request, File

LEMMA ChangeTyped ==
    ASSUME NEW c \in Call, NEW lock \in File \cup (0 .. MaxCommits), NEW expect \in File
    PROVE  Change(c, lock, expect) \in Request
<1>1. c.path \in Paths /\ c.text \in File
  BY DEF Call
<1> QED BY <1>1 DEF Change, Request, Changing

\* The first request of a call.
LEMMA BeginKeepsAInv ==
    ASSUME AInv, NEW op \in Ops, NEW p \in Paths, NEW t \in File, NEW rev \in File,
           Begin(op, p, t, rev)
    PROVE  AInv'
<1> DEFINE c == [op |-> op, path |-> p, text |-> t, rev |-> rev, todo |-> {},
                 done |-> "no", seen |-> Nothing]
<1>1. /\ call' = c /\ Send(First(c)) /\ UNCHANGED <<kind, server>> /\ calls' \in 0 .. MaxCalls
      /\ op = "write" <=> t # None
  BY AdapterBounds DEF Begin, AInv, TypeOK
<1>2. c \in Call
  BY DEF Call, Nothing
<1>3. \A q \in Paths : c.seen[q] = Unseen
  BY DEF Nothing
<1>4. c.op = op /\ c.path = p /\ c.text = t /\ c.rev = rev /\ c.todo = {} /\ c.done = "no" /\ c.seen = Nothing
  OBVIOUS
<1>5. kind \in {"git", "gitlab"}
  BY DEF AInv, TypeOK
<1> HIDE DEF c
<1>6. sent' = First(c) /\ served' = None
  BY <1>1 DEF Send
<1>7. CASE op = "open"
  <2>1. First(c) = Get("repo", None)
    BY <1>4, <1>7 DEF First
  <2>2. First(c) \in Request
    BY <2>1, GetTyped
  <2>3. First(c).verb = "repo"
    BY <2>1 DEF Get
  <2> QED BY <1>1, <1>2, <1>4, <1>6, <1>7, <2>2, <2>3, SendKeepsAInv
          DEF RequestsFit, ChangesOnce, Changing
<1>8. CASE op = "list"
  <2>1. First(c) = IF kind = "git" THEN Get("dir", None) ELSE Get("page", 0)
    BY <1>4, <1>8 DEF First
  <2>2. First(c) \in Request
    BY <2>1, GetTyped
  <2>3. \/ First(c).verb = "dir" /\ First(c).at = None
        \/ First(c).verb = "page" /\ First(c).at = 0
    <3>1. Get("dir", None).verb = "dir" /\ Get("dir", None).at = None
      BY DEF Get
    <3>2. Get("page", 0).verb = "page" /\ Get("page", 0).at = 0
      BY DEF Get
    <3>3. CASE kind = "git"
      <4>1. First(c) = Get("dir", None)
        BY <2>1, <3>3
      <4>2. First(c).verb = "dir" /\ First(c).at = None
        BY <3>1, <4>1, Zenon
      <4> QED BY <4>2
    <3>4. CASE kind # "git"
      <4>1. First(c) = Get("page", 0)
        BY <2>1, <3>4
      <4> QED BY <3>2, <4>1
    <3> QED BY <3>3, <3>4
  <2>4. \A q \in Paths : q > 0
    BY PathsOrdered
  <2> QED BY <1>1, <1>2, <1>3, <1>4, <1>6, <1>8, <2>2, <2>3, <2>4, SendKeepsAInv
          DEF RequestsFit, ChangesOnce, Changing
<1>9. CASE op = "read"
  <2>1. First(c) = Get("get", p)
    BY <1>4, <1>9 DEF First
  <2>2. First(c) \in Request
    BY <2>1, GetTyped
  <2>3. First(c).verb = "get" /\ First(c).at = p
    BY <2>1 DEF Get
  <2> QED BY <1>1, <1>2, <1>4, <1>6, <1>9, <2>2, <2>3, SendKeepsAInv
          DEF RequestsFit, ChangesOnce, Changing
<1>10. CASE op \in {"write", "delete"}
  <2>1. CASE First(c) = Change(c, rev, rev) /\ (kind = "git" \/ rev = None)
                /\ (op = "delete" => rev # None)
    <3>1. First(c) \in Request
      BY <1>2, <2>1, ChangeTyped
    <3>2. /\ First(c).verb = (IF op = "write" THEN "put" ELSE "delete") /\ First(c).at = p
          /\ First(c).text = t /\ First(c).lock = rev /\ First(c).expect = rev
      BY <1>4, <2>1 DEF Change
    <3>3. LockFits(First(c))
      BY <1>10, <2>1, <3>2 DEF LockFits, Changing
    <3> QED BY <1>1, <1>2, <1>4, <1>6, <1>10, <2>1, <3>1, <3>2, <3>3, SendKeepsAInv
            DEF RequestsFit, ChangesOnce, Changing
  <2>2. CASE First(c) = Get("get", p) /\ (op = "write" => rev # None)
    <3>1. First(c) \in Request
      BY <2>2, GetTyped
    <3>2. First(c).verb = "get" /\ First(c).at = p
      BY <2>2 DEF Get
    <3> QED BY <1>1, <1>2, <1>4, <1>6, <1>10, <2>2, <3>1, <3>2, SendKeepsAInv
            DEF RequestsFit, ChangesOnce, Changing
  <2>3. \/ First(c) = Change(c, rev, rev) /\ (kind = "git" \/ rev = None)
             /\ (op = "delete" => rev # None)
        \/ First(c) = Get("get", p) /\ (op = "write" => rev # None)
    BY <1>4, <1>10 DEF First
  <2> QED BY <2>1, <2>2, <2>3
<1> QED BY <1>7, <1>8, <1>9, <1>10 DEF Ops

\* A change of the repository: a commit of its own, at one path.
Commits(p, t) ==
    /\ clock < MaxCommits /\ clock' = clock + 1
    /\ repo' = [repo EXCEPT ![p] = [text |-> t, commit |-> clock']] /\ gone' = gone

\* A lock that fitted fits on, and a commit that was read names what was read.
LEMMA CommitsKeep ==
    ASSUME AInv, kind' = kind, NEW p \in Paths, NEW t \in File, Commits(p, t)
    PROVE  /\ RepoTyped' /\ clock' \in 0 .. MaxCommits
           /\ \A q \in Paths : repo'[q].commit \in 0 .. clock'
           /\ \A r : LockFits(r) => LockFits(r)'
           /\ \A c \in 0 .. clock : c \in 0 .. clock'
           /\ \A c \in 0 .. clock, q \in Paths : repo'[q].commit = c => repo'[q] = repo[q]
<1>1. /\ clock \in 0 .. MaxCommits /\ clock' = clock + 1 /\ clock' \in 0 .. MaxCommits
      /\ RepoTyped /\ \A q \in Paths : repo[q].commit \in 0 .. clock
  BY AdapterBounds DEF AInv, TypeOK, RepoTyped, LocksHold, Commits
<1>2. /\ \A q \in Paths \ {p} : repo'[q] = repo[q]
      /\ repo'[p] = [text |-> t, commit |-> clock'] /\ DOMAIN repo' = Paths
      /\ repo' \in [Paths -> [text : File, commit : 0 .. MaxCommits]]
  BY <1>1 DEF RepoTyped, Commits
<1>3. repo'[p].commit = clock'
  BY <1>2
<1>4. \A c \in 0 .. clock : c \in 0 .. clock' /\ c # clock'
  BY <1>1
<1>5. \A c \in 0 .. clock, q \in Paths : repo'[q].commit = c => repo'[q] = repo[q]
  BY <1>2, <1>3, <1>4
<1>6. \A q \in Paths : repo'[q].commit \in 0 .. clock'
  BY <1>1, <1>2, <1>3, <1>4
<1>7. ASSUME NEW r, LockFits(r) PROVE LockFits(r)'
  BY <1>1, <1>4, <1>5, <1>7 DEF LockFits
<1> QED BY <1>1, <1>2, <1>4, <1>5, <1>6, <1>7 DEF RepoTyped

\* A lock that fits lets a change through on the content it stands for.
LEMMA AllowedMeans ==
    ASSUME AInv, NEW r, LockFits(r), Allowed(r)
    PROVE  repo[r.at].text = r.expect
<1>1. kind \in {"git", "gitlab"}
  BY DEF AInv, TypeOK
<1> QED BY <1>1 DEF LockFits, Allowed

\* The repository may change under a call and its requests.
LEMMA ServerKeepsAInv ==
    ASSUME AInv, NEW p \in Paths, NEW t \in File, Commits(p, t),
           UNCHANGED <<kind, client, sent, turn, served, headers>>, late' \subseteq late
    PROVE  AInv'
<1> USE DEF client
<1>1. /\ RepoTyped' /\ clock' \in 0 .. MaxCommits
      /\ \A q \in Paths : repo'[q].commit \in 0 .. clock'
      /\ \A r : LockFits(r) => LockFits(r)'
      /\ \A c \in 0 .. clock : c \in 0 .. clock'
      /\ \A c \in 0 .. clock, q \in Paths : repo'[q].commit = c => repo'[q] = repo[q]
  BY CommitsKeep
<1>2. TypeOK'
  BY <1>1 DEF AInv, TypeOK, RepoTyped, Commits
<1>3. LocksHold'
  <2>1. \A r \in late' : LockFits(r)'
    BY <1>1 DEF AInv, LocksHold
  <2>2. sent' # None /\ sent'.verb \in Changing => LockFits(sent)'
    BY <1>1 DEF AInv, LocksHold, LockFits
  <2> QED BY <1>1, <2>1, <2>2 DEF LocksHold
<1>4. RepliesTell'
  <2>1. served # None /\ sent.verb = "get" => sent.at \in Paths
    BY UnderWay DEF AInv, TypeOK
  <2> QED BY <1>1, <2>1 DEF AInv, RepliesTell
<1>5. RequestsFit' /\ ChangesOnce' /\ PagesToCome' /\ DirsToCome'
  BY DEF AInv, RequestsFit, ChangesOnce, PagesToCome, DirsToCome
<1> QED BY <1>2, <1>3, <1>4, <1>5 DEF AInv

LEMMA ForeignKeepsAInv ==
    ASSUME AInv, NEW p \in Paths, NEW t \in File, Foreign(p, t)
    PROVE  AInv'
BY ServerKeepsAInv DEF Foreign, Commits, wire

\* A lock stands for what it stood for when the repository comes back.
LEMMA VanishKeepsAInv ==
    ASSUME AInv, Vanish
    PROVE  AInv'
<1>1. /\ gone' = ~gone /\ clock' = clock + 1 /\ clock < MaxCommits
      /\ UNCHANGED <<kind, repo, calls, call, answer, sent, turn, served, headers, late>>
  BY DEF Vanish, client, wire
<1>2. clock' \in 0 .. MaxCommits /\ \A c \in 0 .. clock : c \in 0 .. clock'
  BY <1>1, AdapterBounds DEF AInv, TypeOK
<1>3. TypeOK'
  BY <1>1, <1>2 DEF AInv, TypeOK
<1>4. \A r : LockFits(r) => LockFits(r)'
  BY <1>1, <1>2 DEF LockFits
<1>5. LocksHold'
  <2>1. sent' # None /\ sent'.verb \in Changing => LockFits(sent)'
    BY <1>1, <1>2 DEF AInv, LocksHold, LockFits
  <2> QED BY <1>1, <1>2, <1>4, <2>1 DEF AInv, LocksHold
<1>6. RepliesTell'
  BY <1>1, <1>2 DEF AInv, RepliesTell
<1>7. RequestsFit' /\ ChangesOnce' /\ PagesToCome' /\ DirsToCome'
  BY <1>1 DEF AInv, RequestsFit, ChangesOnce, PagesToCome, DirsToCome
<1> QED BY <1>3, <1>5, <1>6, <1>7 DEF AInv

LEMMA ServeLateKeepsAInv ==
    ASSUME AInv, NEW r \in late, ServeLate(r)
    PROVE  AInv'
<1>1. r \in Request /\ r.at \in Paths
  BY DEF AInv, TypeOK, LocksHold, LockFits
<1>2. CASE Takes(r)
  <2>1. r.text \in File
    BY <1>1 DEF Request
  <2>2. Commits(r.at, r.text)
    BY <1>2 DEF Takes, Commits
  <2> QED BY <1>1, <2>1, <2>2, ServerKeepsAInv DEF ServeLate
<1>3. CASE UNCHANGED server
  BY <1>3 DEF ServeLate, server, client, AInv, TypeOK, RequestsFit, ChangesOnce, LocksHold, LockFits,
              RepliesTell, PagesToCome, DirsToCome
<1> QED BY <1>2, <1>3 DEF ServeLate

LEMMA HeadersKeepAInv ==
    ASSUME AInv, HeadersArrive
    PROVE  AInv'
BY DEF HeadersArrive, server, client, AInv, TypeOK, RequestsFit, ChangesOnce, LocksHold, LockFits,
       RepliesTell, PagesToCome, DirsToCome

LEMMA TurnAwayKeepsAInv ==
    ASSUME AInv, NEW status \in {"unauthorized", "forbidden", "limited", "absent", "broken"},
           TurnAway(status)
    PROVE  AInv'
<1>1. /\ call \in Call /\ call # None /\ sent \in Request /\ RepoTyped /\ served = None
      /\ sent.verb \in {"get"} \cup Changing => sent.at \in Paths
  BY UnderWay DEF TurnAway
<1>2. /\ served' = Told(status, {}) /\ sent' = sent /\ late' = late /\ turn' = turn
      /\ UNCHANGED <<kind, server, calls, headers>>
      /\ call' = [call EXCEPT !.done = IF sent.verb \in Changing THEN "refused" ELSE @]
  BY DEF TurnAway
<1>3. served' \in Reply /\ served'.found = Nothing /\ served'.status = status
  BY <1>1, <1>2, ToldTyped, KeepTells DEF Told
<1>4. /\ call' \in Call /\ call'.op = call.op /\ call'.path = call.path /\ call'.text = call.text
      /\ call'.rev = call.rev /\ call'.todo = call.todo /\ call'.seen = call.seen
      /\ call'.done = IF sent.verb \in Changing THEN "refused" ELSE call.done
  BY <1>1, <1>2 DEF Call
<1>5. call' # None /\ served' # None
  BY <1>3, <1>4, NoneIsNothing
<1>6. TypeOK'
  BY <1>1, <1>2, <1>3, <1>4, <1>5 DEF AInv, TypeOK, server
<1>7. LocksHold'
  BY <1>2 DEF AInv, LocksHold, LockFits, server
<1>8. RequestsFit' /\ ChangesOnce'
  BY <1>1, <1>2, <1>4, <1>5 DEF AInv, RequestsFit, ChangesOnce
<1>9. RepliesTell'
  BY <1>1, <1>2, <1>3, <1>4, <1>5 DEF RepliesTell, Nothing, Changing
<1>10. PagesToCome' /\ DirsToCome'
  BY <1>1, <1>2, <1>3, <1>4 DEF AInv, PagesToCome, DirsToCome
<1> QED BY <1>6, <1>7, <1>8, <1>9, <1>10 DEF AInv

\* What a read has been told.
LEMMA ReadsTell ==
    ASSUME AInv, sent # None, served = None, sent.verb \notin Changing
    PROVE  LET reply == ReplyTo(sent)
           IN  /\ sent.verb = "get" =>
                     /\ \A p \in Paths : reply.found[p] # Unseen <=> p = sent.at
                     /\ reply.found[sent.at] = FilesOf[sent.at]
                     /\ reply.commit = repo[sent.at].commit
               /\ sent.verb \in {"repo", "branch"} => reply.found = Nothing
               /\ sent.verb \notin {"repo", "branch"} => reply.status \in {"ok", "missing"}
               /\ reply.status # "stale"
               /\ sent.verb = "page" =>
                     \E end \in Nat :
                        /\ \A p \in Paths : reply.found[p] # Unseen <=> sent.at < p /\ p <= end
                        /\ reply.more => end \in Paths /\ reply.found[end] \in Texts
                        /\ ~reply.more => \A p \in Paths : p <= end
               /\ sent.verb = "dir" =>
                     IF sent.at = None
                     THEN \A p \in Paths : reply.found[p] = Unseen <=> DirOf[p] \in reply.dirs
                     ELSE /\ reply.dirs = {}
                          /\ \A p \in Paths : reply.found[p] # Unseen <=> DirOf[p] = sent.at
               /\ \A p \in Paths : reply.found[p] # Unseen => reply.found[p] = FilesOf[p]
<1> DEFINE reply == ReplyTo(sent)
<1>1. /\ ReplyOf(sent) /\ RepoTyped /\ sent \in Request /\ call # None
      /\ sent.verb = "get" => sent.at \in Paths
  BY ReplyIs, UnderWay
<1>2. sent.verb \in {"repo", "branch", "get", "dir", "page"}
  BY <1>1 DEF Request
<1>3. CASE sent.verb \in {"repo", "branch"}
  <2>1. reply = Told("ok", {}) \/ reply = Told("absent", {})
    BY <1>1, <1>3 DEF ReplyOf, Unless404
  <2>2. reply.found = Nothing /\ reply.status \in {"ok", "absent"}
    BY <1>1, <2>1, KeepTells DEF Told
  <2> QED BY <1>3, <2>2 DEF Nothing
<1>4. CASE sent.verb = "get"
  <2>1. reply = [Told(Status({sent.at}), {sent.at}) EXCEPT !.commit = repo[sent.at].commit]
    BY <1>1, <1>4 DEF ReplyOf
  <2>2. /\ reply.found = Keep({sent.at}) /\ reply.status = Status({sent.at})
        /\ reply.commit = repo[sent.at].commit
    BY <2>1 DEF Told
  <2>3. Status({sent.at}) \in {"ok", "missing"}
    BY DEF Status
  <2>4. /\ \A p \in Paths : Keep({sent.at})[p] # Unseen <=> p \in {sent.at}
        /\ \A p \in Paths : Keep({sent.at})[p] # Unseen => Keep({sent.at})[p] = FilesOf[p]
    BY <1>1, KeepTells
  <2> HIDE DEF reply
  <2>5. reply.found[sent.at] = FilesOf[sent.at]
    BY <1>1, <1>4, <2>2, <2>4
  <2> QED BY <1>4, <2>2, <2>3, <2>4, <2>5 DEF reply
<1>5. CASE sent.verb = "page"
  <2>1. sent.at \in Nat
    BY <1>1, <1>5 DEF AInv, PagesToCome
  <2>2. reply = [Told(Status(PageOf(sent.at)), PageOf(sent.at)) EXCEPT !.more = MorePages(sent.at)]
    BY <1>1, <1>5 DEF ReplyOf
  <2>3. /\ reply.found = Keep(PageOf(sent.at)) /\ reply.status \in {"ok", "missing"}
        /\ reply.more = MorePages(sent.at)
    BY <2>2 DEF Told, Status
  <2>4. /\ \A p \in Paths : reply.found[p] # Unseen <=> p \in PageOf(sent.at)
        /\ \A p \in Paths : reply.found[p] # Unseen => reply.found[p] = FilesOf[p]
    BY <1>1, <2>3, KeepTells
  <2>5. PICK end \in Nat :
              /\ PageOf(sent.at) = {p \in Paths : sent.at < p /\ p <= end}
              /\ MorePages(sent.at) => end \in Paths /\ end > sent.at /\ FilesOf[end] # None
              /\ ~MorePages(sent.at) => \A p \in Paths : p <= end
    BY <1>1, <2>1, PageReaches
  <2>6. \A p \in Paths : FilesOf[p] \in File
    BY <1>1, FilesTyped
  <2> HIDE DEF reply
  <2>7. \A p \in Paths : reply.found[p] # Unseen <=> sent.at < p /\ p <= end
    BY <2>4, <2>5
  <2>8. reply.more => end \in Paths /\ reply.found[end] \in Texts
    <3>1. SUFFICES ASSUME reply.more PROVE end \in Paths /\ reply.found[end] \in Texts
      OBVIOUS
    <3>2. end \in Paths /\ end > sent.at /\ FilesOf[end] # None /\ end <= end
      BY <2>3, <2>5, <3>1
    <3>3. reply.found[end] = FilesOf[end]
      BY <2>1, <2>4, <2>7, <3>2
    <3> QED BY <2>6, <3>2, <3>3 DEF File
  <2> QED BY <1>5, <2>3, <2>4, <2>5, <2>7, <2>8 DEF reply
<1>6. CASE sent.verb = "dir" /\ sent.at = None
  <2>1. reply = [Told(Status(Paths), {p \in Paths : DirOf[p] = None \/ EmptyDir(DirOf[p])})
                 EXCEPT !.dirs = {d \in Dirs : ~EmptyDir(d)}]
    BY <1>1, <1>6 DEF ReplyOf
  <2>2. /\ reply.found = Keep({p \in Paths : DirOf[p] = None \/ EmptyDir(DirOf[p])})
        /\ reply.status \in {"ok", "missing"} /\ reply.dirs = {d \in Dirs : ~EmptyDir(d)}
    BY <2>1 DEF Told, Status
  <2>3. /\ \A p \in Paths : reply.found[p] # Unseen <=>
              p \in {q \in Paths : DirOf[q] = None \/ EmptyDir(DirOf[q])}
        /\ \A p \in Paths : reply.found[p] # Unseen => reply.found[p] = FilesOf[p]
    BY <1>1, <2>2, KeepTells
  <2> HIDE DEF reply
  <2>4. \A p \in Paths : reply.found[p] = Unseen <=> DirOf[p] \in reply.dirs
    BY <2>2, <2>3 DEF Dirs
  <2> QED BY <1>6, <2>2, <2>3, <2>4 DEF reply
<1>7. CASE sent.verb = "dir" /\ sent.at # None
  <2>1. PICK status \in {"ok", "missing"} : reply = Told(status, {p \in Paths : DirOf[p] = sent.at})
    BY <1>1, <1>7 DEF ReplyOf, Status
  <2>2. /\ reply.found = Keep({p \in Paths : DirOf[p] = sent.at})
        /\ reply.status \in {"ok", "missing"} /\ reply.dirs = {}
    BY <2>1 DEF Told
  <2>3. /\ \A p \in Paths : reply.found[p] # Unseen <=> p \in {q \in Paths : DirOf[q] = sent.at}
        /\ \A p \in Paths : reply.found[p] # Unseen => reply.found[p] = FilesOf[p]
    BY <1>1, <2>2, KeepTells
  <2> HIDE DEF reply
  <2> QED BY <1>7, <2>2, <2>3 DEF reply
<1> QED BY <1>2, <1>3, <1>4, <1>5, <1>6, <1>7

\* What a change has been told, by the server or by a proxy.
LEMMA ChangesTell ==
    ASSUME AInv, sent # None, served = None, sent.verb \in Changing,
           NEW reply,
           \/ reply = ReplyTo(sent)
           \/ reply = [ReplyTo(sent) EXCEPT !.status = "broken"]
    PROVE  /\ reply \in Reply
           /\ \A p \in Paths : reply.found[p] # Unseen => p = sent.at /\ reply.found[p] = None
           /\ reply.found[sent.at] # Unseen =>
                 sent.verb = "delete" /\ ~Allowed(sent) /\ FilesOf[sent.at] = None
           /\ reply.status = "ok" => Allowed(sent)
           /\ reply.status = "stale" => ~Allowed(sent)
           /\ reply.status = "missing" => sent.verb = "delete" /\ reply.found[sent.at] = None
<1>1. /\ ReplyOf(sent) /\ RepoTyped /\ sent \in Request /\ call # None /\ sent.at \in Paths
      /\ LockFits(sent)
      /\ sent.verb = "delete" => sent.expect # None
  BY ReplyIs, UnderWay DEF AInv, LocksHold, RequestsFit
<1>2. Allowed(sent) => ~gone /\ repo[sent.at].text = sent.expect
  BY <1>1, AllowedMeans DEF Allowed
<1> DEFINE truth == ReplyTo(sent)
<1>3. truth \in Reply
  BY <1>1, ReplyTyped
<1>4. /\ reply \in Reply /\ reply.found = truth.found
      /\ reply.status = truth.status \/ reply.status = "broken"
  BY <1>3 DEF Reply
<1>5. CASE \/ truth = Told(IF Allowed(sent) THEN "ok" ELSE "stale", {})
           \/ truth = Told("absent", {})
  <2>1. /\ truth.found = Nothing
        /\ truth.status \in {IF Allowed(sent) THEN "ok" ELSE "stale", "absent"}
    BY <1>1, <1>5, KeepTells DEF Told
  <2> HIDE DEF truth
  <2> QED BY <1>1, <1>4, <2>1 DEF Nothing
<1>6. CASE sent.verb = "delete" /\ FilesOf[sent.at] = None /\ truth = Told("missing", {sent.at})
  <2>1. truth.found = Keep({sent.at}) /\ truth.status = "missing"
    BY <1>6 DEF Told
  <2>2. /\ \A p \in Paths : truth.found[p] # Unseen <=> p \in {sent.at}
        /\ \A p \in Paths : truth.found[p] # Unseen => truth.found[p] = FilesOf[p]
    BY <1>1, <2>1, KeepTells
  <2> HIDE DEF truth
  <2>3. ~Allowed(sent)
    BY <1>1, <1>2, <1>6 DEF FilesOf
  <2> QED BY <1>1, <1>4, <1>6, <2>1, <2>2, <2>3
<1>7. sent.verb = "put" \/ sent.verb = "delete"
  BY DEF Changing
<1> QED BY <1>1, <1>5, <1>6, <1>7 DEF ReplyOf, Unless404

LEMMA ServeKeepsAInv ==
    ASSUME AInv, Serve
    PROVE  AInv'
<1>1. /\ call # None /\ call \in Call /\ sent # None /\ sent \in Request /\ RepoTyped /\ served = None
      /\ sent.verb \in {"get"} \cup Changing => sent.at \in Paths
      /\ UNCHANGED <<kind, calls, answer, sent, turn, headers, late>>
  BY UnderWay DEF Serve
<1>2. CASE sent.verb \notin Changing
  <2>1. /\ served' = ReplyTo(sent) /\ UNCHANGED <<repo, gone, clock, call>>
        /\ served' \in Reply /\ served' # None
    BY <1>1, <1>2, ReplyTyped, NoneIsNothing DEF Serve, server
  <2>2. TypeOK'
    BY <1>1, <2>1 DEF AInv, TypeOK
  <2>3. RequestsFit' /\ ChangesOnce' /\ LocksHold'
    BY <1>1, <1>2, <2>1 DEF AInv, RequestsFit, ChangesOnce, LocksHold, LockFits
  <2>4. RepliesTell'
    BY <1>1, <1>2, <2>1, ReadsTell DEF AInv, LocksHold, RepliesTell, FilesOf
  <2>5. PagesToCome'
    BY <1>1, <1>2, <2>1, ReadsTell DEF AInv, PagesToCome
  <2>6. DirsToCome'
    BY <1>1, <1>2, <2>1, ReadsTell DEF AInv, DirsToCome
  <2> QED BY <2>2, <2>3, <2>4, <2>5, <2>6 DEF AInv
<1>3. CASE sent.verb \in Changing
  <2>1. /\ served' = ReplyTo(sent) \/ served' = [ReplyTo(sent) EXCEPT !.status = "broken"]
        /\ \/ Takes(sent) /\ call' = [call EXCEPT !.done = "applied"]
           \/ ~Allowed(sent) /\ call' = [call EXCEPT !.done = "refused"] /\ UNCHANGED server
    BY <1>3 DEF Serve
  <2>2. /\ served' \in Reply
        /\ \A p \in Paths : served'.found[p] # Unseen => p = sent.at /\ served'.found[p] = None
        /\ served'.found[sent.at] # Unseen =>
              sent.verb = "delete" /\ ~Allowed(sent) /\ FilesOf[sent.at] = None
        /\ served'.status = "ok" => Allowed(sent)
        /\ served'.status = "stale" => ~Allowed(sent)
        /\ served'.status = "missing" => sent.verb = "delete" /\ served'.found[sent.at] = None
    BY <1>1, <1>3, <2>1, ChangesTell
  <2>3. /\ call' \in Call /\ call'.op = call.op /\ call'.path = call.path /\ call'.text = call.text
        /\ call'.rev = call.rev /\ call'.todo = call.todo /\ call'.seen = call.seen
        /\ call'.done = IF Allowed(sent) THEN "applied" ELSE "refused"
        /\ gone' = gone
    BY <1>1, <2>1 DEF Call, Takes, server
  <2>4. call' # None /\ served' # None
    BY <2>2, <2>3, NoneIsNothing
  <2>5. /\ RepoTyped' /\ clock' \in 0 .. MaxCommits
        /\ \A q \in Paths : repo'[q].commit \in 0 .. clock'
        /\ \A r : LockFits(r) => LockFits(r)'
    <3>1. CASE Takes(sent)
      <4>1. sent.at \in Paths /\ sent.text \in File
        BY <1>1, <1>3 DEF Request
      <4>2. Commits(sent.at, sent.text)
        BY <3>1 DEF Takes, Commits
      <4> QED BY <1>1, <4>1, <4>2, CommitsKeep
    <3>2. CASE UNCHANGED server
      BY <1>1, <3>2 DEF server, AInv, TypeOK, RepoTyped, LocksHold, LockFits
    <3> QED BY <2>1, <3>1, <3>2
  <2>6. TypeOK'
    BY <1>1, <2>2, <2>3, <2>4, <2>5 DEF AInv, TypeOK, RepoTyped
  <2>7. RequestsFit' /\ ChangesOnce'
    BY <1>1, <1>3, <2>3, <2>4 DEF AInv, RequestsFit, ChangesOnce
  <2>8. LocksHold'
    <3>1. \A r \in late' : LockFits(r)'
      BY <1>1, <2>5 DEF AInv, LocksHold
    <3>2. sent' # None /\ sent'.verb \in Changing => LockFits(sent)'
      BY <1>1, <2>5 DEF AInv, LocksHold, LockFits
    <3> QED BY <2>5, <3>1, <3>2 DEF LocksHold
  <2>9. RepliesTell'
    BY <1>1, <1>3, <2>2, <2>3 DEF RepliesTell, Changing
  <2>10. PagesToCome' /\ DirsToCome'
    BY <1>1, <1>3 DEF PagesToCome, DirsToCome, Changing
  <2> QED BY <2>6, <2>7, <2>8, <2>9, <2>10 DEF AInv
<1> QED BY <1>2, <1>3

\* A reply that is there to be read.
LEMMA Read ==
    ASSUME AInv, NEW verb, NEW statuses, Answered(verb, statuses)
    PROVE  /\ sent # None /\ served # None /\ sent.verb = verb /\ served.status \in statuses
           /\ UNCHANGED <<kind, server>>
           /\ served.found \in [Paths -> File \cup {Unseen}] /\ served.dirs \in SUBSET Dirs
           /\ Found \in [Paths -> File \cup {Unseen}]
           /\ \A p \in Paths : Found[p] = IF served.found[p] # Unseen THEN served.found[p]
                                          ELSE call.seen[p]
<1>1. /\ sent # None /\ served # None /\ sent.verb = verb /\ served.status \in statuses
      /\ UNCHANGED <<kind, server>>
  BY DEF Answered, AInv, TypeOK
<1>2. served \in Reply /\ call.seen \in [Paths -> File \cup {Unseen}]
  BY <1>1, UnderWay
<1>3. served.found \in [Paths -> File \cup {Unseen}] /\ served.dirs \in SUBSET Dirs
  BY <1>2 DEF Reply
<1> QED BY <1>1, <1>2, <1>3 DEF Found

\* The call with what its replies have found.
LEMMA FoundTyped ==
    ASSUME AInv, sent # None, Found \in [Paths -> File \cup {Unseen}], NEW T \in SUBSET Dirs
    PROVE  /\ [call EXCEPT !.seen = Found] \in Call
           /\ [call EXCEPT !.seen = Found, !.todo = T] \in Call
BY UnderWay DEF Call

\* When a directory was told, the files not found are those of the directories
\* still to be listed.
LEMMA DirsLeft ==
    ASSUME AInv, Answered("dir", {"ok", "missing"})
    PROVE  \A p \in Paths : Found[p] = Unseen <=> DirOf[p] \in call.todo \cup served.dirs
<1>1. /\ sent # None /\ served # None /\ sent.verb = "dir" /\ served.status \in {"ok", "missing"} /\ call # None
      /\ \A p \in Paths : Found[p] = IF served.found[p] # Unseen THEN served.found[p]
                                     ELSE call.seen[p]
  BY Read, UnderWay
<1>2. DirsToCome
  BY DEF AInv
<1>3. CASE sent.at = None
  <2>1. /\ call.seen = Nothing /\ call.todo = {}
        /\ \A p \in Paths : served.found[p] = Unseen <=> DirOf[p] \in served.dirs
    BY <1>1, <1>2, <1>3 DEF DirsToCome
  <2> QED BY <1>1, <2>1 DEF Nothing
<1>4. CASE sent.at # None
  <2>1. /\ sent.at \notin call.todo
        /\ \A p \in Paths : call.seen[p] = Unseen <=> DirOf[p] \in call.todo \cup {sent.at}
        /\ served.dirs = {}
        /\ \A p \in Paths : served.found[p] # Unseen <=> DirOf[p] = sent.at
    BY <1>1, <1>2, <1>4 DEF DirsToCome
  <2> QED BY <1>1, <2>1
<1> QED BY <1>3, <1>4

\* When a page was told, the files not found are those after its last file, or
\* none if there is no next page.
LEMMA PagesLeft ==
    ASSUME AInv, Answered("page", {"ok", "missing"})
    PROVE  /\ served.more => LastShown \in Paths /\ \A p \in Paths : Found[p] = Unseen <=> p > LastShown
           /\ ~served.more => \A p \in Paths : Found[p] # Unseen
<1>1. /\ sent # None /\ served # None /\ sent.verb = "page" /\ served.status \in {"ok", "missing"} /\ call # None
      /\ \A p \in Paths : Found[p] = IF served.found[p] # Unseen THEN served.found[p]
                                     ELSE call.seen[p]
  BY Read, UnderWay
<1>2. /\ sent.at \in Nat /\ \A p \in Paths : call.seen[p] = Unseen <=> p > sent.at
  BY <1>1 DEF AInv, PagesToCome
<1>3. PICK end \in Nat :
             /\ \A p \in Paths : served.found[p] # Unseen <=> sent.at < p /\ p <= end
             /\ served.more => end \in Paths /\ served.found[end] \in Texts
             /\ ~served.more => \A p \in Paths : p <= end
  BY <1>1 DEF AInv, PagesToCome
<1>4. \A p \in Paths : p \in Nat
  BY PathsOrdered
<1>5. ASSUME NEW p \in Paths PROVE Found[p] = Unseen <=> p > sent.at /\ p > end
  BY <1>1, <1>2, <1>3, <1>4
<1>6. CASE served.more
  <2>1. end \in Paths /\ served.found[end] \in Texts /\ sent.at < end
    BY <1>3, <1>6, SentinelsApart
  <2>2. \A q \in Paths : served.found[q] \in Texts => q <= end
    BY <1>3, SentinelsApart
  <2>3. \A p \in Paths :
          /\ served.found[p] \in Texts
          /\ \A q \in Paths : served.found[q] \in Texts => q <= p
          => p = end
    BY <1>4, <2>1, <2>2
  <2>4. LastShown = end
    BY <2>1, <2>2, <2>3 DEF LastShown
  <2>5. \A p \in Paths : Found[p] = Unseen <=> p > end
    BY <1>2, <1>4, <1>5, <2>1
  <2> QED BY <1>6, <2>1, <2>4, <2>5
<1>7. CASE ~served.more
  BY <1>3, <1>4, <1>5, <1>7
<1> QED BY <1>6, <1>7
-----------------------------------------------------------------------------
LEMMA OpenKeepsAInv ==
    ASSUME AInv, open
    PROVE  AInv'
<1>1. CASE Answered("repo", {"ok"}) /\ GoOn(Get("branch", None))
  <2>1. /\ sent # None /\ sent.verb = "repo" /\ UNCHANGED <<kind, server>>
        /\ Found \in [Paths -> File \cup {Unseen}]
    BY <1>1, Read
  <2>2. /\ call' \in Call /\ call' # None /\ call'.op = call.op /\ call'.path = call.path
        /\ call'.text = call.text /\ call'.rev = call.rev /\ call'.done = call.done
    BY <1>1, <2>1, FoundTyped, UnderWay, NoneIsNothing DEF GoOn, Call
  <2>3. Get("branch", None) \in Request /\ Get("branch", None).verb = "branch"
    BY GetTyped DEF Get
  <2>4. /\ Send(Get("branch", None)) /\ calls' \in 0 .. MaxCalls /\ sent' = Get("branch", None)
        /\ call # None
    BY <1>1, <2>1, UnderWay DEF GoOn, Send, AInv, TypeOK
  <2>5. RequestsFit' /\ ChangesOnce'
    BY <2>1, <2>2, <2>3, <2>4 DEF AInv, RequestsFit, ChangesOnce, Changing
  <2> HIDE DEF Answered
  <2> QED BY <2>1, <2>2, <2>3, <2>4, <2>5, SendKeepsAInv DEF Changing
<1>2. CASE Answered("branch", {"ok"}) /\ Finish
  BY <1>2, Read, OverKeepsAInv DEF Finish
<1>3. CASE (Answered("repo", {"absent"}) \/ Answered("branch", {"absent"})) /\ Throw("absent")
  BY <1>3, Read, OverKeepsAInv DEF Throw
<1> QED BY <1>1, <1>2, <1>3 DEF open

LEMMA CollectDirKeepsAInv ==
    ASSUME AInv, collectDir
    PROVE  AInv'
<1> DEFINE todo == call.todo \cup served.dirs
<1>1. /\ Answered("dir", {"ok", "missing"}) /\ sent # None /\ sent.verb = "dir" /\ UNCHANGED <<kind, server>>
      /\ Found \in [Paths -> File \cup {Unseen}] /\ todo \in SUBSET Dirs
      /\ call # None /\ calls \in 0 .. MaxCalls
  BY Read, UnderWay DEF collectDir, AInv, TypeOK
<1>2. CASE todo = {}
  <2>1. Finish
    BY <1>2 DEF collectDir
  <2> QED BY <1>1, <2>1, OverKeepsAInv DEF Finish
<1>3. CASE todo # {}
  <2>1. PICK d \in todo : /\ call' = [call EXCEPT !.seen = Found, !.todo = todo \ {d}]
                          /\ Send(Get("dir", d)) /\ UNCHANGED <<calls, answer>>
    BY <1>3 DEF collectDir
  <2>2. \A p \in Paths : Found[p] = Unseen <=> DirOf[p] \in todo
    BY <1>1, DirsLeft
  <2> HIDE DEF todo
  <2>3. /\ call' \in Call /\ call' # None /\ call'.op = call.op /\ call'.path = call.path
        /\ call'.text = call.text /\ call'.rev = call.rev /\ call'.done = call.done
        /\ call'.seen = Found /\ call'.todo = todo \ {d}
    BY <1>1, <2>1, FoundTyped, UnderWay, NoneIsNothing DEF Call
  <2>4. d \in Dirs /\ d # None
    BY <1>1 DEF Dirs
  <2>5. Get("dir", d) \in Request /\ Get("dir", d).verb = "dir" /\ Get("dir", d).at = d
    BY <2>4, GetTyped DEF Get
  <2>6. sent' = Get("dir", d)
    BY <2>1 DEF Send
  <2>7. RequestsFit' /\ ChangesOnce'
    BY <1>1, <2>3, <2>5, <2>6 DEF AInv, RequestsFit, ChangesOnce, Changing
  <2>8. \A p \in Paths : call'.seen[p] = Unseen <=> DirOf[p] \in call'.todo \cup {d}
    BY <2>2, <2>3
  <2> QED BY <1>1, <2>1, <2>3, <2>4, <2>5, <2>7, <2>8, SendKeepsAInv DEF Changing
<1> QED BY <1>2, <1>3

LEMMA CollectPageKeepsAInv ==
    ASSUME AInv, collectPage
    PROVE  AInv'
<1>1. /\ Answered("page", {"ok", "missing"}) /\ sent # None /\ sent.verb = "page" /\ UNCHANGED <<kind, server>>
      /\ Found \in [Paths -> File \cup {Unseen}] /\ call # None /\ calls \in 0 .. MaxCalls
  BY Read, UnderWay DEF collectPage, AInv, TypeOK
<1>2. CASE ~served.more
  <2>1. Finish
    BY <1>2 DEF collectPage
  <2> QED BY <1>1, <2>1, OverKeepsAInv DEF Finish
<1>3. CASE served.more
  <2>1. GoOn(Get("page", LastShown))
    BY <1>3 DEF collectPage
  <2>2. LastShown \in Paths /\ \A p \in Paths : Found[p] = Unseen <=> p > LastShown
    BY <1>1, <1>3, PagesLeft
  <2>3. /\ call' \in Call /\ call' # None /\ call'.op = call.op /\ call'.path = call.path
        /\ call'.text = call.text /\ call'.rev = call.rev /\ call'.done = call.done
        /\ call'.seen = Found
    BY <1>1, <2>1, FoundTyped, UnderWay, NoneIsNothing DEF GoOn, Call
  <2> DEFINE request == Get("page", LastShown)
  <2>4. request \in Request /\ request.verb = "page" /\ request.at = LastShown
    BY <2>2, GetTyped DEF Get
  <2>5. Send(request) /\ sent' = request /\ calls' \in 0 .. MaxCalls
    BY <1>1, <2>1 DEF GoOn, Send
  <2> HIDE DEF request
  <2>6. RequestsFit' /\ ChangesOnce'
    BY <1>1, <2>3, <2>4, <2>5 DEF AInv, RequestsFit, ChangesOnce, Changing
  <2>7. request.at \in Nat /\ \A p \in Paths : call'.seen[p] = Unseen <=> p > request.at
    BY <2>2, <2>3, <2>4, PathsOrdered
  <2> QED BY <1>1, <2>3, <2>4, <2>5, <2>6, <2>7, SendKeepsAInv DEF Changing
<1> QED BY <1>2, <1>3

\* What assertUnchanged and the reads of a deletion have before them.
LEMMA FileRead ==
    ASSUME AInv, call # None, call.op \in {"write", "delete"}, call.done = "no",
           Answered("get", {"ok", "missing"})
    PROVE  /\ sent.at = call.path /\ call.path \in Paths
           /\ served.found[call.path] \in File
           /\ Found[call.path] = served.found[call.path]
           /\ served.commit \in 0 .. clock /\ served.commit \in 0 .. MaxCommits
           /\ served.found[call.path] # None /\ repo[call.path].commit = served.commit =>
                 repo[call.path].text = served.found[call.path]
           /\ call.op = "write" => call.rev # None
<1>1. /\ sent # None /\ served # None /\ sent.verb = "get" /\ served.status \in {"ok", "missing"}
      /\ served.found \in [Paths -> File \cup {Unseen}]
      /\ \A p \in Paths : Found[p] = IF served.found[p] # Unseen THEN served.found[p] ELSE call.seen[p]
  BY Read
<1>2. /\ sent.at = call.path /\ call.path \in Paths /\ served \in Reply
      /\ call.op = "write" => call.rev # None
  BY <1>1, UnderWay DEF AInv, RequestsFit, ChangesOnce
<1>3. /\ \A p \in Paths : served.found[p] # Unseen <=> p = sent.at
      /\ served.commit \in 0 .. clock
      /\ served.found[sent.at] # None /\ repo[sent.at].commit = served.commit =>
            repo[sent.at].text = served.found[sent.at]
  BY <1>1 DEF AInv, RepliesTell
<1>4. served.commit \in 0 .. MaxCommits
  BY <1>2 DEF Reply
<1> QED BY <1>1, <1>2, <1>3, <1>4

LEMMA AssertUnchangedKeepsAInv ==
    ASSUME AInv, assertUnchanged
    PROVE  AInv'
<1> DEFINE now == served.found[call.path]
           lock == IF kind = "git" THEN now ELSE served.commit
           request == Change(call, lock, now)
<1>1. /\ call # None /\ call.op \in {"write", "delete"} /\ call.done = "no"
      /\ Answered("get", {"ok", "missing"}) /\ sent # None /\ UNCHANGED <<kind, server>>
      /\ Found \in [Paths -> File \cup {Unseen}] /\ calls \in 0 .. MaxCalls
  BY Read DEF assertUnchanged, AInv, TypeOK
<1>2. \/ Finish \/ Throw("mismatch")
      \/ now # None /\ call.rev \in {None, now} /\ GoOn(request)
  BY DEF assertUnchanged
<1>3. CASE Finish \/ Throw("mismatch")
  BY <1>1, <1>3, OverKeepsAInv DEF Finish, Throw
<1>4. CASE now # None /\ call.rev \in {None, now} /\ GoOn(request)
  <2>1. /\ call' \in Call /\ call' # None /\ call'.op = call.op /\ call'.path = call.path
        /\ call'.text = call.text /\ call'.rev = call.rev /\ call'.done = call.done
    BY <1>1, <1>4, FoundTyped, UnderWay, NoneIsNothing DEF GoOn, Call
  <2>2. /\ now \in File /\ call \in Call /\ call.path \in Paths
        /\ served.commit \in 0 .. clock /\ served.commit \in 0 .. MaxCommits
        /\ now # None /\ repo[call.path].commit = served.commit => repo[call.path].text = now
        /\ call.op = "write" => call.rev # None
    BY <1>1, FileRead, UnderWay
  <2>3. request \in Request
    BY <2>2, ChangeTyped
  <2>4. /\ request.verb = (IF call.op = "write" THEN "put" ELSE "delete") /\ request.at = call.path
        /\ request.text = call.text /\ request.lock = lock /\ request.expect = now
    BY DEF Change
  <2>5. Send(request) /\ sent' = request /\ served' = None /\ calls' \in 0 .. MaxCalls
    BY <1>1, <1>4 DEF GoOn, Send
  <2> HIDE DEF request
  <2>6. LockFits(request)
    <3>1. request.verb \in Changing /\ request.at \in Paths /\ request.expect # None
      BY <1>1, <1>4, <2>2, <2>4 DEF Changing
    <3>2. CASE kind = "git"
      BY <2>4, <3>1, <3>2 DEF LockFits
    <3>3. CASE kind # "git"
      <4>1. lock = served.commit /\ lock \in 0 .. clock /\ lock # None
        BY <2>2, <3>3, SentinelsApart
      <4>2. repo[request.at].commit = request.lock => repo[request.at].text = request.expect
        BY <1>4, <2>2, <2>4, <4>1
      <4> QED BY <2>4, <3>1, <3>3, <4>1, <4>2 DEF LockFits
    <3> QED BY <3>2, <3>3
  <2>7. RequestsFit' /\ ChangesOnce'
    BY <1>1, <1>4, <2>1, <2>2, <2>4, <2>5 DEF AInv, RequestsFit, ChangesOnce, Changing
  <2>8. request.verb \notin {"page", "dir"}
    BY <2>4
  <2> QED BY <1>1, <2>1, <2>3, <2>5, <2>6, <2>7, <2>8, SendKeepsAInv
<1> QED BY <1>2, <1>3, <1>4

LEMMA WrittenKeepsAInv ==
    ASSUME AInv, Written
    PROVE  AInv'
<1>1. /\ sent # None /\ served # None /\ sent.verb = "put" /\ served.status = "ok"
      /\ UNCHANGED <<kind, server>> /\ call # None
      /\ Found \in [Paths -> File \cup {Unseen}] /\ calls \in 0 .. MaxCalls
  BY Read, UnderWay DEF Written, AInv, TypeOK
<1>2. CASE kind = "git"
  BY <1>1, <1>2, OverKeepsAInv DEF Written
<1>3. CASE kind # "git"
  <2> DEFINE request == Get("get", call.path)
  <2>1. GoOn(request)
    BY <1>3 DEF Written
  <2>2. /\ call' \in Call /\ call' # None /\ call'.op = call.op /\ call'.path = call.path
        /\ call'.text = call.text /\ call'.rev = call.rev /\ call'.done = call.done
    BY <1>1, <2>1, FoundTyped, UnderWay, NoneIsNothing DEF GoOn, Call
  <2>3. request \in Request /\ request.verb = "get" /\ request.at = call.path
    BY <1>1, UnderWay, GetTyped DEF Get
  <2>4. Send(request) /\ sent' = request /\ calls' \in 0 .. MaxCalls
    BY <1>1, <2>1 DEF GoOn, Send
  <2> HIDE DEF request
  <2>5. call.done = "applied" /\ call.op = "write"
    BY <1>1 DEF AInv, RepliesTell, RequestsFit, Changing
  <2>6. RequestsFit' /\ ChangesOnce'
    BY <1>1, <2>2, <2>3, <2>4, <2>5 DEF AInv, RequestsFit, ChangesOnce, Changing
  <2> QED BY <1>1, <2>2, <2>3, <2>4, <2>6, SendKeepsAInv DEF Changing
<1> QED BY <1>2, <1>3

LEMMA ReceiveKeepsAInv == AInv /\ Receive => AInv'
<1> SUFFICES ASSUME AInv, Receive PROVE AInv'
  OBVIOUS
<1>1. CASE readOne
  BY <1>1, Read, OverKeepsAInv DEF readOne, Finish
<1>2. CASE Deleted
  BY <1>2, Read, OverKeepsAInv DEF Deleted
<1>3. CASE failIfResponseDoes
  <2>1. PICK verb, statuses : Answered(verb, statuses) /\ Throw(Code(verb, served.status))
    BY <1>3 DEF failIfResponseDoes
  <2> QED BY <2>1, Read, OverKeepsAInv DEF Throw
<1> QED BY <1>1, <1>2, <1>3, OpenKeepsAInv, CollectDirKeepsAInv, CollectPageKeepsAInv,
           AssertUnchangedKeepsAInv, WrittenKeepsAInv DEF Receive

LEMMA NextKeepsAInv == AInv /\ [Next]_vars => AInv'
<1> SUFFICES ASSUME AInv, [Next]_vars PROVE AInv'
  OBVIOUS
<1>1. CASE TimesOut
  BY <1>1, OverKeepsAInv DEF TimesOut
<1>2. CASE UNCHANGED vars
  BY <1>2 DEF vars, server, client, wire, AInv, TypeOK, RequestsFit, ChangesOnce, LocksHold, LockFits,
              RepliesTell, PagesToCome, DirsToCome
<1> QED BY <1>1, <1>2, BeginKeepsAInv, ServeKeepsAInv, HeadersKeepAInv, TurnAwayKeepsAInv,
           ServeLateKeepsAInv, ForeignKeepsAInv, VanishKeepsAInv, ReceiveKeepsAInv DEF Next

\* Every variable of the adapters, of the server and of the wire has its type,
\* and a request is under way exactly during a call.
THEOREM AdapterTyped == Spec => []TypeOK
<1>1. AInv => TypeOK
  BY DEF AInv
<1> QED BY <1>1, InitAInv, NextKeepsAInv, PTL DEF Spec
-----------------------------------------------------------------------------
(* The store that the calls implement *)

SeenAt(p) == IF served # None /\ served.found[p] # Unseen THEN served.found[p]
             ELSE IF call.done = "applied" /\ p = call.path THEN call.text ELSE call.seen[p]
SentOf == IF sent.verb \in Changing THEN EffectOf(sent)
          ELSE IF call.done = "applied"
          THEN [path |-> call.path, expect |-> call.rev, text |-> call.text]
          ELSE None

\* What the store makes of a call.
CallMapped == call # None =>
    /\ CallOf \in Store!CallRec /\ CallOf # None
    /\ CallOf.op = call.op /\ CallOf.path = call.path /\ CallOf.text = call.text
    /\ CallOf.rev = call.rev /\ CallOf.done = call.done /\ CallOf.sent = SentOf
    /\ CallOf.seen \in [Paths -> File \cup {Unseen}] /\ \A p \in Paths : CallOf.seen[p] = SeenAt(p)
    /\ sent.verb \in Changing => EffectOf(sent) # None /\ Store!Asks(CallOf, EffectOf(sent))

LEMMA EffectTyped ==
    ASSUME NEW r \in Request, r.at \in Paths
    PROVE  EffectOf(r) \in Store!Effect /\ EffectOf(r) # None
<1>1. r.text \in File /\ r.expect \in File
  BY DEF Request
<1>2. EffectOf(r) \in Store!Effect
  BY <1>1 DEF EffectOf, Store!Effect, Store!File, File
<1> QED BY <1>2, NoneIsNothing

LEMMA CallIsMapped == AInv => CallMapped
<1> SUFFICES ASSUME AInv, call # None PROVE CallMapped
  BY DEF CallMapped
<1>1. sent # None
  BY DEF AInv, TypeOK
<1>2. /\ call \in Call /\ sent \in Request /\ call.path \in Paths /\ call.text \in File
      /\ call.rev \in File /\ call.seen \in [Paths -> File \cup {Unseen}]
      /\ served # None => served.found \in [Paths -> File \cup {Unseen}]
      /\ sent.verb \in Changing => sent.at \in Paths
  BY <1>1, UnderWay DEF Reply
<1>3. call.op \in Ops /\ call.done \in {"no", "applied", "refused"}
  BY <1>2 DEF Call
<1>4. SeenOf \in [Paths -> File \cup {Unseen}] /\ \A p \in Paths : SeenOf[p] = SeenAt(p)
  BY <1>2 DEF SeenOf, SeenAt
<1>5. sent.verb \in Changing => EffectOf(sent) \in Store!Effect /\ EffectOf(sent) # None
  BY <1>2, EffectTyped
<1>6. SentOf \in Store!Effect \cup {None}
  BY <1>2, <1>5 DEF SentOf, Store!Effect, Store!File, File
<1>7. CallOf = [op |-> call.op, path |-> call.path, text |-> call.text, rev |-> call.rev,
                sent |-> SentOf, done |-> call.done, seen |-> SeenOf]
  BY DEF CallOf, SentOf
<1>8. CallOf \in Store!CallRec
  BY <1>2, <1>3, <1>4, <1>6, <1>7 DEF Store!CallRec, Store!Ops, Store!File, Ops, File
<1>9. CallOf # None
  BY <1>8, NoneIsNothing
<1>10. /\ CallOf.op = call.op /\ CallOf.path = call.path /\ CallOf.text = call.text
       /\ CallOf.rev = call.rev /\ CallOf.done = call.done /\ CallOf.sent = SentOf
       /\ CallOf.seen = SeenOf
  BY <1>7
<1>11. sent.verb \in Changing => Store!Asks(CallOf, EffectOf(sent))
  BY <1>10 DEF AInv, RequestsFit, Changing, EffectOf, Store!Asks
<1> QED BY <1>4, <1>5, <1>8, <1>9, <1>10, <1>11 DEF CallMapped

LEMMA CallIsMappedNext == AInv' => CallMapped'
BY CallIsMapped, PTL

\* Two calls of the store are the same when their fields are.
LEMMA SameCall ==
    ASSUME NEW c \in Store!CallRec, NEW d \in Store!CallRec,
           c.op = d.op, c.path = d.path, c.text = d.text, c.rev = d.rev,
           c.sent = d.sent, c.done = d.done, \A p \in Paths : c.seen[p] = d.seen[p]
    PROVE  c = d
<1>1. c.seen = d.seen
  BY DEF Store!CallRec
<1> QED BY <1>1 DEF Store!CallRec

LEMMA CallExcept ==
    ASSUME NEW c \in Store!CallRec, NEW e \in Store!Effect \cup {None},
           NEW d \in {"no", "applied", "refused"}, NEW s \in [Paths -> File \cup {Unseen}]
    PROVE  /\ [c EXCEPT !.sent = e] \in Store!CallRec
           /\ [c EXCEPT !.seen = s] \in Store!CallRec
           /\ [c EXCEPT !.done = d, !.seen = s] \in Store!CallRec
           /\ [c EXCEPT !.sent = e, !.done = d, !.seen = s] \in Store!CallRec
BY DEF Store!CallRec, Store!File, File

\* What changes of a call under way is what it asks for, what has become of
\* that, and what it has found.
LEMMA CallMoves ==
    ASSUME AInv, AInv', call # None, call' # None, call'.op = call.op, call'.path = call.path,
           call'.text = call.text, call'.rev = call.rev
    PROVE  /\ CallOf # None /\ CallOf' # None
           /\ SentOf' = SentOf /\ call'.done = call.done =>
                 CallOf' = [CallOf EXCEPT !.seen = CallOf'.seen]
           /\ SentOf' = SentOf => CallOf' = [CallOf EXCEPT !.done = call'.done, !.seen = CallOf'.seen]
           /\ call'.done = call.done /\ (\A p \in Paths : SeenAt(p)' = SeenAt(p)) =>
                 CallOf' = [CallOf EXCEPT !.sent = SentOf']
           /\ /\ SentOf' = SentOf /\ call'.done = call.done
              /\ \A p \in Paths : SeenAt(p)' = SeenAt(p)
              => CallOf' = CallOf
<1>1. CallMapped /\ CallMapped'
  BY CallIsMapped, CallIsMappedNext
<1> DEFINE c == CallOf
           d == CallOf'
<1>2. /\ c \in Store!CallRec /\ c # None /\ c.op = call.op /\ c.path = call.path
      /\ c.text = call.text /\ c.rev = call.rev /\ c.done = call.done /\ c.sent = SentOf
      /\ c.seen \in [Paths -> File \cup {Unseen}] /\ \A p \in Paths : c.seen[p] = SeenAt(p)
  BY <1>1 DEF CallMapped
<1>3. /\ d \in Store!CallRec /\ d # None /\ d.op = call.op /\ d.path = call.path
      /\ d.text = call.text /\ d.rev = call.rev /\ d.done = call'.done /\ d.sent = SentOf'
      /\ d.seen \in [Paths -> File \cup {Unseen}] /\ \A p \in Paths : d.seen[p] = SeenAt(p)'
  BY <1>1 DEF CallMapped
<1>4. d.sent \in Store!Effect \cup {None} /\ d.done \in {"no", "applied", "refused"}
  BY <1>3 DEF Store!CallRec
<1> HIDE DEF c, d
<1>5. /\ [c EXCEPT !.seen = d.seen] \in Store!CallRec
      /\ [c EXCEPT !.done = d.done, !.seen = d.seen] \in Store!CallRec
      /\ [c EXCEPT !.sent = d.sent] \in Store!CallRec
  BY <1>2, <1>3, <1>4, CallExcept
<1>6. SentOf' = SentOf /\ call'.done = call.done => d = [c EXCEPT !.seen = d.seen]
  BY <1>2, <1>3, <1>5, SameCall DEF Store!CallRec
<1>7. SentOf' = SentOf => d = [c EXCEPT !.done = d.done, !.seen = d.seen]
  BY <1>2, <1>3, <1>5, SameCall DEF Store!CallRec
<1>8. call'.done = call.done /\ (\A p \in Paths : SeenAt(p)' = SeenAt(p)) =>
         d = [c EXCEPT !.sent = d.sent]
  BY <1>2, <1>3, <1>5, SameCall DEF Store!CallRec
<1>9. /\ SentOf' = SentOf /\ call'.done = call.done
      /\ \A p \in Paths : SeenAt(p)' = SeenAt(p)
      => d = c
  BY <1>2, <1>3, SameCall
<1> QED BY <1>2, <1>3, <1>6, <1>7, <1>8, <1>9 DEF c, d

StoreSteps == [Store!Next]_(Store!vars)

LEMMA FilesTypedNext == AInv' => FilesOf' \in [Paths -> File]
BY DEF AInv, TypeOK, FilesOf, File

LEMMA Silent ==
    ASSUME UNCHANGED <<repo, gone, late, answer>>, CallOf' = CallOf
    PROVE  StoreSteps
BY DEF StoreSteps, Store!vars, FilesOf, LateOf

\* The call finds some files: those of a reply to a read, or a deletion that
\* there is none.
LEMMA FilesFound ==
    ASSUME AInv, AInv', call # None, call' # None, NEW P \in SUBSET Paths,
           repo \in [Paths -> [text : File, commit : 0 .. MaxCommits]],
           \A p \in Paths : SeenAt(p)' = IF p \in P THEN FilesOf[p] ELSE SeenAt(p)
    PROVE  CallOf'.seen = Store!Sees(P)
<1>1. /\ CallOf'.seen \in [Paths -> File \cup {Unseen}]
      /\ \A p \in Paths : CallOf'.seen[p] = SeenAt(p)'
      /\ \A p \in Paths : CallOf.seen[p] = SeenAt(p)
  BY CallIsMapped, CallIsMappedNext DEF CallMapped
<1> QED BY <1>1 DEF Store!Sees

LEMMA BeginImplements ==
    ASSUME AInv, AInv', NEW op \in Ops, NEW p \in Paths, NEW t \in File, NEW rev \in File,
           Begin(op, p, t, rev)
    PROVE  StoreSteps
<1>1. /\ call = None /\ call' # None /\ sent' # None /\ served' = None
      /\ call' = [op |-> op, path |-> p, text |-> t, rev |-> rev, todo |-> {},
                  done |-> "no", seen |-> Nothing]
      /\ answer' = None /\ UNCHANGED <<repo, gone, late>>
  <2>1. call' # None
    <3>1. call' \in Call
      BY DEF Begin, Call, Nothing, File
    <3> QED BY <3>1, NoneIsNothing
  <2> QED BY <2>1 DEF Begin, Send, server, AInv, TypeOK
<1>2. CallMapped'
  BY CallIsMappedNext
<1>3. /\ CallOf' \in Store!CallRec /\ CallOf'.done = "no" /\ CallOf'.sent = SentOf'
      /\ CallOf'.seen \in [Paths -> File \cup {Unseen}]
      /\ \A q \in Paths : CallOf'.seen[q] = SeenAt(q)'
  BY <1>1, <1>2 DEF CallMapped
<1>4. \A q \in Paths : SeenAt(q)' = Unseen
  BY <1>1 DEF SeenAt, Nothing
<1>5. CallOf'.seen = [q \in Paths |-> Unseen]
  BY <1>3, <1>4
<1>6. CallOf'.sent # None => Store!Asks(CallOf, CallOf.sent)'
  <2>1. call'.done = "no"
    BY <1>1
  <2>2. sent'.verb \in Changing => SentOf' = EffectOf(sent)'
    BY DEF SentOf
  <2>3. sent'.verb \notin Changing => SentOf' = None
    BY <2>1 DEF SentOf
  <2>4. sent'.verb \in Changing => Store!Asks(CallOf, EffectOf(sent))'
    BY <1>1, <1>2 DEF CallMapped
  <2> QED BY <1>3, <2>2, <2>3, <2>4 DEF Store!Asks
<1>7. CallOf = None /\ UNCHANGED <<FilesOf, LateOf>>
  BY <1>1 DEF CallOf, FilesOf, LateOf
<1>8. Store!Begin
  BY <1>1, <1>3, <1>5, <1>6, <1>7 DEF Store!Begin, Store!Asks
<1> QED BY <1>8 DEF StoreSteps, Store!Next

\* A read finds some files as they are now, a change is made or refused.
LEMMA ServeImplements ==
    ASSUME AInv, AInv', Serve
    PROVE  StoreSteps
<1>1. /\ sent # None /\ served = None /\ sent' = sent /\ call # None /\ call \in Call
      /\ UNCHANGED <<late, answer>> /\ call' # None /\ served' # None
      /\ repo \in [Paths -> [text : File, commit : 0 .. MaxCommits]]
      /\ sent.verb \in Changing => sent.at \in Paths /\ sent.at = call.path
  <2>1. /\ sent # None /\ served = None /\ sent' = sent /\ UNCHANGED <<late, answer>>
        /\ served' = ReplyTo(sent) \/ served' = [ReplyTo(sent) EXCEPT !.status = "broken"]
    BY DEF Serve
  <2>2. /\ call # None /\ call \in Call /\ RepoTyped /\ sent \in Request
        /\ sent.verb \in {"get"} \cup Changing => sent.at \in Paths
        /\ sent.verb \in Changing => sent.at = call.path
    BY <2>1, UnderWay DEF AInv, RequestsFit
  <2>3. ReplyTo(sent) \in Reply
    BY <2>2, ReplyTyped
  <2>4. [ReplyTo(sent) EXCEPT !.status = "broken"] \in Reply
    BY <2>3 DEF Reply
  <2>5. call' # None
    BY <2>1 DEF AInv, TypeOK
  <2> QED BY <2>1, <2>2, <2>3, <2>4, <2>5, NoneIsNothing DEF RepoTyped
<1>2. UNCHANGED LateOf
  BY <1>1 DEF LateOf
<1>3. /\ CallOf # None /\ CallOf.op = call.op /\ CallOf.path = call.path /\ CallOf.text = call.text
      /\ CallOf.sent = SentOf /\ CallOf.done = call.done
      /\ \A p \in Paths : CallOf.seen[p] = SeenAt(p)
  BY <1>1, CallIsMapped DEF CallMapped
<1>4. CASE sent.verb \notin Changing
  <2>1. served' = ReplyTo(sent) /\ UNCHANGED <<repo, gone, call>>
    BY <1>4 DEF Serve, server
  <2> DEFINE P == {p \in Paths : served'.found[p] # Unseen}
  <2>2. \A p \in P : served'.found[p] = FilesOf[p]
    BY <1>1, <1>4, <2>1, ReadsTell
  <2>3. \A p \in Paths : SeenAt(p)' = IF p \in P THEN FilesOf[p] ELSE SeenAt(p)
    BY <1>1, <2>1, <2>2 DEF SeenAt
  <2>4. CallOf'.seen = Store!Sees(P)
    BY <1>1, <2>3, FilesFound
  <2>5. CallOf' = [CallOf EXCEPT !.seen = CallOf'.seen]
    <3>1. SentOf' = SentOf
      BY <1>1, <2>1 DEF SentOf, EffectOf
    <3> QED BY <1>1, <2>1, <3>1, CallMoves
  <2>6. call.op = "list" => \A p \in P : CallOf.seen[p] = Unseen
    <3>1. SUFFICES ASSUME call.op = "list" PROVE \A p \in P : CallOf.seen[p] = Unseen
      OBVIOUS
    <3>2. sent.verb \in {"dir", "page"} /\ call.done = "no"
      BY <1>1, <3>1 DEF AInv, RequestsFit, ChangesOnce, Changing, Call
    <3>3. \A p \in P : call.seen[p] = Unseen
      <4>1. CASE sent.verb = "page"
        <5>1. /\ sent.at \in Nat
              /\ \A p \in Paths : call.seen[p] = Unseen <=> p > sent.at
              /\ \E end \in Nat : \A p \in Paths : served'.found[p] # Unseen <=> sent.at < p /\ p <= end
          BY <1>1, <1>4, <2>1, <4>1, ReadsTell DEF AInv, PagesToCome
        <5> QED BY <5>1, PathsOrdered
      <4>2. CASE sent.verb = "dir"
        <5>1. IF sent.at = None THEN call.seen = Nothing
              ELSE \A p \in Paths : DirOf[p] = sent.at => call.seen[p] = Unseen
          BY <1>1, <4>2 DEF AInv, DirsToCome
        <5>2. sent.at # None => \A p \in P : DirOf[p] = sent.at
          BY <1>1, <1>4, <2>1, <4>2, ReadsTell
        <5> QED BY <5>1, <5>2 DEF Nothing
      <4> QED BY <3>2, <4>1, <4>2
    <3> QED BY <1>1, <1>3, <3>2, <3>3 DEF SeenAt
  <2>7. UNCHANGED FilesOf
    BY <2>1 DEF FilesOf
  <2> HIDE DEF P
  <2>8. P \in SUBSET Paths
    BY DEF P
  <2>9. Store!Observe(P)
    BY <1>1, <1>2, <1>3, <2>4, <2>5, <2>6, <2>7 DEF Store!Observe
  <2> QED BY <2>8, <2>9 DEF StoreSteps, Store!Next
<1>5. CASE sent.verb \in Changing
  <2>1. /\ served' = ReplyTo(sent) \/ served' = [ReplyTo(sent) EXCEPT !.status = "broken"]
        /\ \/ Takes(sent) /\ call' = [call EXCEPT !.done = "applied"]
           \/ ~Allowed(sent) /\ call' = [call EXCEPT !.done = "refused"] /\ UNCHANGED server
    BY <1>5 DEF Serve
  <2>2. /\ call'.op = call.op /\ call'.path = call.path /\ call'.text = call.text
        /\ call'.rev = call.rev /\ call'.seen = call.seen
    BY <1>1, <2>1 DEF Call
  <2>3. SentOf = EffectOf(sent) /\ SentOf' = SentOf /\ SentOf # None
    <3>1. EffectOf(sent) # None
      BY <1>1, <1>5, CallIsMapped DEF CallMapped
    <3> QED BY <1>1, <1>5, <3>1 DEF SentOf, EffectOf
  <2>4. CallOf' = [CallOf EXCEPT !.done = call'.done, !.seen = CallOf'.seen]
    BY <1>1, <2>2, <2>3, CallMoves
  <2>5. call.done = "no"
    BY <1>1, <1>5 DEF AInv, ChangesOnce
  <2>6. \A p \in Paths : SeenAt(p) = call.seen[p]
    BY <1>1, <2>5 DEF SeenAt
  <2>7. /\ CallOf'.seen \in [Paths -> File \cup {Unseen}]
        /\ \A p \in Paths : CallOf'.seen[p] = SeenAt(p)'
        /\ CallOf.seen \in [Paths -> File \cup {Unseen}]
    BY <1>1, CallIsMapped, CallIsMappedNext DEF CallMapped
  <2>8. /\ \A p \in Paths : served'.found[p] # Unseen => p = sent.at /\ served'.found[p] = None
        /\ served'.found[sent.at] # Unseen => ~Allowed(sent) /\ FilesOf[sent.at] = None
    BY <1>1, <1>5, <2>1, ChangesTell
  <2>9. CASE Takes(sent) /\ call' = [call EXCEPT !.done = "applied"]
    <3>1. Allowed(sent) /\ call'.done = "applied" /\ LockFits(sent)
      BY <1>1, <1>5, <2>9 DEF Takes, Call, AInv, LocksHold
    <3>2. \A p \in Paths : served'.found[p] = Unseen
      BY <1>1, <2>8, <3>1
    <3>3. \A p \in Paths : SeenAt(p)' = IF p = call.path THEN call.text ELSE call.seen[p]
      BY <1>1, <2>2, <3>1, <3>2 DEF SeenAt
    <3>4. CallOf'.seen = [CallOf.seen EXCEPT ![call.path] = call.text]
      BY <1>1, <1>3, <2>6, <2>7, <3>3
    <3>5. FilesOf[sent.at] = sent.expect
      BY <1>1, <1>5, <3>1, AllowedMeans DEF FilesOf, Allowed
    <3>6. FilesOf' = [FilesOf EXCEPT ![sent.at] = sent.text]
      BY <1>1, <1>5, <2>9 DEF Takes, FilesOf, Allowed
    <3>7. /\ EffectOf(sent).path = sent.at /\ EffectOf(sent).expect = sent.expect
          /\ EffectOf(sent).text = sent.text
      BY DEF EffectOf
    <3>8. Store!Takes(CallOf.sent)
      BY <1>3, <2>3, <3>5, <3>6, <3>7 DEF Store!Takes
    <3>9. CallOf' = [CallOf EXCEPT !.done = "applied", !.seen[CallOf.path] = CallOf.text]
      BY <1>3, <2>4, <3>1, <3>4
    <3>10. Store!Apply
      BY <1>1, <1>2, <1>3, <2>3, <2>5, <3>8, <3>9 DEF Store!Apply
    <3> QED BY <3>10 DEF StoreSteps, Store!Next
  <2>10. CASE ~Allowed(sent) /\ call' = [call EXCEPT !.done = "refused"] /\ UNCHANGED server
    <3>1. call'.done = "refused" /\ repo' = repo /\ gone' = gone
      BY <1>1, <2>10 DEF Call, server
    <3> DEFINE P == {p \in Paths : served'.found[p] # Unseen}
    <3>2. P \in SUBSET {call.path} /\ P \in SUBSET Paths
      BY <1>1, <1>5, <2>8
    <3>3. \A p \in Paths : SeenAt(p)' = IF p \in P THEN FilesOf[p] ELSE SeenAt(p)
      BY <1>1, <2>2, <2>6, <2>8, <3>1 DEF SeenAt
    <3> HIDE DEF P
    <3>4. CallOf'.seen = Store!Sees(P)
      BY <1>1, <3>2, <3>3, FilesFound
    <3>5. UNCHANGED FilesOf
      BY <3>1 DEF FilesOf
    <3>6. Store!Refuse
      BY <1>1, <1>2, <1>3, <2>3, <2>4, <2>5, <3>1, <3>2, <3>4, <3>5 DEF Store!Refuse
    <3> QED BY <3>6 DEF StoreSteps, Store!Next
  <2> QED BY <2>1, <2>9, <2>10
<1> QED BY <1>4, <1>5

LEMMA TurnAwayImplements ==
    ASSUME AInv, AInv', NEW status, TurnAway(status)
    PROVE  StoreSteps
<1>1. /\ sent # None /\ served = None /\ call # None /\ call' # None /\ sent' = sent
      /\ served' = Told(status, {}) /\ UNCHANGED <<repo, gone, late, answer>> /\ call \in Call
      /\ repo \in [Paths -> [text : File, commit : 0 .. MaxCommits]]
      /\ call' = [call EXCEPT !.done = IF sent.verb \in Changing THEN "refused" ELSE @]
  <2>1. sent # None /\ sent' = sent
    BY DEF TurnAway
  <2> QED BY <2>1, UnderWay DEF TurnAway, server, AInv, TypeOK, RepoTyped
<1>2. /\ call'.op = call.op /\ call'.path = call.path /\ call'.text = call.text
      /\ call'.rev = call.rev /\ call'.seen = call.seen
      /\ call'.done = IF sent.verb \in Changing THEN "refused" ELSE call.done
  BY <1>1 DEF Call
<1>3. served'.found = Nothing
  BY <1>1, KeepTells DEF Told, RepoTyped
<1>4. SentOf' = SentOf
  BY <1>1, <1>2 DEF SentOf, EffectOf
<1>5. CASE sent.verb \notin Changing
  <2>1. \A p \in Paths : SeenAt(p)' = SeenAt(p)
    BY <1>1, <1>2, <1>3, <1>5 DEF SeenAt, Nothing
  <2>2. CallOf' = CallOf
    BY <1>1, <1>2, <1>4, <1>5, <2>1, CallMoves
  <2> QED BY <1>1, <2>2, Silent
<1>6. CASE sent.verb \in Changing
  <2>1. call.done = "no" /\ call'.done = "refused"
    BY <1>1, <1>2, <1>6 DEF AInv, ChangesOnce
  <2>2. \A p \in Paths : SeenAt(p)' = IF p \in {} THEN FilesOf[p] ELSE SeenAt(p)
    BY <1>1, <1>2, <1>3, <2>1 DEF SeenAt, Nothing
  <2>3. CallOf'.seen = Store!Sees({})
    BY <1>1, <2>2, FilesFound
  <2>4. CallOf' = [CallOf EXCEPT !.done = call'.done, !.seen = CallOf'.seen]
    BY <1>1, <1>2, <1>4, CallMoves
  <2>5. CallOf # None /\ CallOf.sent # None /\ CallOf.done = "no"
    BY <1>1, <1>6, <2>1, CallIsMapped DEF CallMapped, SentOf
  <2>6. UNCHANGED <<FilesOf, LateOf>>
    BY <1>1 DEF FilesOf, LateOf
  <2>7. Store!Refuse
    <3>1. {} \in SUBSET {CallOf.path}
      OBVIOUS
    <3> QED BY <1>1, <2>1, <2>3, <2>4, <2>5, <2>6, <3>1 DEF Store!Refuse
  <2> QED BY <2>7 DEF StoreSteps, Store!Next
<1> QED BY <1>5, <1>6

\* A late request has its effect, or it has none; if another one would have the
\* same effect, the store still expects it.
LEMMA ServeLateImplements ==
    ASSUME AInv, AInv', NEW r \in late, ServeLate(r)
    PROVE  StoreSteps
<1> DEFINE e == EffectOf(r)
<1>1. /\ late' = late \ {r} /\ UNCHANGED <<answer, CallOf>>
      /\ Takes(r) \/ UNCHANGED server
      /\ r \in Request /\ r.at \in Paths /\ r.text \in File /\ LockFits(r)
      /\ e.path = r.at /\ e.expect = r.expect /\ e.text = r.text
      /\ repo \in [Paths -> [text : File, commit : 0 .. MaxCommits]]
  <2>1. UNCHANGED CallOf
    BY DEF ServeLate, client, CallOf, SeenOf, EffectOf
  <2>2. r \in Request /\ LockFits(r)
    BY DEF AInv, TypeOK, LocksHold
  <2> QED BY <2>1, <2>2 DEF ServeLate, client, LockFits, Request, EffectOf, AInv, TypeOK
<1>2. e \in LateOf /\ LateOf' \in {LateOf, LateOf \ {e}}
  BY <1>1 DEF LateOf, EffectOf
<1> HIDE DEF e
<1>3. CASE Takes(r)
  <2>1. /\ Allowed(r) /\ ~gone /\ gone' = gone
        /\ repo' = [repo EXCEPT ![r.at] = [text |-> r.text, commit |-> clock']]
    BY <1>3 DEF Takes, Allowed
  <2>2. FilesOf[e.path] = e.expect /\ FilesOf' = [FilesOf EXCEPT ![e.path] = e.text]
    BY <1>1, <2>1, AllowedMeans DEF FilesOf
  <2>3. CASE LateOf' = LateOf \ {e}
    <3>1. Store!ApplyLate(e)
      BY <1>1, <1>2, <2>2, <2>3 DEF Store!ApplyLate, Store!Takes
    <3> QED BY <1>2, <3>1 DEF StoreSteps, Store!Next
  <2>4. CASE LateOf' = LateOf /\ e.text # e.expect
    <3>1. FilesOf' \in [Paths -> File]
      BY FilesTypedNext
    <3>2. FilesOf' # FilesOf
      <4>1. FilesOf'[e.path] = e.text /\ FilesOf[e.path] = e.expect
        BY <1>1, <2>2, FilesTyped DEF RepoTyped
      <4> QED BY <2>4, <4>1
    <3>3. Store!Foreign
      BY <1>1, <2>4, <3>1, <3>2 DEF Store!Foreign, Store!File, File
    <3> QED BY <3>3 DEF StoreSteps, Store!Next
  <2>5. CASE LateOf' = LateOf /\ e.text = e.expect
    <3>1. FilesOf' = FilesOf
      BY <1>1, <2>2, <2>5 DEF FilesOf
    <3> QED BY <1>1, <2>5, <3>1 DEF StoreSteps, Store!vars
  <2> QED BY <1>2, <2>3, <2>4, <2>5
<1>4. CASE UNCHANGED server
  <2>1. FilesOf' = FilesOf
    BY <1>4 DEF FilesOf, server
  <2>2. CASE LateOf' = LateOf \ {e}
    <3>1. Store!DropLate(e)
      BY <1>1, <1>2, <2>1, <2>2 DEF Store!DropLate
    <3> QED BY <1>2, <3>1 DEF StoreSteps, Store!Next
  <2>3. CASE LateOf' = LateOf
    BY <1>1, <2>1, <2>3 DEF StoreSteps, Store!vars
  <2> QED BY <1>2, <2>2, <2>3
<1> QED BY <1>1, <1>3, <1>4

\* Other devices write, or the repository goes or comes back: the store sees
\* its files change, or nothing.
LEMMA OthersImplement ==
    ASSUME AInv, AInv', Vanish \/ \E p \in Paths, t \in File : Foreign(p, t)
    PROVE  StoreSteps
<1>1. UNCHANGED <<LateOf, CallOf, answer>>
  <2>1. UNCHANGED <<client, wire>>
    BY DEF Foreign, Vanish
  <2> QED BY <2>1 DEF client, wire, LateOf, CallOf, SeenOf, EffectOf
<1>2. FilesOf' \in [Paths -> File]
  BY FilesTypedNext
<1>3. FilesOf' # FilesOf => Store!Foreign
  BY <1>1, <1>2 DEF Store!Foreign, Store!File, File
<1> QED BY <1>1, <1>3 DEF StoreSteps, Store!Next, Store!vars

\* The steps of the call that the store does not see: the next request.
LEMMA GoOnImplements ==
    ASSUME AInv, AInv', sent # None, served # None, UNCHANGED <<repo, gone, late, answer>>,
           Found \in [Paths -> File \cup {Unseen}],
           call'.op = call.op, call'.path = call.path, call'.text = call.text,
           call'.rev = call.rev, call'.done = call.done, call'.seen = Found,
           sent' # None, served' = None, SentOf' = SentOf,
           call.done = "applied" => \A p \in Paths : served.found[p] = Unseen
    PROVE  StoreSteps
<1>1. call # None /\ call' # None
  BY DEF AInv, TypeOK
<1>2. \A p \in Paths : Found[p] = IF served.found[p] # Unseen THEN served.found[p] ELSE call.seen[p]
  BY DEF Found
<1>3. \A p \in Paths : SeenAt(p)' = SeenAt(p)
  BY <1>2 DEF SeenAt
<1>4. CallOf' = CallOf
  BY <1>1, <1>3, CallMoves
<1> QED BY <1>4, Silent

\* The end of a call that succeeds.
LEMMA SuccessImplements ==
    ASSUME AInv, sent # None, NEW seen \in [Paths -> File \cup {Unseen}],
           Over("ok", seen), UNCHANGED <<repo, gone, late>>,
           \A p \in Paths : seen[p] = SeenAt(p),
           call.op = "list" => \A p \in Paths : seen[p] # Unseen,
           call.op = "read" => seen[call.path] # Unseen,
           call.op = "write" => call.done = "applied",
           call.op = "delete" => seen[call.path] = None
    PROVE  StoreSteps
<1>1. /\ CallOf # None /\ CallOf.op = call.op /\ CallOf.path = call.path /\ CallOf.done = call.done
      /\ CallOf.seen = seen /\ call.op \in Ops
  <2>1. call # None /\ call.op \in Ops
    BY UnderWay DEF Call
  <2>2. CallMapped
    BY CallIsMapped
  <2> QED BY <2>1, <2>2 DEF CallMapped
<1>2. CallOf' = None /\ UNCHANGED <<FilesOf, LateOf>> /\ answer' = [code |-> "ok", seen |-> seen]
  BY DEF Over, CallOf, FilesOf, LateOf
<1>3. Store!Succeed
  BY <1>1, <1>2 DEF Store!Succeed, Ops
<1> QED BY <1>3 DEF StoreSteps, Store!Next

LEMMA FailureImplements ==
    ASSUME AInv, sent # None, NEW code \in {"auth", "absent", "limited", "broken", "network"},
           Over(code, Nothing), UNCHANGED <<repo, gone>>,
           late' \in {late, IF served = None /\ sent.verb \in Changing THEN late \cup {sent} ELSE late}
    PROVE  StoreSteps
<1>1. call # None /\ CallMapped
  BY UnderWay, CallIsMapped
<1>2. /\ CallOf # None /\ CallOf' = None /\ UNCHANGED FilesOf
      /\ answer' = [code |-> code, seen |-> [p \in Paths |-> Unseen]]
  BY <1>1 DEF Over, CallOf, FilesOf, Nothing, CallMapped
<1>3. LateOf' \in {LateOf, IF CallOf.sent # None /\ CallOf.done = "no"
                           THEN LateOf \cup {CallOf.sent} ELSE LateOf}
  <2>1. CASE late' = late
    BY <2>1 DEF LateOf
  <2>2. CASE served = None /\ sent.verb \in Changing /\ late' = late \cup {sent}
    <3>1. CallOf.sent = EffectOf(sent) /\ CallOf.sent # None /\ CallOf.done = "no"
      BY <1>1, <2>2 DEF CallMapped, SentOf, AInv, ChangesOnce
    <3>2. LateOf' = LateOf \cup {EffectOf(sent)}
      BY <2>2 DEF LateOf, EffectOf
    <3> QED BY <3>1, <3>2
  <2> QED BY <2>1, <2>2
<1>4. Store!FailWith(code)
  BY <1>2, <1>3 DEF Store!FailWith, Store!Fails
<1> QED BY <1>4 DEF StoreSteps, Store!Next, Store!Failures

LEMMA MismatchImplements ==
    ASSUME AInv, sent # None, Throw("mismatch"), UNCHANGED <<repo, gone>>,
           call.done # "refused" =>
              SentOf = None /\ CallOf.seen[call.path] \notin {Unseen, call.rev}
    PROVE  StoreSteps
<1>1. call # None /\ CallMapped
  BY UnderWay, CallIsMapped
<1>2. /\ CallOf # None /\ CallOf' = None /\ UNCHANGED <<FilesOf, LateOf>>
      /\ answer' = [code |-> "mismatch", seen |-> [p \in Paths |-> Unseen]]
  BY <1>1 DEF Throw, Over, CallOf, FilesOf, LateOf, Nothing, CallMapped
<1>3. Store!Mismatch
  BY <1>1, <1>2 DEF Store!Mismatch, Store!Fails, CallMapped
<1> QED BY <1>3 DEF StoreSteps, Store!Next

\* A reply that ends the call: what was found is what the store has told.
LEMMA FinishImplements ==
    ASSUME AInv, NEW verb \in {"repo", "branch", "get", "dir", "page"}, NEW statuses,
           Answered(verb, statuses), Finish,
           statuses \subseteq {"ok", "missing"},
           call.op = "list" => \A p \in Paths : Found[p] # Unseen,
           call.op = "write" => call.done = "applied",
           call.op = "delete" => Found[call.path] = None
    PROVE  StoreSteps
<1>1. /\ sent # None /\ served # None /\ sent.verb = verb /\ served.status \in {"ok", "missing"}
      /\ UNCHANGED <<repo, gone, late>> /\ Found \in [Paths -> File \cup {Unseen}]
      /\ \A p \in Paths : Found[p] = IF served.found[p] # Unseen THEN served.found[p]
                                     ELSE call.seen[p]
      /\ Over("ok", Found)
  BY Read DEF Finish, server
<1>2. sent.verb \notin Changing
  BY <1>1 DEF Changing
<1>3. /\ call # None /\ call.path \in Paths
      /\ call.done = "applied" => sent.verb = "get"
      /\ call.op = "read" => sent.verb = "get"
      /\ sent.verb = "get" => sent.at = call.path /\ served.found[sent.at] # Unseen
  <2>1. call # None /\ call.path \in Paths /\ call.op \in Ops
    BY <1>1, UnderWay DEF Call
  <2>2. sent.verb = "get" => sent.at = call.path
    BY <1>1, <2>1 DEF AInv, RequestsFit
  <2>3. call.op = "read" => sent.verb = "get"
    BY <1>1, <2>1 DEF AInv, RequestsFit
  <2>4. call.done = "applied" => sent.verb = "get"
    BY <1>2, <2>1 DEF AInv, ChangesOnce
  <2>5. sent.verb = "get" => served.found[sent.at] # Unseen
    BY <1>1, <2>1, <2>2 DEF AInv, RepliesTell
  <2> QED BY <2>1, <2>2, <2>3, <2>4, <2>5
<1>4. \A p \in Paths : Found[p] = SeenAt(p)
  BY <1>1, <1>3 DEF SeenAt
<1> QED BY <1>1, <1>3, <1>4, SuccessImplements

LEMMA OpenImplements ==
    ASSUME AInv, AInv', open
    PROVE  StoreSteps
<1>1. PICK verb \in {"repo", "branch"}, status \in {"ok", "absent"} : Answered(verb, {status})
  BY DEF open
<1>2. /\ sent # None /\ served # None /\ sent.verb = verb /\ call # None /\ call \in Call
      /\ UNCHANGED <<repo, gone, kind>> /\ Found \in [Paths -> File \cup {Unseen}]
  BY <1>1, Read, UnderWay DEF server
<1>3. call.op = "open" /\ call.done # "applied"
  BY <1>2 DEF AInv, RequestsFit, ChangesOnce, Changing
<1>4. CASE GoOn(Get("branch", None))
  <2>1. /\ call' = [call EXCEPT !.seen = Found] /\ sent' = Get("branch", None) /\ served' = None
        /\ UNCHANGED <<late, answer>>
    BY <1>4 DEF GoOn, Send
  <2>2. /\ call'.op = call.op /\ call'.path = call.path /\ call'.text = call.text
        /\ call'.rev = call.rev /\ call'.done = call.done /\ call'.seen = Found
    BY <1>2, <2>1 DEF Call
  <2>3. sent' # None /\ sent'.verb = "branch"
    BY <2>1, GetTyped, NoneIsNothing DEF Get
  <2>4. SentOf' = SentOf
    BY <1>2, <1>3, <2>2, <2>3 DEF SentOf, Changing
  <2> QED BY <1>2, <1>3, <2>1, <2>2, <2>3, <2>4, GoOnImplements
<1>5. CASE Answered("branch", {"ok"}) /\ Finish
  BY <1>3, <1>5, FinishImplements
<1>6. CASE Throw("absent")
  BY <1>2, <1>6, FailureImplements DEF Throw
<1> QED BY <1>4, <1>5, <1>6 DEF open

LEMMA ListingImplements ==
    ASSUME AInv, AInv', collectDir \/ collectPage
    PROVE  StoreSteps
<1>1. PICK verb \in {"dir", "page"} : Answered(verb, {"ok", "missing"})
  BY DEF collectDir, collectPage
<1>2. /\ sent # None /\ served # None /\ sent.verb = verb /\ call # None /\ call \in Call
      /\ UNCHANGED <<repo, gone, kind>> /\ Found \in [Paths -> File \cup {Unseen}]
  BY <1>1, Read, UnderWay DEF server
<1>3. call.op = "list" /\ call.done # "applied"
  BY <1>2 DEF AInv, RequestsFit, ChangesOnce, Changing
<1>4. ASSUME NEW request \in Request, request.verb \notin Changing, Send(request),
             UNCHANGED <<calls, answer>>,
             call' = [call EXCEPT !.seen = Found] \/
                \E T \in SUBSET Dirs : call' = [call EXCEPT !.seen = Found, !.todo = T]
      PROVE  StoreSteps
  <2>1. sent' = request /\ sent' # None /\ served' = None /\ UNCHANGED <<late, answer>>
    BY <1>4, NoneIsNothing DEF Send
  <2>2. /\ call'.op = call.op /\ call'.path = call.path /\ call'.text = call.text
        /\ call'.rev = call.rev /\ call'.done = call.done /\ call'.seen = Found
    BY <1>2, <1>4 DEF Call
  <2>3. SentOf' = SentOf
    BY <1>2, <1>3, <1>4, <2>1, <2>2 DEF SentOf, Changing
  <2> QED BY <1>2, <1>3, <2>1, <2>2, <2>3, GoOnImplements
<1>5. CASE collectDir
  <2> DEFINE todo == call.todo \cup served.dirs
  <2>1. Answered("dir", {"ok", "missing"}) /\ \A p \in Paths : Found[p] = Unseen <=> DirOf[p] \in todo
    BY <1>5, DirsLeft DEF collectDir
  <2>2. CASE todo = {}
    <3>1. Finish
      BY <1>5, <2>2 DEF collectDir
    <3>2. \A p \in Paths : Found[p] # Unseen
      BY <2>1, <2>2
    <3> QED BY <1>3, <2>1, <3>1, <3>2, FinishImplements
  <2>3. CASE todo # {}
    <3>1. PICK d \in todo : /\ call' = [call EXCEPT !.seen = Found, !.todo = todo \ {d}]
                            /\ Send(Get("dir", d)) /\ UNCHANGED <<calls, answer>>
      BY <1>5, <2>3 DEF collectDir
    <3>2. todo \in SUBSET Dirs
      BY <1>2, <2>1, Read, UnderWay
    <3> HIDE DEF todo
    <3>3. Get("dir", d) \in Request /\ Get("dir", d).verb \notin Changing
      BY <3>1, <3>2, GetTyped DEF Get, Changing
    <3>4. todo \ {d} \in SUBSET Dirs
      BY <3>2
    <3> QED BY <1>4, <3>1, <3>3, <3>4
  <2> QED BY <2>2, <2>3
<1>6. CASE collectPage
  <2>1. Answered("page", {"ok", "missing"})
    BY <1>6 DEF collectPage
  <2>2. /\ served.more => LastShown \in Paths
        /\ ~served.more => \A p \in Paths : Found[p] # Unseen
    BY <2>1, PagesLeft
  <2>3. CASE ~served.more
    <3>1. Finish
      BY <1>6, <2>3 DEF collectPage
    <3> QED BY <1>3, <2>1, <2>2, <2>3, <3>1, FinishImplements
  <2>4. CASE served.more
    <3>1. /\ Send(Get("page", LastShown)) /\ call' = [call EXCEPT !.seen = Found]
          /\ UNCHANGED <<calls, answer>>
      BY <1>6, <2>4 DEF collectPage, GoOn
    <3>2. Get("page", LastShown) \in Request /\ Get("page", LastShown).verb \notin Changing
      BY <2>2, <2>4, GetTyped DEF Get, Changing
    <3> QED BY <1>4, <3>1, <3>2
  <2> QED BY <2>3, <2>4
<1> QED BY <1>5, <1>6

\* assertUnchanged ends the call, or it decides which change to ask for.
LEMMA AssertUnchangedImplements ==
    ASSUME AInv, AInv', assertUnchanged
    PROVE  StoreSteps
<1> DEFINE now == served.found[call.path]
           request == Change(call, IF kind = "git" THEN now ELSE served.commit, now)
<1>1. /\ call # None /\ call.op \in {"write", "delete"} /\ call.done = "no"
      /\ Answered("get", {"ok", "missing"})
      /\ \/ now = None /\ call.op = "delete" /\ Finish
         \/ now = None /\ call.op # "delete" /\ Throw("mismatch")
         \/ now # None /\ call.rev \notin {None, now} /\ Throw("mismatch")
         \/ now # None /\ call.rev \in {None, now} /\ GoOn(request)
  BY DEF assertUnchanged
<1>2. /\ call.path \in Paths /\ now \in File /\ Found[call.path] = now
      /\ call.op = "write" => call.rev # None
  BY <1>1, FileRead
<1>3. /\ sent # None /\ served # None /\ sent.verb = "get" /\ UNCHANGED <<repo, gone, kind>>
      /\ call \in Call /\ Found \in [Paths -> File \cup {Unseen}]
      /\ now # Unseen
  BY <1>1, <1>2, Read, UnderWay, SentinelsApart DEF server, File
<1>4. SentOf = None
  BY <1>1, <1>3 DEF SentOf, Changing
<1>5. CallMapped /\ CallOf.seen[call.path] = now
  <2>1. CallMapped
    BY CallIsMapped
  <2> QED BY <1>1, <1>2, <1>3, <2>1 DEF CallMapped, SeenAt
<1>6. CASE now = None /\ call.op = "delete" /\ Finish
  BY <1>1, <1>2, <1>6, FinishImplements
<1>7. CASE Throw("mismatch") /\ now # call.rev
  BY <1>3, <1>4, <1>5, <1>7, MismatchImplements
<1>8. CASE now # None /\ call.rev \in {None, now} /\ GoOn(request)
  <2>1. /\ call' = [call EXCEPT !.seen = Found] /\ sent' = request /\ served' = None
        /\ UNCHANGED <<late, answer>>
    BY <1>8 DEF GoOn, Send
  <2>2. /\ call'.op = call.op /\ call'.path = call.path /\ call'.text = call.text
        /\ call'.rev = call.rev /\ call'.done = call.done /\ call'.seen = Found
    BY <1>3, <2>1 DEF Call
  <2>3. call' # None
    BY <2>1, <1>1, FoundTyped, <1>3, UnderWay, NoneIsNothing
  <2>4. sent'.verb \in Changing
    BY <2>1 DEF Change, Changing
  <2>5. CallMapped'
    BY CallIsMappedNext
  <2> DEFINE e == EffectOf(sent)'
  <2>6. SentOf' = e
    BY <2>4 DEF SentOf
  <2>7. e # None /\ e \in Store!Effect
    <3>1. e # None /\ CallOf'.sent = e /\ CallOf' \in Store!CallRec
      BY <2>3, <2>4, <2>5, <2>6 DEF CallMapped
    <3> QED BY <3>1 DEF Store!CallRec
  <2>8. /\ e.path = call.path /\ e.text = call.text
        /\ call.op = "write" \/ call.rev # None => e.expect = call.rev
    BY <1>2, <1>8, <2>1 DEF EffectOf, Change
  <2> HIDE DEF e, request
  <2>9. \A p \in Paths : SeenAt(p)' = SeenAt(p)
    BY <1>1, <1>3, <2>1, <2>2 DEF SeenAt, Found
  <2>10. CallOf' = [CallOf EXCEPT !.sent = e]
    BY <1>1, <2>2, <2>3, <2>6, <2>9, CallMoves
  <2>11. Store!Asks(CallOf, e)
    BY <1>1, <1>5, <2>8 DEF CallMapped, Store!Asks
  <2>12. UNCHANGED <<FilesOf, LateOf, answer>>
    BY <1>3, <2>1 DEF FilesOf, LateOf
  <2>13. Store!Intend(e)
    BY <1>1, <1>4, <1>5, <2>10, <2>11, <2>12 DEF CallMapped, Store!Intend
  <2> QED BY <2>7, <2>13 DEF StoreSteps, Store!Next
<1> QED BY <1>1, <1>2, <1>6, <1>7, <1>8

LEMMA ReadOneImplements ==
    ASSUME AInv, readOne
    PROVE  StoreSteps
<1>1. /\ call.op # "delete" /\ (call.op = "write" => call.done = "applied")
      /\ Answered("get", {"ok", "missing"}) /\ Finish
  BY DEF readOne
<1>2. call.op # "list"
  <2>1. sent # None /\ sent.verb = "get"
    BY <1>1, Read
  <2> QED BY <2>1, UnderWay DEF AInv, RequestsFit
<1> QED BY <1>1, <1>2, FinishImplements

\* GitHub tells the new revision, GitLab is asked for it: the store sees that
\* nothing has changed.
LEMMA WrittenImplements ==
    ASSUME AInv, AInv', Written
    PROVE  StoreSteps
<1>1. /\ sent # None /\ served # None /\ sent.verb = "put" /\ served.status = "ok"
      /\ UNCHANGED <<repo, gone, kind>> /\ call # None /\ call \in Call /\ call.path \in Paths
      /\ call.text \in File /\ call.seen \in [Paths -> File \cup {Unseen}]
      /\ Found \in [Paths -> File \cup {Unseen}]
  BY Read, UnderWay DEF Written, server
<1>2. call.op = "write" /\ call.done = "applied" /\ \A p \in Paths : served.found[p] = Unseen
  BY <1>1 DEF AInv, RequestsFit, RepliesTell, Changing
<1>3. CASE kind = "git"
  <2> DEFINE seen == [call.seen EXCEPT ![call.path] = call.text]
  <2>1. Over("ok", seen) /\ UNCHANGED late
    BY <1>3 DEF Written
  <2>2. seen \in [Paths -> File \cup {Unseen}] /\ \A p \in Paths : seen[p] = SeenAt(p)
    BY <1>1, <1>2 DEF SeenAt
  <2> HIDE DEF seen
  <2> QED BY <1>1, <1>2, <2>1, <2>2, SuccessImplements
<1>4. CASE kind # "git"
  <2>1. GoOn(Get("get", call.path))
    BY <1>4 DEF Written
  <2>2. /\ call' = [call EXCEPT !.seen = Found] /\ sent' = Get("get", call.path) /\ served' = None
        /\ UNCHANGED <<late, answer>>
    BY <2>1 DEF GoOn, Send
  <2>3. /\ call'.op = call.op /\ call'.path = call.path /\ call'.text = call.text
        /\ call'.rev = call.rev /\ call'.done = call.done /\ call'.seen = Found
    BY <1>1, <2>2 DEF Call
  <2>4. sent' # None /\ sent'.verb \notin Changing
    BY <1>1, <2>2, GetTyped, NoneIsNothing DEF Get, Changing
  <2>5. sent.at = call.path /\ sent.expect = call.rev /\ sent.text = call.text
    BY <1>1, <1>2 DEF AInv, RequestsFit, Changing
  <2>6. SentOf' = SentOf
    BY <1>1, <1>2, <2>3, <2>4, <2>5 DEF SentOf, EffectOf, Changing
  <2> QED BY <1>1, <1>2, <2>2, <2>3, <2>4, <2>6, GoOnImplements
<1> QED BY <1>3, <1>4

LEMMA DeletedImplements ==
    ASSUME AInv, Deleted
    PROVE  StoreSteps
<1> DEFINE seen == [call.seen EXCEPT ![call.path] = None]
<1>1. /\ sent # None /\ served # None /\ sent.verb = "delete" /\ served.status \in {"ok", "missing"}
      /\ UNCHANGED <<repo, gone, late>> /\ call # None /\ call.path \in Paths
      /\ call.seen \in [Paths -> File \cup {Unseen}] /\ Over("ok", seen)
  BY Read, UnderWay DEF Deleted, server
<1>2. /\ call.op = "delete" /\ call.text = None /\ sent.at = call.path
      /\ \A p \in Paths : served.found[p] # Unseen => p = call.path /\ served.found[p] = None
      /\ served.status = "ok" => call.done = "applied"
      /\ served.status = "missing" => served.found[call.path] = None
      /\ call.done = "applied" \/ served.found[call.path] = None
  BY <1>1 DEF AInv, RequestsFit, RepliesTell, Changing
<1>3. seen \in [Paths -> File \cup {Unseen}] /\ seen[call.path] = None
  BY <1>1 DEF File
<1>4. \A p \in Paths : seen[p] = SeenAt(p)
  BY <1>1, <1>2, SentinelsApart DEF SeenAt
<1> HIDE DEF seen
<1> QED BY <1>1, <1>2, <1>3, <1>4, SuccessImplements

\* A stale lock is a mismatch if it is a write that it has stopped.
LEMMA FailImplements ==
    ASSUME AInv, failIfResponseDoes
    PROVE  StoreSteps
<1>1. PICK verb \in {"repo", "branch", "get", "dir", "page"} \cup Changing,
            statuses \in SUBSET {"forbidden", "unauthorized", "limited", "stale", "broken",
                                 "absent"} :
         /\ Answered(verb, statuses) /\ Throw(Code(verb, served.status))
  <2>1. PICK verb \in {"repo", "branch", "get", "dir", "page"} \cup Changing :
          /\ \/ Answered(verb, {"forbidden", "unauthorized", "limited", "stale", "broken"})
             \/ verb = "put" /\ Answered(verb, {"absent"})
          /\ Throw(Code(verb, served.status))
    BY DEF failIfResponseDoes
  <2> QED BY <2>1
<1>2. /\ sent # None /\ served # None /\ sent.verb = verb /\ UNCHANGED <<repo, gone>>
      /\ served.status \in {"forbidden", "unauthorized", "limited", "stale", "broken", "absent"}
  BY <1>1, Read DEF server
<1>3. CASE served.status = "stale" /\ verb = "put"
  <2>1. Code(verb, served.status) = "mismatch"
    BY <1>3 DEF Code
  <2>2. call.done = "refused"
    BY <1>2, <1>3 DEF AInv, RepliesTell, Changing
  <2> QED BY <1>1, <1>2, <2>1, <2>2, MismatchImplements
<1>4. CASE ~(served.status = "stale" /\ verb = "put")
  <2>1. Code(verb, served.status) \in {"auth", "absent", "limited", "broken", "network"}
    BY <1>2, <1>4 DEF Code
  <2> QED BY <1>1, <1>2, <2>1, FailureImplements DEF Throw
<1> QED BY <1>3, <1>4

LEMMA InitImplements == Init => Store!Init
<1> SUFFICES ASSUME Init PROVE Store!Init
  OBVIOUS
<1>1. FilesOf \in [Paths -> File]
  BY DEF Init, FilesOf
<1>2. CallOf = None /\ LateOf = {} /\ answer = None
  BY DEF Init, CallOf, LateOf
<1> QED BY <1>1, <1>2 DEF Store!Init, Store!File, File

LEMMA StepImplements == AInv /\ AInv' /\ [Next]_vars => [Store!Next]_(Store!vars)
<1> SUFFICES ASSUME AInv, AInv', [Next]_vars PROVE StoreSteps
  BY DEF StoreSteps
<1>1. CASE HeadersArrive \/ UNCHANGED vars
  <2>1. UNCHANGED <<repo, gone, late, answer, call, sent, served>>
    BY <1>1 DEF HeadersArrive, vars, server, client, wire
  <2>2. CallOf' = CallOf
    BY <2>1 DEF CallOf, SeenOf, EffectOf
  <2> QED BY <2>1, <2>2, Silent
<1>2. CASE TimesOut
  <2>1. /\ sent # None /\ Over("network", Nothing) /\ UNCHANGED <<repo, gone>>
        /\ late' = IF served = None /\ sent.verb \in Changing THEN late \cup {sent} ELSE late
    BY <1>2 DEF TimesOut, server
  <2> QED BY <2>1, FailureImplements
<1>3. CASE Receive
  BY <1>3, OpenImplements, ListingImplements, ReadOneImplements, AssertUnchangedImplements,
     WrittenImplements, DeletedImplements, FailImplements DEF Receive
<1> QED BY <1>1, <1>2, <1>3, BeginImplements, ServeImplements, TurnAwayImplements,
           ServeLateImplements, OthersImplement DEF Next

\* Whatever the requests, the delays, the failures and the other devices, the
\* calls of either adapter do what the round relies on: no write or deletion
\* reaches a version other than the one it names, none takes effect twice, a
\* listing shows every file as this device could see it at some moment of the
\* call, and after a mismatch nothing was written or will be.  A repository that
\* is gone is not told from one whose files have been deleted.
THEOREM AdapterContract == Spec => Contract
<1>1. Spec => []AInv
  BY InitAInv, NextKeepsAInv, PTL DEF Spec
<1> QED BY <1>1, InitImplements, StepImplements, PTL DEF Spec, Contract, Store!Spec
=============================================================================
