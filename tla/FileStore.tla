------------------------------ MODULE FileStore ------------------------------
(***************************************************************************)
(* What a sync-target backend promises the sync round (adapters/README.md):*)
(* listing, reading, writing and deleting of files in a repository that    *)
(* other devices write to as well.                                         *)
(*                                                                         *)
(* A write or deletion takes effect at most once, at one moment, and only  *)
(* on the version it names; it may do so after the call has failed.  Each  *)
(* file of a listing is as it was at some moment of the call.              *)
(***************************************************************************)
CONSTANTS
    Paths, Texts,
    None,           \* no file, no revision, no call
    Unseen

VARIABLES
    files,          \* path -> its text, or None
    call,           \* the call under way, or None
    late,           \* effects of failed calls that are still to come
    answer          \* of the last call: its code and the revision or files seen

Ops == {"open", "list", "read", "write", "delete"}
Failures == {"auth", "absent", "limited", "broken", "network"}
File == Texts \cup {None}
Effect == [path : Paths, expect : File, text : File]
\* rev names the version to be replaced; sent is the effect asked for; done is
\* what has become of it; seen: the files as the call has found them.
CallRec == [op : Ops, path : Paths, text : File, rev : File, sent : Effect \cup {None},
            done : {"no", "applied", "refused"}, seen : [Paths -> File \cup {Unseen}]]
vars == <<files, call, late, answer>>

Init ==
    /\ files \in [Paths -> File] /\ call = None /\ late = {} /\ answer = None

Sees(P) == [p \in Paths |-> IF p \in P THEN files[p] ELSE call.seen[p]]
\* A write names the version it was given, or that there is none; a deletion
\* without one names any.
Asks(c, e) ==
    /\ c.op \in {"write", "delete"} /\ e.path = c.path /\ e.text = c.text
    /\ c.op = "write" \/ c.rev # None => e.expect = c.rev

Begin ==
    /\ call = None /\ call' \in CallRec
    /\ call'.done = "no" /\ call'.seen = [p \in Paths |-> Unseen]
    /\ call'.sent # None => Asks(call', call'.sent)
    /\ answer' = None /\ UNCHANGED <<files, late>>

\* The call learns some files at this moment; a listing learns each once.
Observe(P) ==
    /\ call # None
    /\ call.op = "list" => \A p \in P : call.seen[p] = Unseen
    /\ call' = [call EXCEPT !.seen = Sees(P)] /\ UNCHANGED <<files, late, answer>>

Intend(e) ==
    /\ call # None /\ call.sent = None /\ call.done = "no" /\ Asks(call, e)
    /\ call' = [call EXCEPT !.sent = e] /\ UNCHANGED <<files, late, answer>>

Takes(e) == files[e.path] = e.expect /\ files' = [files EXCEPT ![e.path] = e.text]
Apply ==
    /\ call # None /\ call.sent # None /\ call.done = "no" /\ Takes(call.sent)
    /\ call' = [call EXCEPT !.done = "applied", !.seen[call.path] = call.text]
    /\ UNCHANGED <<late, answer>>
\* The effect will never come.
Refuse ==
    /\ call # None /\ call.sent # None /\ call.done = "no"
    /\ \E P \in SUBSET {call.path} : call' = [call EXCEPT !.done = "refused", !.seen = Sees(P)]
    /\ UNCHANGED <<files, late, answer>>

ApplyLate(e) == e \in late /\ Takes(e) /\ late' = late \ {e} /\ UNCHANGED <<call, answer>>
DropLate(e) == e \in late /\ late' = late \ {e} /\ UNCHANGED <<files, call, answer>>

\* "Missing files return null", and "missing files succeed silently" when they
\* are deleted.
Succeed ==
    /\ call # None /\ call' = None
    /\ CASE call.op = "open" -> TRUE
         [] call.op = "list" -> \A p \in Paths : call.seen[p] # Unseen
         [] call.op = "read" -> call.seen[call.path] # Unseen
         [] call.op = "write" -> call.done = "applied"
         [] call.op = "delete" -> call.seen[call.path] = None
    /\ answer' = [code |-> "ok", seen |-> call.seen] /\ UNCHANGED <<files, late>>

Fails(code) ==
    /\ call # None /\ call' = None /\ UNCHANGED files
    /\ answer' = [code |-> code, seen |-> [p \in Paths |-> Unseen]]
\* "A stale rev must throw a rev-mismatch error (never silently overwrite)":
\* then nothing was written, nor will be.
Mismatch ==
    /\ Fails("mismatch") /\ UNCHANGED late
    /\ call.done # "refused" =>
         call.sent = None /\ call.seen[call.path] \notin {Unseen, call.rev}
\* Any other failure says nothing of the effect.
FailWith(code) ==
    /\ Fails(code)
    /\ late' \in {late, IF call.sent # None /\ call.done = "no" THEN late \cup {call.sent} ELSE late}

\* Others write and delete files, several at once too; a repository that cannot
\* be reached has none until it can be again.
Foreign == files' \in [Paths -> File] /\ files' # files /\ UNCHANGED <<call, late, answer>>

Next ==
    \/ Begin
    \/ \E P \in SUBSET Paths : Observe(P)
    \/ \E e \in Effect : Intend(e)
    \/ Apply \/ Refuse \/ \E e \in late : ApplyLate(e) \/ DropLate(e)
    \/ Succeed \/ Mismatch \/ \E code \in Failures : FailWith(code)
    \/ Foreign

Spec == Init /\ [][Next]_vars
=============================================================================
