--------------------------- MODULE DocumentSession ---------------------------
(***************************************************************************)
(* One tab: the home page with its editor, the document controller with    *)
(* its draft and autosave timer, and the documents service over browser    *)
(* storage.  Every operation of the controller is a chain of awaited       *)
(* storage requests; several operations may be under way at once, and the  *)
(* user types and the timer fires in between.  An action whose parameter   *)
(* is a slot serves the request the operation in that slot waits for and   *)
(* runs it on to its next request; the order of the answers is left open.  *)
(*                                                                         *)
(* A record is its title and content.  Folders and the lock are left out:  *)
(* to set either is to rewrite the whole record, which is Rewrite.         *)
(***************************************************************************)
EXTENDS Naturals, FiniteSets

CONSTANTS
    Ids,            \* document ids, each used once
    MaxTitle,       \* titles are 1 .. MaxTitle: 1 is the untitled name, k its
                    \* k-th variant
    Texts,          \* what a document may contain
    Blank, Sample,  \* the text of a new document, and of the welcome document
    Guide,          \* the text of the built-in guide
    None,
    Slots,          \* bound: operations under way at once
    Manners,        \* "calm": the user waits for each operation to end, no
                    \* autosave falls into one, and the guide stays closed;
                    \* "hasty": none of these
    MaxActs         \* bound, of each manner: what the user and other devices do

ASSUME TextsDiffer == /\ {Blank, Sample} \subseteq Texts /\ Guide \notin Texts
                      /\ None \notin Ids \cup Texts \cup {Guide} \cup 1 .. MaxTitle
ASSUME NoneIsNoRecord == None \notin [title : 1 .. MaxTitle, content : Texts \cup {Guide}]
ASSUME SessionBounds == MaxActs \in [Manners -> Nat] /\ MaxTitle \in Nat \ {0}
ASSUME MannersKnown == Manners \subseteq {"calm", "hasty"}

VARIABLES
    manner, acts,
    docs,       \* storage: id -> record or None
    calls,      \* slot -> the operation under way in it, or None
    currentId, docTitle, draft, timer,      \* the document controller
    editor,     \* text of the mounted editor, None while it is unmounted
    builtIn,    \* whether the built-in guide is open
    latest,     \* history: what each document should hold (see Refused)
    texts       \* history: every text each document has had

page == <<currentId, docTitle, draft, timer, editor, builtIn>>
store == <<docs, latest, texts>>
vars == <<manner, acts, calls, store, page>>

Titles == 1 .. MaxTitle
Shown == Texts \cup {Guide}
Rec == [title : Titles, content : Shown]
NoRec == None
Store == [Ids -> Rec \cup {NoRec}]

\* The request an operation waits for.
Steps == {"query", "write",                             \* saveDocument
          "name", "make", "lists",                      \* createDocument
          "open",                                       \* switchDocument
          "erase", "refresh", "survivors", "welcome", "reopen",  \* confirmDelete
          "fetch", "unique", "replace",                 \* renameDocument, setReadOnly
          "network", "prune", "relist", "readopt"}      \* a sync run
\* id: the document it is about; then, goal: the step to go on with, and its
\* document; the rest is what it has read or will write.
Call == [step : Steps, id : Ids \cup {None}, then : Steps \cup {"done"},
         goal : Ids \cup {None}, title : Titles, text : Shown,
         found : Rec \cup {NoRec}, listed : Store \cup {None}]
ASSUME NoneIsNoCall == None \notin Call

NewCall(step, i) == [step |-> step, id |-> i, then |-> "done", goal |-> None, title |-> 1,
                     text |-> Blank, found |-> NoRec, listed |-> None]

Stored == {i \in Ids : docs[i] # NoRec}
Unused == {i \in Ids : texts[i] = {}}
isTitleTaken(title, except) == \E i \in Stored \ {except} : docs[i].title = title
Namesakes(i) == {j \in Stored \ {i} : i \in Stored /\ docs[j].title = docs[i].title}

\* The page has loaded and ensureInitial has asked for the list.
Init ==
    /\ manner \in Manners /\ acts = 0
    /\ docs \in [Ids -> [title : Titles, content : Texts] \cup {NoRec}]
    /\ \E s \in Slots : calls = [r \in Slots |->
          IF r = s THEN [NewCall("survivors", None) EXCEPT !.text = Sample] ELSE None]
    /\ currentId = None /\ docTitle = None /\ draft = None /\ timer = FALSE
    /\ editor = None /\ builtIn = FALSE
    /\ latest = [i \in Ids |-> IF docs[i] = NoRec THEN None ELSE docs[i].content]
    /\ texts = [i \in Ids |-> IF docs[i] = NoRec THEN {} ELSE {docs[i].content}]
-----------------------------------------------------------------------------
(* The page and the controller *)

\* readEditorContent() ?? draft ?? ''
Content == IF editor # None THEN editor ELSE IF draft # None THEN draft ELSE Blank

\* What the editor shows when mounted, or when the guide is closed.
Draft == IF draft # None THEN draft ELSE Sample

\* The timer runs whether a document is open or not.
scheduleSaveBug == timer' = TRUE
scheduleSave == timer' = (timer \/ currentId # None)

\* The editor is unmounted, its text parked in the draft; rendering mounts it
\* again.
requestEditor ==
    /\ draft' = IF editor = None THEN draft ELSE editor
    /\ editor' = None
    /\ UNCHANGED <<currentId, docTitle, timer, builtIn>>

\* The record is adopted before the editor is unmounted.
applyResultBug(i, record) ==
    /\ currentId' = i /\ docTitle' = record.title
    /\ draft' = IF editor = None THEN record.content ELSE editor
    /\ editor' = None /\ builtIn' = FALSE
    /\ UNCHANGED timer

\* The editor is unmounted, then the record adopted.  A save scheduled
\* meanwhile stays scheduled.
applyResult(i, record) ==
    /\ currentId' = i /\ docTitle' = record.title /\ draft' = record.content
    /\ editor' = None /\ builtIn' = FALSE
    /\ UNCHANGED timer

mountEditor ==
    /\ editor = None
    /\ editor' = IF builtIn THEN Guide ELSE Draft
    /\ UNCHANGED <<manner, acts, calls, store, currentId, docTitle, draft, timer, builtIn>>
-----------------------------------------------------------------------------
(* What the user and the timer start *)

Idle == \A s \in Slots : calls[s] = None
UserMay == acts < MaxActs[manner] /\ acts' = acts + 1 /\ (manner = "calm" => Idle) /\ UNCHANGED manner
OnPage == UserMay /\ UNCHANGED <<calls, docs>>
OnStore == UserMay /\ UNCHANGED <<store, currentId, docTitle, draft, editor, builtIn>>
Start(s, call) == calls[s] = None /\ calls' = [calls EXCEPT ![s] = call]

\* A save of the open document, after which step goes on with document i.
saveNow(step, i) == [NewCall("query", currentId) EXCEPT
                        !.then = step, !.goal = i, !.title = docTitle, !.text = Content]

\* A save is dropped instead.
flushSaveBug(s, step, i) == timer' = FALSE /\ Start(s, NewCall(step, i))

\* A scheduled save is made before step.
flushSave(s, step, i) ==
    /\ timer' = FALSE
    /\ Start(s, IF timer THEN saveNow(step, i) ELSE NewCall(step, i))

FireTimer(s) ==
    /\ timer /\ (manner = "calm" => Idle)
    /\ timer' = FALSE /\ Start(s, saveNow("done", None))
    /\ UNCHANGED <<manner, acts, store, currentId, docTitle, draft, editor, builtIn>>

Type(t) ==
    /\ OnPage /\ editor # None /\ ~builtIn /\ t # editor
    /\ editor' = t /\ draft' = t /\ scheduleSave
    /\ IF currentId = None THEN UNCHANGED <<latest, texts>>
       ELSE /\ latest' = [latest EXCEPT ![currentId] = t]
            /\ texts' = [texts EXCEPT ![currentId] = @ \cup {t}]
    /\ UNCHANGED <<currentId, docTitle, builtIn>>

\* A changed setting remounts the editor.
applySetting == OnPage /\ editor # None /\ requestEditor /\ UNCHANGED <<latest, texts>>

\* The text in the editor is parked in the draft, also when it is the guide.
openBuiltin ==
    /\ manner = "hasty" /\ OnPage /\ editor # None
    /\ draft' = editor /\ editor' = Guide /\ builtIn' = TRUE
    /\ UNCHANGED <<latest, texts, currentId, docTitle, timer>>
\* Setting the editor back is a change like any other, and scheduled.
closeBuiltin ==
    /\ OnPage /\ builtIn /\ builtIn' = FALSE
    /\ IF editor = None THEN UNCHANGED <<editor, draft, timer>>
       ELSE editor' = Draft /\ draft' = Draft /\ scheduleSave
    /\ UNCHANGED <<latest, texts, currentId, docTitle>>

switchDocument(s, i) == OnStore /\ i \in Stored \ {currentId} /\ flushSave(s, "open", i)
createDocument(s) == OnStore /\ flushSave(s, "name", None)
\* The timer is cleared only if the open document goes.
confirmDelete(s, i) ==
    /\ OnStore /\ i \in Stored /\ timer' = (timer /\ i # currentId)
    /\ Start(s, [NewCall("erase", i) EXCEPT
                    !.then = IF i = currentId THEN "survivors" ELSE "refresh"])
renameDocument(s, i, title) ==
    /\ OnStore /\ i \in Stored /\ UNCHANGED timer
    /\ Start(s, [NewCall("fetch", i) EXCEPT !.then = "unique", !.title = title])
\* setLock, moveDocument.
Rewrite(s, i) ==
    /\ OnStore /\ i \in Stored /\ UNCHANGED timer
    /\ Start(s, [NewCall("fetch", i) EXCEPT !.then = "replace"])
runNow(s) == OnStore /\ flushSave(s, "network", None)
-----------------------------------------------------------------------------
(* Storage answers *)

At(s, step) == calls[s] # None /\ calls[s].step = step
Goto(s, call) == calls' = [calls EXCEPT ![s] = call]
On(s, step) == [calls[s] EXCEPT !.step = step]
End(s) == Goto(s, None)
Proceed(s) == IF calls[s].then = "done" THEN End(s)
              ELSE Goto(s, NewCall(calls[s].then, calls[s].goal))
Served == UNCHANGED <<manner, acts>>
Stays == Served /\ UNCHANGED store       \* storage was only read
Writes(i, record) == docs' = [docs EXCEPT ![i] = record]

\* What a refused save would have stored is lost if a namesake is why: from
\* then on the document should hold what it does hold.
Refused(i) ==
    latest' = IF Namesakes(i) = {} THEN latest ELSE [latest EXCEPT ![i] = docs[i].content]

\* saveDocument: the title is looked up, then the record written.  A save that
\* fails is only logged, and what waited for it goes on.
SaveTitleTaken(s) ==
    /\ At(s, "query") /\ isTitleTaken(calls[s].title, calls[s].id)
    /\ Refused(calls[s].id)
    /\ Proceed(s) /\ Served /\ UNCHANGED <<docs, texts, page>>
SaveTitleFree(s) ==
    /\ At(s, "query") /\ ~isTitleTaken(calls[s].title, calls[s].id)
    /\ Goto(s, On(s, "write")) /\ Stays /\ UNCHANGED page
SaveWrite(s) ==
    /\ At(s, "write")
    /\ Writes(calls[s].id, [title |-> calls[s].title, content |-> calls[s].text])
    /\ Proceed(s) /\ Served /\ UNCHANGED <<latest, texts, page>>

\* createDocument tries one title after the other; the welcome document and
\* the one that replaces the last are made by a single saveDocument.
NameTaken(s) ==
    /\ At(s, "name") \/ At(s, "welcome")
    /\ isTitleTaken(calls[s].title, None)
    /\ IF At(s, "name") /\ calls[s].title < MaxTitle
       THEN Goto(s, [calls[s] EXCEPT !.title = @ + 1]) ELSE End(s)
    /\ Stays /\ UNCHANGED page
NameFree(s) ==
    /\ At(s, "name") \/ At(s, "welcome")
    /\ ~isTitleTaken(calls[s].title, None)
    /\ Goto(s, [On(s, "make") EXCEPT !.then = IF At(s, "name") THEN "lists" ELSE "done"])
    /\ Stays /\ UNCHANGED page
Make(s, i) ==
    /\ At(s, "make") /\ i \in Unused
    /\ LET record == [title |-> calls[s].title, content |-> calls[s].text]
       IN /\ Writes(i, record)
          /\ IF calls[s].then = "lists"
             THEN /\ Goto(s, [On(s, "lists") EXCEPT !.id = i, !.found = record])
                  /\ UNCHANGED page
             ELSE End(s) /\ applyResult(i, record)
    /\ latest' = [latest EXCEPT ![i] = calls[s].text]
    /\ texts' = [texts EXCEPT ![i] = {calls[s].text}]
    /\ Served

Open(s) ==
    /\ At(s, "open")
    /\ IF calls[s].id \in Stored
       THEN Goto(s, [On(s, "lists") EXCEPT !.found = docs[calls[s].id]]) ELSE End(s)
    /\ Stays /\ UNCHANGED page
Lists(s) ==
    /\ At(s, "lists") /\ applyResult(calls[s].id, calls[s].found)
    /\ End(s) /\ Stays

Erase(s) ==
    /\ At(s, "erase") /\ Writes(calls[s].id, NoRec)
    /\ latest' = [latest EXCEPT ![calls[s].id] = None]
    /\ Proceed(s) /\ Served /\ UNCHANGED <<texts, page>>
Refresh(s) == At(s, "refresh") /\ requestEditor /\ End(s) /\ Stays
\* The most recent document is opened; which one is most recent is left open.
Survivors(s) ==
    /\ At(s, "survivors")
    /\ IF Stored = {} THEN Goto(s, On(s, "welcome"))
       ELSE \E i \in Stored : Goto(s, [On(s, "reopen") EXCEPT !.id = i, !.found = docs[i]])
    /\ Stays /\ UNCHANGED page
Reopen(s) ==
    /\ At(s, "reopen")
    /\ applyResult(calls[s].id, IF calls[s].id \in Stored THEN docs[calls[s].id]
                                ELSE calls[s].found)
    /\ End(s) /\ Stays

\* The record is read whole, and later written whole.
Fetch(s) ==
    /\ At(s, "fetch")
    /\ LET i == calls[s].id
           read == [On(s, calls[s].then) EXCEPT !.found = docs[i]]
       IN IF i \notin Stored THEN End(s)
          ELSE Goto(s, IF read.step = "unique" THEN read
                       ELSE [read EXCEPT !.title = docs[i].title])
    /\ Stays /\ UNCHANGED page
\* The title is not looked up.
UniqueBug(s) ==
    /\ At(s, "unique") /\ Goto(s, On(s, "replace")) /\ Stays /\ UNCHANGED page
Unique(s) ==
    /\ At(s, "unique")
    /\ IF isTitleTaken(calls[s].title, calls[s].id) THEN End(s) ELSE Goto(s, On(s, "replace"))
    /\ Stays /\ UNCHANGED page
Replace(s) ==
    /\ At(s, "replace")
    /\ LET call == calls[s]
       IN /\ Writes(call.id, [call.found EXCEPT !.title = call.title])
          /\ IF call.then = "replace" THEN End(s) /\ UNCHANGED page
             ELSE /\ docTitle' = IF call.id = currentId THEN call.title ELSE docTitle
                  /\ Goto(s, NewCall("refresh", None))
                  /\ UNCHANGED <<currentId, draft, timer, editor, builtIn>>
    /\ Served /\ UNCHANGED <<latest, texts>>
-----------------------------------------------------------------------------
(* A sync run writes storage behind the page, which reloads when it ends *)

Elsewhere == acts < MaxActs[manner] /\ acts' = acts + 1 /\ UNCHANGED <<manner, page>>

\* A new document has the title its file's name gives, taken or not.
Pull(s, i, t) ==
    /\ At(s, "network") /\ Elsewhere /\ UNCHANGED calls
    /\ IF i \in Stored THEN Writes(i, [docs[i] EXCEPT !.content = t])
       ELSE /\ i \in Unused
            /\ \E title \in Titles : Writes(i, [title |-> title, content |-> t])
    /\ latest' = [latest EXCEPT ![i] = t]
    /\ texts' = [texts EXCEPT ![i] = @ \cup {t}]
\* Deletions come last, after every request to the network.
PullDeletion(s, i) ==
    /\ At(s, "network") \/ At(s, "prune")
    /\ Elsewhere /\ Goto(s, On(s, "prune"))
    /\ i \in Stored /\ Writes(i, NoRec)
    /\ latest' = [latest EXCEPT ![i] = None] /\ UNCHANGED texts

SyncEnds(s) ==
    /\ At(s, "network") \/ At(s, "prune")
    /\ Goto(s, On(s, "relist")) /\ Stays /\ UNCHANGED page
\* After a failed run the page does not reload.
SyncFails(s) == At(s, "network") /\ End(s) /\ Stays /\ UNCHANGED page

Relist(s) ==
    /\ At(s, "relist") /\ Goto(s, [On(s, "readopt") EXCEPT !.listed = docs])
    /\ Stays /\ UNCHANGED page

\* The page adopts the listed record of the open document, or of another if it
\* is gone.  A mounted editor that shows another text is set to the record's;
\* that is a change, and scheduled.
Readopt(s, i) ==
    /\ At(s, "readopt")
    /\ LET listed == calls[s].listed
       IN /\ listed[i] # NoRec
          /\ currentId # None /\ listed[currentId] # NoRec => i = currentId
          /\ currentId' = i /\ docTitle' = listed[i].title /\ draft' = listed[i].content
          /\ IF editor # None /\ ~builtIn /\ editor # listed[i].content
             THEN editor' = listed[i].content /\ timer' = TRUE
             ELSE UNCHANGED <<editor, timer>>
    /\ End(s) /\ Stays /\ UNCHANGED builtIn
\* Nothing is left: as on loading the page.
ReadoptNothing(s) ==
    /\ At(s, "readopt") /\ \A i \in Ids : calls[s].listed[i] = NoRec
    /\ Goto(s, [NewCall("survivors", None) EXCEPT !.text = Sample])
    /\ Stays /\ UNCHANGED page
-----------------------------------------------------------------------------
Starts(s) ==
    \/ FireTimer(s) \/ createDocument(s) \/ runNow(s)
    \/ \E i \in Ids : \/ switchDocument(s, i) \/ confirmDelete(s, i) \/ Rewrite(s, i)
                      \/ \E title \in Titles : renameDocument(s, i, title)
Answer(s) ==
    \/ SaveTitleTaken(s) \/ SaveTitleFree(s) \/ SaveWrite(s)
    \/ NameTaken(s) \/ NameFree(s) \/ (\E i \in Ids : Make(s, i))
    \/ Open(s) \/ Lists(s) \/ Erase(s) \/ Refresh(s) \/ Survivors(s) \/ Reopen(s)
    \/ Fetch(s) \/ Unique(s) \/ Replace(s)
Sync(s) ==
    \/ \E i \in Ids : PullDeletion(s, i) \/ Readopt(s, i) \/ \E t \in Texts : Pull(s, i, t)
    \/ SyncEnds(s) \/ SyncFails(s) \/ Relist(s) \/ ReadoptNothing(s)

Next ==
    \/ mountEditor \/ applySetting \/ openBuiltin \/ closeBuiltin
    \/ \E t \in Texts : Type(t)
    \/ \E s \in Slots : Starts(s) \/ Answer(s) \/ Sync(s)

Spec == Init /\ [][Next]_vars
-----------------------------------------------------------------------------
\* Types.  A save is pending only while a document is open.
TypeOK ==
    /\ manner \in Manners /\ acts \in 0 .. MaxActs[manner]
    /\ docs \in Store /\ calls \in [Slots -> Call \cup {None}]
    /\ currentId \in Ids \cup {None} /\ docTitle \in Titles \cup {None}
    /\ draft \in Shown \cup {None} /\ editor \in Shown \cup {None}
    /\ timer \in BOOLEAN /\ builtIn \in BOOLEAN
    /\ latest \in [Ids -> Shown \cup {None}] /\ texts \in [Ids -> SUBSET Texts]
    /\ timer => currentId # None

\* No text but the guide is ever stored in a document it was not typed in, made
\* with or pulled into, however saves, switches, deletions and sync runs
\* overlap: the title, text and id a save carries belong together.
OwnText == \A i \in Stored : docs[i].content \in texts[i] \cup {Guide}

\* When nothing is under way and no save is pending, storage holds what was
\* last typed in, made with or pulled into each document, and none that was
\* deleted: the flushes before a switch, a creation and a sync run miss nothing,
\* and no save comes too late.  This is for a calm user, and with one exception:
\* a document that shares its title with another stored one (TitlesUnique says
\* how that comes about) has its saves refused as duplicates, what was typed is
\* not stored, and nobody is told.
KeptTyping ==
    manner = "calm" /\ Idle /\ ~timer =>
        \A i \in Ids : latest[i] = IF i \in Stored THEN docs[i].content ELSE None

\* Two documents of a calm user come to share a title in one way only: a sync
\* run stores a new document whose title is taken.  Creations, copies, renames
\* and saves keep titles apart, also next to such namesakes.
TitlesUnique ==
    [][manner = "calm" =>
        \A i \in Stored' : \A j \in Namesakes(i)' :
            \/ j \in Namesakes(i)
            \/ {i, j} \cap Stored # {i, j} /\ \E s \in Slots : At(s, "network")]_vars
=============================================================================
