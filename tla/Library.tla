------------------------------- MODULE Library -------------------------------
(***************************************************************************)
(* The library of documents and folders: the folder half of the documents  *)
(* service, the operations of the document controller that use it (folder  *)
(* and document management, the delete confirmations, the import of a disk *)
(* folder) and the way a sync run files a pulled document.                 *)
(*                                                                         *)
(* An operation is a script of the controller that awaits one call of the  *)
(* service after another; a call is a chain of storage requests, and every *)
(* request is one step.  Operations overlap.  A request may fail, and the  *)
(* tab may be closed between any two.  What is typed, and the autosave, is *)
(* DocumentSession.                                                        *)
(***************************************************************************)
EXTENDS Naturals, Sequences, FiniteSets

CONSTANTS
    Tasks,              \* bound: operations under way at once
    None, Root,         \* no value; the folderId null
    Base,               \* file and folder names without the counter
    sanitizePathSegment,\* a name as a segment of a remote path
    NewFolder, NewTitle,\* the names of what is created without a name
    File, Dir, Name,    \* the disk folder: its files, the directories each is
                        \* in, its name
    DiskRoot,           \* the name of the disk folder
    Foreign,            \* what other devices add: sequences of names
    Start,              \* the stores the page may be opened on, each with
                        \* the manner of its user and the browser it is of
    MaxOps, MaxFails, MaxDisk   \* bounds, the first two of each manner:
                        \* operations, failures, disk edits

Counted == [base : Base, n : Nat \ {0}]         \* `name`, `name 2`, `name 3` ...
Plain(b) == [base |-> b, n |-> 1]
\* A calm user waits for each operation to end, a hasty one lets them overlap.
Manner == {"calm", "hasty"}

ASSUME NamesKnown ==
    /\ {NewFolder, NewTitle, DiskRoot} \subseteq Base
    /\ sanitizePathSegment \in [Base -> Base]
    /\ \A b \in Base : sanitizePathSegment[sanitizePathSegment[b]] = sanitizePathSegment[b]
    /\ Dir \in [File -> Seq(Base)] /\ Name \in [File -> Base]
    /\ Foreign \subseteq Seq(Base) \ {<<>>}
    /\ \A p \in Foreign : \A k \in DOMAIN p : sanitizePathSegment[p[k]] = p[k]
ASSUME SentinelsDiffer == /\ None # Root /\ {None, Root} \cap (Nat \cup File \cup Base) = {}
                          /\ None \notin [id : Nat, title : Counted]
                          /\ None \notin [kind : {"confirm", "confirm-folder", "properties"}, id : Nat]
ASSUME LibraryBounds == {MaxOps, MaxFails} \subseteq [Manner -> Nat] /\ MaxDisk \in Nat

\* The stores of Start are ones the program has written, each id given to one
\* folder or one document; no earlier session let folder operations overlap
\* or left a folder's deletion half done.
Text == (File \cup {None}) \X Nat
ASSUME StartsKnown == \A s \in Start :
    /\ s.manner \in Manner /\ s.picker \in BOOLEAN
    /\ IsFiniteSet(DOMAIN s.folders) /\ IsFiniteSet(DOMAIN s.docs)
    /\ DOMAIN s.folders \cap DOMAIN s.docs = {}
    /\ DOMAIN s.folders \cup DOMAIN s.docs =
           1 .. Cardinality(DOMAIN s.folders) + Cardinality(DOMAIN s.docs)
    /\ s.folders \in [DOMAIN s.folders -> [name : Counted, parent : DOMAIN s.folders \cup {Root}]]
    /\ s.docs \in [DOMAIN s.docs -> [title : Counted, folder : DOMAIN s.folders \cup {Root},
                                     origin : File \cup {None}, text : Text]]
    /\ \A f, g \in DOMAIN s.folders : s.folders[f] = s.folders[g] => f = g

VARIABLES
    folders,    \* storage: folder id -> [name, parent]
    docs,       \* storage: document id -> [title, folder, origin, text]
    ids,        \* ids given out so far
    disk,       \* disk file -> version
    task,       \* running task -> its script
    call,       \* task -> the service call its script awaits
    view,       \* the controller's lists: [folders, docs]
    current,    \* the open document, or None
    armed,      \* confirmDeleteId, confirmFolderDeleteId, propsRecord
    modal,      \* what the mounted dialog shows: [kind, id], or None
    manner, ops, fails, \* the user's manner, and counters of the bounds
    picker,     \* the browser has a directory picker
    overlaps,   \* history: the pairs of operations that have overlapped
    misfiled,   \* history: a failed look-up was taken for a missing folder
    answered    \* history: the dialog on show has been answered

store == <<folders, docs, ids>>
page == <<view, current, armed, modal, answered>>
setting == <<manner, picker>>
vars == <<store, disk, task, call, page, ops, fails, overlaps, misfiled, setting>>

Running(t) == t \in DOMAIN task
Empty == [x \in {} |-> None]
With(f, x, v) == [y \in DOMAIN f \cup {x} |-> IF y = x THEN v ELSE f[y]]
Without(f, x) == [y \in DOMAIN f \ {x} |-> f[y]]
FolderOf(d) == docs[d].folder
NoArmed == [doc |-> None, folder |-> None, props |-> None]

(***************************************************************************)
(* Trees.                                                                  *)
(***************************************************************************)
\* What is reached from Top along the links, at most each link once.
Follow(links, S) == {l[2] : l \in {k \in links : k[1] \in S}}
Reach(links, Top) ==
    LET upTo[n \in 0 .. Cardinality(links)] ==
            IF n = 0 THEN Top ELSE upTo[n - 1] \cup Follow(links, upTo[n - 1])
    IN  upTo[Cardinality(links)]

Children(fs) == {<<fs[f].parent, f>> : f \in DOMAIN fs}
\* What is below the folder is left.
collectFolderTreeBug(fs, f) == {f}
collectFolderTree(fs, f) == Reach(Children(fs), {f})

\* The folders buildFolderTree renders: those that hang from the root.
Rendered(fs) == Reach(Children(fs), {Root})

Matches(fs, parent, name) == {f \in DOMAIN fs : fs[f].parent = parent /\ fs[f].name = name}
isFolderNameTaken(fs, name, parent, except) == Matches(fs, parent, name) \ {except} # {}

\* folderParts and pathForRecord: the names above a document, and its own.
Chain(fs, f) ==
    LET up[n \in 0 .. Cardinality(DOMAIN fs)] == [g \in DOMAIN fs |->
                IF n = 0 THEN <<>>
                ELSE Append(IF fs[g].parent \in DOMAIN fs THEN up[n - 1][fs[g].parent] ELSE <<>>, fs[g].name)]
    IN  IF f \in DOMAIN fs THEN up[Cardinality(DOMAIN fs)][f] ELSE <<>>
Clean(name) == [name EXCEPT !.base = sanitizePathSegment[@]]
pathForRecord(fs, d) ==
    LET names == Append(Chain(fs, d.folder), d.title)
    IN  [k \in DOMAIN names |-> Clean(names[k])]

(***************************************************************************)
(* The documents service.  A call advances by one request per step and     *)
(* hands its result to the script, or fails it.                            *)
(***************************************************************************)
Await(t, c) == call' = With(call, t, c)
Return(t, value) == call' = Without(call, t) /\ task' = [task EXCEPT ![t].got = value]
Abort(t) == call' = Without(call, t) /\ task' = Without(task, t)
At(t, fn, pc) == t \in DOMAIN call /\ call[t].fn = fn /\ call[t].pc = pc
Goto(t, pc) == Await(t, [call[t] EXCEPT !.pc = pc]) /\ UNCHANGED task

writeFolder(id, f) == folders' = With(folders, id, f)
writeDoc(id, d) == docs' = With(docs, id, d)
Fresh == ids + 1

createFolderCall(name, parent) ==
    [fn |-> "createFolder", pc |-> "resolve", name |-> name, parent |-> parent]
renameFolderCall(id, name) ==
    [fn |-> "renameFolder", pc |-> "read", id |-> id, name |-> name, found |-> None]
deleteFolderCall(id) ==
    [fn |-> "deleteFolder", pc |-> "folders", id |-> id, doomed |-> {}, victims |-> {}]
moveCall(id, folder) ==
    [fn |-> "move", pc |-> "read", id |-> id, folder |-> folder, found |-> None]
\* saveDocument of a known document: folder and origin stay what they are.
saveCall(id, title, text) ==
    [fn |-> "save", pc |-> "check", id |-> id, title |-> title, text |-> text,
     folder |-> None, origin |-> None, grow |-> FALSE]
\* createDocument: saveDocument of a fresh id, under the first free title.
createCall(title, folder, origin) ==
    [fn |-> "save", pc |-> IF folder = Root THEN "check" ELSE "resolve0", id |-> None,
     title |-> title, text |-> <<None, 0>>, folder |-> folder, origin |-> origin, grow |-> TRUE]

resolveFolderId(f) == IF f \in DOMAIN folders THEN f ELSE Root

CreateFolderResolve(t) ==
    /\ At(t, "createFolder", "resolve")
    /\ Await(t, [call[t] EXCEPT !.pc = "check", !.parent = resolveFolderId(@)])
    /\ UNCHANGED <<store, task>>

CreateFolderCheck(t) ==
    /\ At(t, "createFolder", "check")
    /\ IF isFolderNameTaken(folders, call[t].name, call[t].parent, None)
       THEN Await(t, [call[t] EXCEPT !.name.n = @ + 1])
       ELSE Await(t, [call[t] EXCEPT !.pc = "write"])
    /\ UNCHANGED <<store, task>>

CreateFolderWrite(t) ==
    /\ At(t, "createFolder", "write")
    /\ writeFolder(Fresh, [name |-> call[t].name, parent |-> call[t].parent])
    /\ ids' = Fresh
    /\ Return(t, [id |-> Fresh, title |-> call[t].name])
    /\ UNCHANGED docs

RenameFolderRead(t) ==
    /\ At(t, "renameFolder", "read")
    /\ IF call[t].id \in DOMAIN folders
       THEN Await(t, [call[t] EXCEPT !.pc = "check", !.found = folders[call[t].id]]) /\ UNCHANGED task
       ELSE Return(t, None)
    /\ UNCHANGED store

\* The names below the folder are compared, not those beside it.
RenameFolderCheckBug(t) ==
    /\ At(t, "renameFolder", "check")
    /\ IF isFolderNameTaken(folders, call[t].name, call[t].id, call[t].id)
       THEN Abort(t)
       ELSE Goto(t, "write")
    /\ UNCHANGED store
RenameFolderCheck(t) ==
    /\ At(t, "renameFolder", "check")
    /\ IF isFolderNameTaken(folders, call[t].name, call[t].found.parent, call[t].id)
       THEN Abort(t)                                    \* FOLDER_TITLE_DUPLICATE
       ELSE Goto(t, "write")
    /\ UNCHANGED store

RenameFolderWrite(t) ==
    /\ At(t, "renameFolder", "write")
    /\ writeFolder(call[t].id, [call[t].found EXCEPT !.name = call[t].name])
    /\ Return(t, [id |-> call[t].id, title |-> call[t].name])
    /\ UNCHANGED <<docs, ids>>

DeleteFolderFolders(t) ==
    /\ At(t, "deleteFolder", "folders")
    /\ IF call[t].id \in DOMAIN folders
       THEN /\ Await(t, [call[t] EXCEPT !.pc = "docs", !.doomed = collectFolderTree(folders, call[t].id)])
            /\ UNCHANGED task
       ELSE Return(t, None)
    /\ UNCHANGED store

\* The documents of folders below it are left.
DeleteFolderDocsBug(t) ==
    /\ At(t, "deleteFolder", "docs")
    /\ Await(t, [call[t] EXCEPT !.pc = "drop",
                     !.victims = {d \in DOMAIN docs : docs[d].folder = call[t].id}])
    /\ UNCHANGED <<store, task>>
DeleteFolderDocs(t) ==
    /\ At(t, "deleteFolder", "docs")
    /\ Await(t, [call[t] EXCEPT !.pc = "drop",
                     !.victims = {d \in DOMAIN docs : docs[d].folder \in call[t].doomed}])
    /\ UNCHANGED <<store, task>>

\* Documents before folders, and a folder before the folders in it.
DropDoc(t) ==
    /\ At(t, "deleteFolder", "drop") /\ call[t].victims # {}
    /\ \E d \in call[t].victims :
          /\ docs' = Without(docs, d)
          /\ Await(t, [call[t] EXCEPT !.victims = @ \ {d}])
    /\ UNCHANGED <<folders, ids, task>>
DropFolder(t) ==
    /\ At(t, "deleteFolder", "drop") /\ call[t].victims = {}
    /\ \E f \in call[t].doomed :
          /\ f \in DOMAIN folders => folders[f].parent \notin call[t].doomed
          /\ folders' = Without(folders, f)
          /\ IF call[t].doomed = {f} THEN Return(t, None)
             ELSE Await(t, [call[t] EXCEPT !.doomed = @ \ {f}]) /\ UNCHANGED task
    /\ UNCHANGED <<docs, ids>>

MoveRead(t) ==
    /\ At(t, "move", "read")
    /\ IF call[t].id \in DOMAIN docs
       THEN /\ Await(t, [call[t] EXCEPT !.found = docs[call[t].id],
                             !.pc = IF call[t].folder = Root THEN "write" ELSE "resolve"])
            /\ UNCHANGED task
       ELSE Return(t, None)
    /\ UNCHANGED store

MoveResolve(t) ==
    /\ At(t, "move", "resolve")
    /\ IF call[t].folder \in DOMAIN folders THEN Goto(t, "write") ELSE Return(t, None)
    /\ UNCHANGED store

MoveWrite(t) ==
    /\ At(t, "move", "write")
    /\ writeDoc(call[t].id, [call[t].found EXCEPT !.folder = call[t].folder])
    /\ Return(t, [id |-> call[t].id, title |-> call[t].found.title])
    /\ UNCHANGED <<folders, ids>>

isTitleTaken(title, except) == \E d \in DOMAIN docs \ {except} : docs[d].title = title

SaveResolve(t) ==
    /\ At(t, "save", "resolve0") \/ At(t, "save", "resolve")
    /\ LET f == resolveFolderId(call[t].folder)
       IN  Await(t, [call[t] EXCEPT !.folder = f,
                         !.pc = IF @ = "resolve0" THEN "check" ELSE "write"])
    /\ UNCHANGED <<store, task>>

SaveCheck(t) ==
    /\ At(t, "save", "check")
    /\ IF ~isTitleTaken(call[t].title, call[t].id) THEN Goto(t, "open")
       ELSE IF call[t].grow THEN Await(t, [call[t] EXCEPT !.title.n = @ + 1]) /\ UNCHANGED task
       ELSE Abort(t)                                    \* DOCUMENT_TITLE_DUPLICATE
    /\ UNCHANGED store

\* What the input leaves open survives from the stored record.
SaveOpen(t) ==
    /\ At(t, "save", "open")
    /\ LET known == call[t].id \in DOMAIN docs
       IN  Await(t, IF call[t].grow
                    THEN [call[t] EXCEPT !.pc = IF call[t].folder = Root THEN "write" ELSE "resolve"]
                    ELSE [call[t] EXCEPT !.pc = "write",
                              !.folder = IF known THEN FolderOf(call[t].id) ELSE Root,
                              !.origin = IF known THEN docs[call[t].id].origin ELSE None])
    /\ UNCHANGED <<store, task>>

SaveWrite(t) ==
    /\ At(t, "save", "write")
    /\ LET id == IF call[t].id = None THEN Fresh ELSE call[t].id
       IN  /\ writeDoc(id, [title |-> call[t].title, folder |-> call[t].folder,
                            origin |-> call[t].origin, text |-> call[t].text])
           /\ ids' = IF call[t].id = None THEN Fresh ELSE ids
           /\ Return(t, [id |-> id, title |-> call[t].title])
    /\ UNCHANGED folders

Service(t) ==
    /\ \/ CreateFolderResolve(t) \/ CreateFolderCheck(t) \/ CreateFolderWrite(t)
       \/ RenameFolderRead(t) \/ RenameFolderCheck(t) \/ RenameFolderWrite(t)
       \/ DeleteFolderFolders(t) \/ DeleteFolderDocs(t) \/ DropDoc(t) \/ DropFolder(t)
       \/ MoveRead(t) \/ MoveResolve(t) \/ MoveWrite(t)
       \/ SaveResolve(t) \/ SaveCheck(t) \/ SaveOpen(t) \/ SaveWrite(t)
    /\ UNCHANGED <<disk, page, ops, fails, overlaps, misfiled, setting>>

(***************************************************************************)
(* The controller's lists, its confirmations and the dialog of the page.   *)
(***************************************************************************)
Lists == [folders |-> folders, docs |-> [d \in DOMAIN docs |-> FolderOf(d)]]
Offered == {d \in DOMAIN view.docs : view.docs[d] \in Rendered(view.folders)}
OfferedFolders == Rendered(view.folders) \ {Root}

\* A dialog is shown for nothing.
getModalBug(a) ==
    IF a.doc # None THEN [kind |-> "confirm", id |-> a.doc]
    ELSE [kind |-> "properties", id |-> a.props]
getModal(a) ==
    IF a.doc # None THEN [kind |-> "confirm", id |-> a.doc]
    ELSE IF a.folder # None THEN [kind |-> "confirm-folder", id |-> a.folder]
    ELSE IF a.props # None THEN [kind |-> "properties", id |-> a.props]
    ELSE None
\* A render of the page configures the dialog anew.
requestEditor == modal' = getModal(armed') /\ answered' = FALSE
NoRender == UNCHANGED <<modal, answered>>

\* A calm user waits.
Ready == manner = "calm" => DOMAIN task = {}

Script(op, pc) == [op |-> op, pc |-> pc, got |-> None]
DocScript(op, pc, d) == [op |-> op, pc |-> pc, got |-> None, id |-> d]
\* A gesture starts a script.  The dialog's backdrop keeps every other
\* gesture out.
Begin(t, script) ==
    /\ ~Running(t) /\ ops < MaxOps[manner] /\ Ready
    /\ task' = With(task, t, script)
    /\ ops' = ops + 1
    /\ overlaps' = overlaps \cup {{script.op, task[u].op} : u \in DOMAIN task}
    /\ UNCHANGED <<store, disk, view, current, fails, misfiled, setting>>
OnPage == modal = None
StaysArmed == UNCHANGED armed /\ NoRender

createFolder(t) ==
    /\ OnPage /\ Begin(t, Script("createFolder", "lists"))
    /\ Await(t, createFolderCall(Plain(NewFolder), Root)) /\ StaysArmed

renameFolder(t, f, b) ==
    /\ OnPage /\ Begin(t, Script("renameFolder", "lists"))
    /\ Await(t, renameFolderCall(f, Plain(b))) /\ StaysArmed

moveDocument(t, d, f) ==
    /\ OnPage /\ Begin(t, Script("moveDocument", "lists"))
    /\ Await(t, moveCall(d, f)) /\ StaysArmed

Disarmed == armed' = [armed EXCEPT !.doc = None, !.folder = None]
createDocument(t, f) ==
    /\ OnPage /\ Begin(t, Script("createDocument", "lists"))
    /\ Await(t, createCall(Plain(NewTitle), f, None)) /\ Disarmed /\ NoRender

switchDocument(t, d) ==
    /\ OnPage /\ d # current
    /\ Begin(t, DocScript("switchDocument", "open", d)) /\ UNCHANGED call /\ Disarmed /\ NoRender

importContent(t, f) ==
    /\ OnPage
    /\ Begin(t, [op |-> "importContent", pc |-> "created", got |-> None, text |-> <<f, disk[f]>>])
    /\ Await(t, createCall(Plain(Name[f]), Root, None)) /\ StaysArmed

showProperties(t, d) ==
    OnPage /\ Begin(t, DocScript("showProperties", "open", d)) /\ UNCHANGED call /\ StaysArmed

Arm(a) == /\ OnPage /\ Ready /\ ops < MaxOps[manner] /\ armed' = a /\ requestEditor
          /\ UNCHANGED <<store, disk, task, call, view, current, ops, fails, overlaps, misfiled, setting>>
armDelete(d) == Arm([doc |-> d, folder |-> armed.folder, props |-> None])
armFolderDelete(f) == Arm([doc |-> None, folder |-> f, props |-> None])

\* No, the close button, the backdrop.
cancelOverlays ==
    /\ modal # None /\ Ready
    /\ armed' = NoArmed /\ requestEditor
    /\ UNCHANGED <<store, disk, task, call, view, current, ops, fails, overlaps, misfiled, setting>>

\* Yes.  The answer is taken from what is armed now, not from what is shown.
confirmFolderDelete(t) ==
    /\ armed.folder # None
    /\ Begin(t, [op |-> "deleteFolder", pc |-> "lists", got |-> None, id |-> armed.folder,
                 was |-> <<folders, docs>>])
    /\ Await(t, deleteFolderCall(armed.folder))
    /\ armed' = [armed EXCEPT !.folder = None]
\* The open document is deleted, whichever is armed.
confirmDeleteBug(t) ==
    /\ armed.folder = None /\ current # None
    /\ Begin(t, [op |-> "deleteDocument", pc |-> "erase", got |-> None, id |-> current, open |-> TRUE])
    /\ UNCHANGED call
    /\ armed' = [armed EXCEPT !.doc = None]
confirmDelete(t) ==
    LET removed == IF armed.doc # None THEN armed.doc ELSE current
    IN  /\ armed.folder = None /\ removed # None
        /\ Begin(t, [op |-> "deleteDocument", pc |-> "erase", got |-> None, id |-> removed,
                     open |-> (removed = current)])
        /\ UNCHANGED call
        /\ armed' = [armed EXCEPT !.doc = None]
confirmDeleteAndApply(t) ==
    /\ modal # None /\ modal.kind # "properties"
    /\ confirmFolderDelete(t) \/ confirmDelete(t)
    /\ answered' = TRUE
    /\ UNCHANGED modal

(***************************************************************************)
(* Importing the disk folder, and filing a pulled document.                *)
(***************************************************************************)
\* The path of a file as the import is given it, and the origin of its document.
\* The path of the fallback input (webkitRelativePath) begins with the picked
\* folder, which is the root of the import already; the picker's does not.
Segments(f) == IF picker THEN Dir[f] ELSE <<DiskRoot>> \o Dir[f]
Origin(f) == f

importFolder(t) ==
    /\ OnPage /\ File # {}
    /\ Begin(t, [op |-> "importFolder", pc |-> "list", got |-> None, was |-> <<folders, docs>>,
                 texts |-> disk, left |-> File, root |-> None, file |-> None, parent |-> Root,
                 rest |-> <<>>, seen |-> Empty, fl |-> folders, first |-> None])
    /\ UNCHANGED call /\ StaysArmed

In(t, op, pc) == Running(t) /\ t \notin DOMAIN call /\ task[t].op = op /\ task[t].pc = pc
Set(t, s) == task' = [task EXCEPT ![t] = s]
Quiet == UNCHANGED <<store, disk, page, ops, fails, overlaps, misfiled, setting>>

\* The folder listing, and the next folder to find in it or to create.
ImportList(t) ==
    /\ In(t, "importFolder", "list")
    /\ Set(t, [task[t] EXCEPT !.fl = folders, !.got = None,
                  !.pc = IF task[t].root = None THEN "root"
                         ELSE IF task[t].file = None THEN "docs" ELSE "walk"])
    /\ UNCHANGED call /\ Quiet

\* findChild: the oldest of the matches.
Oldest(S) == CHOOSE f \in S : \A g \in S : f <= g
ImportRoot(t) ==
    /\ In(t, "importFolder", "root")
    /\ LET found == Matches(task[t].fl, Root, Plain(DiskRoot))
       IN  CASE found # {} -> Set(t, [task[t] EXCEPT !.root = Oldest(found), !.pc = "docs"]) /\ UNCHANGED call
             [] found = {} /\ task[t].got = None ->
                    Await(t, createFolderCall(Plain(DiskRoot), Root)) /\ UNCHANGED task
             [] OTHER -> Set(t, [task[t] EXCEPT !.root = task[t].got.id, !.pc = "list"]) /\ UNCHANGED call
    /\ Quiet

\* byOrigin is built once, before the first file.
ImportDocs(t) ==
    /\ In(t, "importFolder", "docs")
    /\ Set(t, [task[t] EXCEPT !.seen = docs, !.pc = "file"])
    /\ UNCHANGED call /\ Quiet

ImportFile(t) ==
    /\ In(t, "importFolder", "file")
    /\ IF task[t].left = {} THEN Set(t, [task[t] EXCEPT !.pc = "lists"])
       ELSE \E f \in task[t].left :
               Set(t, [task[t] EXCEPT !.file = f, !.left = @ \ {f}, !.got = None, !.pc = "walk",
                          !.parent = task[t].root, !.rest = Segments(f)])
    /\ UNCHANGED call /\ Quiet

\* ensureDir.
ImportWalk(t) ==
    /\ In(t, "importFolder", "walk") /\ task[t].rest # <<>>
    /\ LET found == Matches(task[t].fl, task[t].parent, Plain(Head(task[t].rest)))
       IN  CASE task[t].got # None ->
                    /\ Set(t, [task[t] EXCEPT !.parent = task[t].got.id, !.rest = Tail(@), !.pc = "list"])
                    /\ UNCHANGED call
             [] task[t].got = None /\ found # {} ->
                    /\ Set(t, [task[t] EXCEPT !.parent = Oldest(found), !.rest = Tail(@)])
                    /\ UNCHANGED call
             [] OTHER ->
                    /\ Await(t, createFolderCall(Plain(Head(task[t].rest)), task[t].parent))
                    /\ UNCHANGED task
    /\ Quiet

\* The documents a file of the disk is known as.
\* Wherever the document is.
KnownBug(ds, folder, f) ==
    {d \in DOMAIN ds : ds[d].origin = Origin(f)}
Known(ds, folder, f) == {d \in DOMAIN ds : ds[d].folder = folder /\ ds[d].origin = Origin(f)}
ImportSave(t) ==
    /\ In(t, "importFolder", "walk") /\ task[t].rest = <<>>
    /\ LET f == task[t].file
           known == Known(task[t].seen, task[t].parent, f)
       IN  IF known # {}
           THEN \E d \in known :
                   /\ Await(t, saveCall(d, task[t].seen[d].title, <<f, task[t].texts[f]>>))
                   /\ Set(t, [task[t] EXCEPT !.pc = "saved", !.got = None])
           ELSE /\ Await(t, createCall(Plain(Name[f]), task[t].parent, Origin(f)))
                /\ Set(t, [task[t] EXCEPT !.pc = "created", !.got = None])
    /\ Quiet

\* A created document is empty until its text is saved onto it.
ImportCreated(t) ==
    /\ In(t, "importFolder", "created") \/ In(t, "importContent", "created")
    /\ LET text == IF task[t].op = "importContent" THEN task[t].text
                   ELSE <<task[t].file, task[t].texts[task[t].file]>>
       IN  Await(t, saveCall(task[t].got.id, task[t].got.title, text))
    /\ Set(t, [task[t] EXCEPT !.pc = IF task[t].op = "importContent" THEN "lists" ELSE "saved"])
    /\ Quiet

ImportSaved(t) ==
    /\ In(t, "importFolder", "saved")
    /\ Set(t, [task[t] EXCEPT !.first = IF @ = None THEN task[t].got.id ELSE @,
                              !.got = None, !.pc = "file"])
    /\ UNCHANGED call /\ Quiet

\* One pull of a sync run: of a document of this device another device has
\* edited, or of one it has added.
pull(t, id, path) ==
    /\ Begin(t, [op |-> "pull", pc |-> "maps", got |-> None, id |-> id, path |-> path,
                 parent |-> Root, k |-> 1, fl |-> folders])
    /\ UNCHANGED call /\ StaysArmed

PullMaps(t) ==
    /\ In(t, "pull", "maps")
    /\ Set(t, [task[t] EXCEPT !.fl = folders, !.pc = "chain"])
    /\ UNCHANGED call /\ Quiet

\* Every name is looked up at the root.
PullChainBug(t) ==
    /\ In(t, "pull", "chain")
    /\ LET s == task[t]
           found == Matches(s.fl, Root, s.path[s.k])
           record == [name |-> s.path[s.k], parent |-> s.parent]
       IN  IF s.k = Len(s.path)
           THEN Set(t, [s EXCEPT !.pc = "record"]) /\ UNCHANGED store
           ELSE IF found # {}
           THEN (\E f \in found : Set(t, [s EXCEPT !.parent = f, !.k = @ + 1])) /\ UNCHANGED store
           ELSE /\ writeFolder(Fresh, record) /\ ids' = Fresh
                /\ Set(t, [s EXCEPT !.parent = Fresh, !.k = @ + 1, !.fl = With(@, Fresh, record)])
                /\ UNCHANGED docs
    /\ UNCHANGED <<call, disk, page, ops, fails, overlaps, misfiled, setting>>

\* ensureFolderChain: of folders with the same name any may be indexed.
PullChain(t) ==
    /\ In(t, "pull", "chain")
    /\ LET s == task[t]
           found == Matches(s.fl, s.parent, s.path[s.k])
           record == [name |-> s.path[s.k], parent |-> s.parent]
       IN  IF s.k = Len(s.path)
           THEN Set(t, [s EXCEPT !.pc = "record"]) /\ UNCHANGED store
           ELSE IF found # {}
           THEN (\E f \in found : Set(t, [s EXCEPT !.parent = f, !.k = @ + 1])) /\ UNCHANGED store
           ELSE /\ writeFolder(Fresh, record) /\ ids' = Fresh
                /\ Set(t, [s EXCEPT !.parent = Fresh, !.k = @ + 1, !.fl = With(@, Fresh, record)])
                /\ UNCHANGED docs
    /\ UNCHANGED <<call, disk, page, ops, fails, overlaps, misfiled, setting>>

\* buildPulledRecord knows nothing of the record it replaces.
PullRecord(t) ==
    /\ In(t, "pull", "record")
    /\ LET id == IF task[t].id = None THEN Fresh ELSE task[t].id
       IN  /\ writeDoc(id, [title |-> task[t].path[Len(task[t].path)], folder |-> task[t].parent,
                            origin |-> None, text |-> <<None, 1>>])
           /\ ids' = IF task[t].id = None THEN Fresh ELSE ids
    /\ Set(t, [task[t] EXCEPT !.pc = "lists"])
    /\ UNCHANGED <<folders, call, disk, page, ops, fails, overlaps, misfiled, setting>>

(***************************************************************************)
(* How a script ends.                                                      *)
(***************************************************************************)
\* openDocument of switchDocument and showProperties.
Open(t) ==
    /\ \/ In(t, "switchDocument", "open")
       \/ In(t, "showProperties", "open")
    /\ LET d == task[t].id
           props == task[t].op = "showProperties"
       IN  /\ IF d \notin DOMAIN docs THEN task' = Without(task, t) /\ UNCHANGED <<armed, modal, answered>>
              ELSE IF props
              THEN /\ task' = Without(task, t)
                   /\ armed' = [armed EXCEPT !.doc = None, !.props = d]
                   /\ requestEditor
              ELSE Set(t, [task[t] EXCEPT !.pc = "lists"]) /\ UNCHANGED <<armed, modal, answered>>
    /\ UNCHANGED <<store, disk, call, view, current, ops, fails, overlaps, misfiled, setting>>

Erase(t) ==
    /\ In(t, "deleteDocument", "erase")
    /\ docs' = Without(docs, task[t].id)
    /\ Set(t, [task[t] EXCEPT !.pc = "lists"])
    /\ UNCHANGED <<folders, ids, call, disk, page, ops, fails, overlaps, misfiled, setting>>

\* The scripts a step of the service found nothing for end without a word.
Fruitless(t) ==
    task[t].op \in {"renameFolder", "moveDocument"} /\ task[t].got = None

\* Whether the document the page shows went away.
Removing(t) ==
    CASE task[t].op = "deleteDocument" -> task[t].open
      [] task[t].op = "deleteFolder" -> current # None /\ current \notin DOMAIN docs
      [] OTHER -> FALSE

\* readLists, and what the page adopts.
Opened(t) ==
    LET s == task[t]
    IN  CASE s.op \in {"createDocument", "importContent"} -> {s.got.id}
          [] s.op = "switchDocument" -> {s.id}
          [] s.op = "importFolder" -> {IF s.first = None THEN current ELSE s.first}
          [] Removing(t) -> DOMAIN docs
          [] s.op = "pull" -> IF current \in DOMAIN docs THEN {current} ELSE DOMAIN docs
          [] OTHER -> {current}
Rerenders(t) ==
    \/ task[t].op \in {"renameFolder", "createDocument", "importContent", "switchDocument",
                       "importFolder", "deleteDocument", "deleteFolder"}
    \/ (task[t].op = "pull" /\ DOMAIN docs = {})
Finish(t) ==
    /\ Running(t) /\ t \notin DOMAIN call /\ task[t].pc = "lists"
    /\ ~ Fruitless(t) /\ (Opened(t) # {})
    /\ view' = IF task[t].op = "renameFolder" THEN [view EXCEPT !.folders = folders] ELSE Lists
    /\ current' \in Opened(t)
    /\ task' = Without(task, t)
    /\ UNCHANGED <<store, disk, call, armed, ops, fails, overlaps, misfiled, setting>>
    /\ IF Rerenders(t) THEN requestEditor ELSE NoRender

\* The last document went away: a fresh one takes its place.
Replace(t) ==
    /\ Running(t) /\ t \notin DOMAIN call /\ task[t].pc = "lists"
    /\ ~ Fruitless(t) /\ Opened(t) = {}
    /\ Set(t, Script("createDocument", "lists"))
    /\ Await(t, saveCall(None, Plain(NewTitle), <<None, 0>>))
    /\ Quiet

GiveUp(t) ==
    /\ Running(t) /\ t \notin DOMAIN call /\ task[t].pc = "lists" /\ Fruitless(t)
    /\ Abort(t)
    /\ Quiet

\* A request of storage fails: resolveFolderId takes it for a missing folder,
\* every other script gives up, and nothing is rendered.
FailResolve(t) ==
    /\ fails < MaxFails[manner]
    /\ \/ At(t, "createFolder", "resolve") /\ call[t].parent # Root
           /\ Await(t, [call[t] EXCEPT !.pc = "check", !.parent = Root])
       \/ At(t, "save", "resolve") /\ Await(t, [call[t] EXCEPT !.pc = "write", !.folder = Root])
    /\ fails' = fails + 1 /\ misfiled' = TRUE
    /\ UNCHANGED <<store, disk, task, page, ops, overlaps, setting>>
Fail(t) ==
    /\ fails < MaxFails[manner] /\ Running(t)
    /\ ~ At(t, "createFolder", "resolve") /\ ~ At(t, "save", "resolve") /\ ~ At(t, "save", "resolve0")
    /\ Abort(t)
    /\ fails' = fails + 1
    /\ UNCHANGED <<store, disk, page, ops, overlaps, misfiled, setting>>

\* The tab is closed and opened again.
Reload ==
    /\ fails < MaxFails[manner] /\ DOMAIN docs # {}
    /\ DOMAIN task # {}
    /\ task' = Empty /\ call' = Empty
    /\ view' = Lists /\ current' \in DOMAIN docs
    /\ armed' = NoArmed /\ modal' = None /\ answered' = FALSE
    /\ fails' = fails + 1
    /\ UNCHANGED <<store, disk, ops, overlaps, misfiled, setting>>

DiskEdit(f) ==
    /\ disk[f] < MaxDisk /\ ops < MaxOps[manner]
    /\ \E d \in DOMAIN docs : docs[d].origin = f         \* else it makes no difference
    /\ DOMAIN task = {}
    /\ disk' = [disk EXCEPT ![f] = @ + 1]
    /\ UNCHANGED <<store, task, call, page, ops, fails, overlaps, misfiled, setting>>

Init ==
    /\ \E s \in Start : folders = s.folders /\ docs = s.docs
                        /\ manner = s.manner /\ picker = s.picker
    /\ ids = Cardinality(DOMAIN folders) + Cardinality(DOMAIN docs)
    /\ disk = [f \in File |-> 0]
    /\ task = Empty /\ call = Empty
    /\ view = Lists /\ current \in DOMAIN docs
    /\ armed = NoArmed /\ modal = None /\ answered = FALSE
    /\ ops = 0 /\ fails = 0 /\ overlaps = {} /\ misfiled = FALSE

UserBegins(t) ==
    \/ createFolder(t)
    \/ importFolder(t)
    \/ confirmDeleteAndApply(t)
    \/ \E f \in File : importContent(t, f)
    \/ \E f \in OfferedFolders, b \in Base : renameFolder(t, f, b)
    \/ \E f \in OfferedFolders \cup {Root} : createDocument(t, f)
    \/ \E d \in Offered, f \in DOMAIN view.folders \cup {Root} : moveDocument(t, d, f)
    \/ \E d \in Offered : switchDocument(t, d) \/ showProperties(t, d)

Arming == (\E d \in Offered : armDelete(d)) \/ (\E f \in OfferedFolders : armFolderDelete(f))

\* A record keeps its path, and an added file has a path of its own.
PathsOf(ds) == {pathForRecord(folders, ds[d]) : d \in DOMAIN ds}
SyncBegins(t) ==
    /\ \A u \in DOMAIN task : task[u].op # "pull"
    /\ \/ \E d \in DOMAIN docs :
             /\ pathForRecord(folders, docs[d]) \notin PathsOf(Without(docs, d))
             /\ pull(t, d, pathForRecord(folders, docs[d]))
       \/ \E p \in Foreign :
             LET path == [k \in DOMAIN p |-> Plain(p[k])]
             IN  path \notin PathsOf(docs) /\ pull(t, None, path)

Proceed(t) ==
    \/ ImportList(t) \/ ImportRoot(t) \/ ImportDocs(t) \/ ImportFile(t) \/ ImportWalk(t)
    \/ ImportSave(t) \/ ImportCreated(t) \/ ImportSaved(t)
    \/ PullMaps(t) \/ PullChain(t) \/ PullRecord(t)
    \/ Open(t) \/ Erase(t) \/ Finish(t) \/ Replace(t) \/ GiveUp(t)

Next ==
    \/ \E t \in Tasks : UserBegins(t) \/ SyncBegins(t) \/ Service(t) \/ Proceed(t)
                        \/ FailResolve(t) \/ Fail(t)
    \/ Arming \/ cancelOverlays \/ Reload
    \/ \E f \in File : DiskEdit(f)

Spec == Init /\ [][Next]_vars
-----------------------------------------------------------------------------
(***************************************************************************)
(* Correctness.                                                            *)
(***************************************************************************)
Ids == 1 .. ids
\* Every id, name, origin and parent is one the program could have written,
\* and an operation that awaits a call is one that runs.
TypeOK ==
    /\ DOMAIN folders \cup DOMAIN docs \subseteq Ids /\ DOMAIN folders \cap DOMAIN docs = {}
    /\ \A f \in DOMAIN folders : folders[f].name \in Counted /\ folders[f].parent \in Ids \cup {Root}
    /\ \A d \in DOMAIN docs : /\ docs[d].title \in Counted /\ docs[d].text \in Text
                             /\ docs[d].folder \in Ids \cup {Root}
                             /\ docs[d].origin \in File \cup {None}
    /\ DOMAIN call \subseteq DOMAIN task /\ DOMAIN task \subseteq Tasks
    /\ picker \in BOOLEAN /\ current \in Ids \cup {None} /\ disk \in [File -> 0 .. MaxDisk]
    /\ modal # None => modal.id \in Ids
    /\ ops \in 0 .. MaxOps[manner] /\ fails \in 0 .. MaxFails[manner]

\* No two of these operations have overlapped.
Apart(A, B) == \A o \in overlaps : \A x \in A, y \in B : o # {x, y}
FolderMakers == {"createFolder", "renameFolder", "importFolder", "pull"}
Movers == {"moveDocument", "deleteDocument", "deleteFolder", "importFolder", "pull"}
Makers == {"createDocument", "importContent", "switchDocument", "showProperties"}
Others == FolderMakers \cup Movers \cup Makers

Hidden(fs, f) == f # Root /\ f \notin Rendered(fs)

\* A document never drops out of the tree of the files view: unless a folder's
\* deletion overlapped another operation, the only way is into a folder that was already cut off, which a
\* folder deletion that failed half-way leaves behind.  (deleteFolder deletes
\* documents before folders; resolveFolderId sends the others to the root.)
NothingVanishes ==
    [][\A d \in DOMAIN docs' :
         (Hidden(folders', docs'[d].folder) /\ Apart({"deleteFolder"}, Others)) =>
             /\ docs'[d].folder \in DOMAIN folders'
             /\ Hidden(folders, docs'[d].folder)]_vars

\* Siblings have different names unless two operations that make or rename
\* folders overlapped: the page, an import and a pull agree on what is taken.
FolderNamesUnique ==
    Apart(FolderMakers, FolderMakers) => \A f, g \in DOMAIN folders :
                  (folders[f].parent = folders[g].parent /\ folders[f].name = folders[g].name) => f = g

\* A folder's deletion that nothing else wrote into took the folder, what is below it, and
\* nothing else.  (Above walks up, the code walks down.)
Above(fs, f) == Reach({<<g, fs[g].parent>> : g \in DOMAIN fs}, {f})
FolderGoesWhole(t) ==
    (/\ Finish(t) /\ task[t].op = "deleteFolder"
     /\ Apart({"deleteFolder"}, Others \ {"switchDocument", "showProperties"})
     /\ task[t].id \in DOMAIN task[t].was[1]) =>
        LET fs == task[t].was[1]
            ds == task[t].was[2]
        IN  /\ folders = [f \in {g \in DOMAIN fs : task[t].id \notin Above(fs, g)} |-> fs[f]]
            /\ docs = [d \in {e \in DOMAIN ds : task[t].id \notin Above(fs, ds[e].folder)} |-> ds[d]]

\* The dialog's first Yes deletes what the dialog names.
Deletes(t) == ~ Running(t) /\ Running(t)' /\ task'[t].op \in {"deleteDocument", "deleteFolder"}
Names(t) == /\ modal # None /\ task'[t].id = modal.id
            /\ (task'[t].op = "deleteDocument") = (modal.kind = "confirm")
FirstYesNames(t) == (Deletes(t) /\ ~ answered) => Names(t)

\* A deletion takes what the user named, all of it and nothing else: from the
\* dialog (confirmDelete) down to the records below a folder (deleteFolder).
DeletionIsExact == [][\A t \in Tasks : FolderGoesWhole(t) /\ FirstYesNames(t)]_vars

\* After an import that nothing else wrote into, and of which no folder look-up
\* failed, each file of the disk has its document, with its text, in the folder
\* its directory names; documents it knew keep their name and place; no file was
\* added that was there already.  (Of siblings with one name, which overlapping
\* makers of folders may leave, an import takes the oldest.)  "Its directory" is
\* as userGuide.md:38 has it, "with the same nesting", only where the browser has
\* a directory picker; the other browsers put everything one folder deeper, into
\* a second folder of the disk folder's name.
Directory(f) == (IF picker THEN <<>> ELSE <<DiskRoot>>) \o <<DiskRoot>> \o Dir[f]
FilePath(f) == [k \in DOMAIN Directory(f) |-> Plain(Directory(f)[k])]
Imported(fs, ds, f) == {d \in DOMAIN ds : /\ ds[d].origin = Origin(f)
                                          /\ ~ Hidden(fs, ds[d].folder)
                                          /\ Chain(fs, ds[d].folder) = FilePath(f)}
ImportMirrorsDisk(t) ==
    (/\ Finish(t) /\ task[t].op = "importFolder" /\ ~ misfiled
     /\ Apart({"importFolder"}, Others \ {"switchDocument", "showProperties"})
     /\ Apart(FolderMakers, FolderMakers)) =>
        LET fs == task[t].was[1]
            ds == task[t].was[2]
            new == {f \in File : Imported(fs, ds, f) = {}}
        IN  /\ \A f \in File : \E d \in Imported(folders, docs, f) :
                               docs[d].text = <<f, task[t].texts[f]>>
            /\ \A d \in DOMAIN ds : docs[d] = [ds[d] EXCEPT !.text = docs[d].text]
            /\ Cardinality(DOMAIN docs) = Cardinality(DOMAIN ds) + Cardinality(new)

\* A pulled edit leaves its document where it is when the names above it are
\* ones the remote can hold and tell the folders apart.
Sanitary(name) == Clean(name) = name
PulledStaysPut(t) ==
    (/\ PullRecord(t) /\ Apart({"pull"}, FolderMakers \cup Movers) /\ task[t].id # None
     /\ Apart(FolderMakers, FolderMakers)
     /\ ~ Hidden(folders, FolderOf(task[t].id))
     /\ \A k \in DOMAIN Chain(folders, FolderOf(task[t].id)) :
           Sanitary(Chain(folders, FolderOf(task[t].id))[k])) =>
        docs'[task[t].id].folder = FolderOf(task[t].id)

\* What comes from the disk or the remote lands where it belongs and moves
\* nothing that was there (importFolder, and the pull of a round).
ArrivalsKeepTheirPlace == [][\A t \in Tasks : ImportMirrorsDisk(t) /\ PulledStaysPut(t)]_vars
=============================================================================
