------------------------------ MODULE Workbench ------------------------------
(***************************************************************************)
(* The home page as a workbench: the editor or the map in the centre, the  *)
(* menu bar, rail, side panel and status bar around it, the search, the    *)
(* lock of a document, the built-in guide, full screen, and the settings   *)
(* (Preferences).                                                          *)
(*                                                                         *)
(* A page render throws every child away.  The editor or the map is        *)
(* mounted again as soon as the render has landed, before the next event;  *)
(* the children around it a frame later (attachChildren).  Until then a    *)
(* handle still names the child that is gone.  What must not remount the   *)
(* editor, for the sake of its history, goes past the render and has to    *)
(* tell each child itself.                                                 *)
(*                                                                         *)
(* A handler is a function from page to page, so that handlers compose as  *)
(* they do in the code.  What is stored, and when, is DocumentSession; what*)
(* a change in the map does to the text is MindMap.                        *)
(***************************************************************************)
EXTENDS Preferences, FiniteSets

CONSTANTS
    Docs, Guide,        \* the documents, the built-in guide
    View,               \* the views of the side panel; not the map
    Flips,              \* themes that follow the operating system
    MaxVersion,         \* bound: versions of a text
    MaxActs, MaxPulls   \* bounds: what the user does, sync runs that change something

FILES_VIEW == "files"
MINDMAP_VIEW == "mindmap"
ASSUME ViewsKnown == FILES_VIEW \in View /\ MINDMAP_VIEW \notin View
ASSUME PagesDiffer == Guide \notin Docs /\ Docs # {}
ASSUME WorkbenchBounds == {MaxVersion, MaxActs, MaxPulls} \subseteq Nat

\* A text is a version of the text of some document, or the guide's.
Text == [of : Docs \cup {Guide}, n : 0 .. MaxVersion]
\* A query is what the search form holds.
Query == {"blank", "word"}

VARIABLES
    docs,       \* document -> [text, readOnly], None if it was deleted: storage
                \* and the list of the controller
    page,       \* the page, its editor and its children
    locks,      \* setReadOnly calls under way: [doc, value]
    opens,      \* documents whose opening is under way
    acts, pulls \* counters of the bounds

vars == <<prefs, docs, page, locks, opens, acts, pulls>>

Look == [size : FontSize, theme : Theme \cup {None}]
\* readOnly, query (the search highlighted), past (the undo history), look.
Editor == [text : Text, readOnly : BOOLEAN, query : Query \cup {None}, past : Seq(Text), look : Look]
\* Whether the form is open, and on the screen since the last render of the bar;
\* what it holds; the text the count was made of; the rest is told by the page.
Menu == [open : BOOLEAN, shown : BOOLEAN, query : Query, count : Text \cup {None},
         readOnly : BOOLEAN, builtIn : BOOLEAN, fullscreen : BOOLEAN]
Side == [view : View \cup {MINDMAP_VIEW}, map : BOOLEAN, current : Docs, text : Text]
Status == [text : Text, readOnly : BOOLEAN]
ASSUME NoneIsNothing ==
    /\ None \notin Text \cup Docs \cup Query
    /\ None \notin Editor /\ None \notin Side /\ None \notin Status

Page == [centerMode : {"editor", "mindmap"}, activeView : View \cup {MINDMAP_VIEW},
         sideOpen : BOOLEAN, bottomOpen : BOOLEAN, fullscreen : BOOLEAN,
         currentId : Docs, draft : Text,                    \* the document controller
         builtIn : BOOLEAN, opening : BOOLEAN,              \* guides.open() under way
         pendingBuiltin : BOOLEAN,
         searchOpen : BOOLEAN, searchSpec : Query \cup {None}, filesSort : FilesSort,
         editor : Editor \cup {None}, mind : BOOLEAN,
         menu : Menu, rail : View \cup {MINDMAP_VIEW},
         side : Side \cup {None}, status : Status \cup {None},
         attached : BOOLEAN,        \* the children are mounted since the last render
         \* history: the documents into which another text is known to have come;
         \* the lock on show is not that of the document on show
         strayed : SUBSET Docs, misled : BOOLEAN]
-----------------------------------------------------------------------------
(* Reading the page *)

Stored(ds) == {d \in Docs : ds[d] # None}
value(p) == IF p.editor # None THEN p.editor.text ELSE p.draft
TheGuide == [of |-> Guide, n |-> 0]
currentLocked(p, ds) == ds[p.currentId] # None /\ ds[p.currentId].readOnly
locked(p, ds) == p.builtIn \/ currentLocked(p, ds)
lookOf(record, size) == [size |-> size, theme |-> IF record = None THEN None ELSE record.theme]

\* What the user may click on: children that are there, and not hidden by full
\* screen.
Chrome == page.attached /\ ~page.fullscreen
-----------------------------------------------------------------------------
(* The children *)

\* pushLiveUpdates: the status bar and the side panel follow the text.
SideOf(p) == [view |-> p.activeView, map |-> p.centerMode = "mindmap",
              current |-> p.currentId, text |-> value(p)]
StatusOf(p, ds) == [text |-> value(p), readOnly |-> locked(p, ds)]
pushLiveUpdates(p, ds) ==
    [p EXCEPT !.status = IF @ = None THEN None ELSE StatusOf(p, ds),
              !.side = IF @ = None THEN None ELSE SideOf(p)]

\* configure of the menu bar, which renders it.
tellMenu(p, menu) == [p EXCEPT !.menu = [menu EXCEPT !.shown = menu.open]]

\* The menu bar is not told of the lock.
refreshChromeBug(p, ds) ==
    pushLiveUpdates(tellMenu(p, [p.menu EXCEPT !.builtIn = p.builtIn, !.fullscreen = p.fullscreen]), ds)
\* Menu bar, status bar and side panel, without a render of the page.
refreshChrome(p, ds) ==
    pushLiveUpdates(tellMenu(p, [p.menu EXCEPT !.readOnly = locked(p, ds), !.builtIn = p.builtIn,
                                               !.fullscreen = p.fullscreen]), ds)

attachChildren(p, ds) ==
    [p EXCEPT
        !.menu = [open |-> FALSE, shown |-> FALSE, query |-> "blank", count |-> None,
                  readOnly |-> locked(p, ds), builtIn |-> p.builtIn, fullscreen |-> p.fullscreen],
        !.rail = p.activeView,
        !.side = IF p.sideOpen THEN SideOf(p) ELSE None,
        !.status = IF p.bottomOpen THEN StatusOf(p, ds) ELSE None,
        !.attached = TRUE]
-----------------------------------------------------------------------------
(* The search *)

\* setSearch of the editor, and what the form shows of it; a blank query clears.
counted(p, spec) ==
    tellMenu([p EXCEPT !.editor.query = IF spec = "blank" THEN None ELSE spec],
             [p.menu EXCEPT !.query = spec, !.count = IF spec = "blank" THEN None ELSE value(p)])

recountSearch(p) ==
    IF p.searchOpen /\ p.searchSpec # None THEN counted(p, p.searchSpec) ELSE p

\* search: null, searchOpen: false
formReset(p) ==
    tellMenu([p EXCEPT !.searchOpen = FALSE, !.searchSpec = None],
             [p.menu EXCEPT !.open = FALSE, !.query = "blank", !.count = None])
clearSearch(p) ==
    IF p.editor = None THEN formReset(p) ELSE [formReset(p) EXCEPT !.editor.query = None]
-----------------------------------------------------------------------------
(* The editor *)

\* onChange of the mounted editor, which holds the new text.
onChange(p, ds) ==
    IF p.builtIn THEN pushLiveUpdates(p, ds)
    ELSE recountSearch(pushLiveUpdates([p EXCEPT !.draft = p.editor.text], ds))

\* setDocument: a change like any other, which can be undone.
setDocument(p, ds, text) ==
    onChange([p EXCEPT !.editor.text = text, !.editor.past = Append(@, p.editor.text)], ds)

\* The open document gets a text that is not its own, if it does.
Strays(p, does) == IF does THEN p.strayed \cup {p.currentId} ELSE p.strayed

\* What the editor shows is parked in the draft, the guide too.
unmountEditor(p) ==
    IF p.editor = None THEN p
    ELSE [p EXCEPT !.draft = p.editor.text, !.editor = None, !.strayed = Strays(p, p.builtIn)]

mountEditor(p, ds, look) ==
    [p EXCEPT !.editor = [text |-> IF p.builtIn THEN TheGuide ELSE p.draft,
                          readOnly |-> locked(p, ds), query |-> None, past |-> <<>>,
                          look |-> look],
              !.opening = @ \/ p.pendingBuiltin, !.pendingBuiltin = FALSE]

\* requestEditor, the render it asks for, and the observer of the render, which
\* finds a new host of the map or of the editor.
remounted(p, ds, look) ==
    LET bare == [unmountEditor(p) EXCEPT !.attached = FALSE, !.misled = FALSE]
    IN  IF p.centerMode = "mindmap" THEN [bare EXCEPT !.mind = TRUE]
        ELSE mountEditor([bare EXCEPT !.mind = FALSE], ds, look)
requestEditor(p) == remounted(p, docs, lookOf(settings, fontSize))

adopt(p, ds, d) == [p EXCEPT !.currentId = d, !.draft = ds[d].text]

\* The record is adopted first: then the old text is parked over it.
applyResultBug(p, d) == requestEditor(formReset([adopt(p, docs, d) EXCEPT !.builtIn = FALSE]))
\* A document that was opened.
applyResult(p, d) ==
    requestEditor(formReset([adopt(unmountEditor(p), docs, d) EXCEPT !.builtIn = FALSE]))
-----------------------------------------------------------------------------
(* The centre *)

exitMindmap(p) == [p EXCEPT !.centerMode = "editor", !.activeView = FILES_VIEW, !.mind = FALSE]

enterMindmap(p) ==
    IF p.centerMode = "mindmap" THEN p
    ELSE requestEditor([p EXCEPT !.centerMode = "mindmap", !.activeView = MINDMAP_VIEW, !.sideOpen = TRUE])

switchView(p, id) ==
    IF id = MINDMAP_VIEW /\ p.activeView # MINDMAP_VIEW THEN enterMindmap(p)
    ELSE requestEditor(
        IF id = FILES_VIEW /\ p.centerMode = "mindmap" THEN [exitMindmap(p) EXCEPT !.sideOpen = TRUE]
        ELSE IF id = p.activeView THEN [p EXCEPT !.sideOpen = ~@]
        ELSE [p EXCEPT !.activeView = id, !.sideOpen = TRUE])
-----------------------------------------------------------------------------
(* What the user does *)

Acts == acts < MaxActs /\ acts' = acts + 1
\* A handler that runs to its end: the page becomes p.
Act(p) == Acts /\ page' = p /\ UNCHANGED <<prefs, docs, locks, opens, pulls>>

SwitchView(id) == Chrome /\ Act(switchView(page, id))
ToggleSide == Chrome /\ Act(requestEditor([page EXCEPT !.sideOpen = ~@]))
ToggleStatus == Chrome /\ Act(requestEditor([page EXCEPT !.bottomOpen = ~@]))

setFullscreen(p, on) ==
    LET cleared == IF on /\ p.searchOpen THEN clearSearch(p) ELSE p
    IN  tellMenu([cleared EXCEPT !.fullscreen = on], [cleared.menu EXCEPT !.fullscreen = on])
EntersFullscreen == Chrome /\ ~page.menu.builtIn /\ Act(setFullscreen(page, TRUE))
LeavesFullscreen == page.fullscreen /\ Act(setFullscreen(page, FALSE))

\* Ctrl+F
openSearch ==
    /\ page.editor # None /\ ~page.fullscreen
    /\ Act(tellMenu([page EXCEPT !.searchOpen = TRUE], [page.menu EXCEPT !.open = TRUE]))
\* The button of the form: closing is cut short, for the form already counts as
\* closed, and the bar is not rendered.
ToggleSearch ==
    /\ Chrome
    /\ IF page.menu.open THEN Act([page EXCEPT !.menu.open = FALSE])
       ELSE Act(tellMenu(page, [page.menu EXCEPT !.open = TRUE]))
OutsideClick == page.attached /\ page.menu.open /\ Act(tellMenu(page, [page.menu EXCEPT !.open = FALSE]))
\* Escape: search-close, and clearSearch.
closeSearch == page.attached /\ page.menu.open /\ Act(clearSearch(page))

\* runSearch; over the map the form is only rendered.
Searched(p, spec) ==
    IF p.editor = None THEN tellMenu(p, [p.menu EXCEPT !.query = spec])
    ELSE counted([p EXCEPT !.searchOpen = TRUE, !.searchSpec = spec], spec)
Searches(spec) == Chrome /\ page.menu.shown /\ Act(Searched(page, spec))

CanChange == page.editor # None /\ ~page.editor.readOnly /\ page.editor.text.n < MaxVersion
Edited(p) == setDocument(p, docs, [p.editor.text EXCEPT !.n = @ + 1])
Type == CanChange /\ Act(Edited(page))
Replaces ==
    /\ Chrome /\ page.menu.shown /\ page.menu.query # "blank" /\ CanChange
    /\ LET p == [page EXCEPT !.searchOpen = TRUE, !.searchSpec = page.menu.query]
       IN  Act(counted(Edited(p), page.menu.query))
\* The history knows nothing of documents: the text before a reload may be that
\* of another one, and the text before the guide was closed is the guide.
undo ==
    /\ page.editor # None /\ ~page.editor.readOnly /\ page.editor.past # <<>>
    /\ LET past == page.editor.past
           text == past[Len(past)]
       IN  Act(onChange([page EXCEPT !.editor.text = text,
                                     !.editor.past = SubSeq(past, 1, Len(past) - 1),
                                     !.strayed = Strays(page, text.of # page.currentId)], docs))

\* onChange and onJump of the map.
EditMap == page.mind /\ page.draft.n < MaxVersion /\ Act([page EXCEPT !.draft.n = @ + 1])
JumpFromMap == page.mind /\ Act(requestEditor(exitMindmap(page)))

openBuiltin ==
    /\ Chrome
    /\ IF page.centerMode = "mindmap"
       THEN Act(requestEditor([exitMindmap(page) EXCEPT !.pendingBuiltin = TRUE]))
       ELSE Act([page EXCEPT !.opening = TRUE])
closeBuiltin ==
    /\ Chrome /\ page.menu.builtIn /\ page.builtIn
    /\ LET p == [page EXCEPT !.builtIn = FALSE]
       IN  Act(refreshChrome(
               IF p.editor = None THEN p
               ELSE [setDocument(p, docs, p.draft) EXCEPT !.editor.readOnly = currentLocked(p, docs)],
               docs))

\* setLockState, by the menu or the button of the mode.
AskLock(to) ==
    /\ Chrome /\ Acts /\ ~page.menu.builtIn /\ ~page.builtIn
    /\ to # page.menu.readOnly \/ to # currentLocked(page, docs)
    /\ locks' = locks \cup {[doc |-> page.currentId, value |-> to]}
    /\ UNCHANGED <<prefs, docs, page, opens, pulls>>

\* flushSave; what is stored of the guide, and when, is DocumentSession.
flushSave(p, ds) == IF p.builtIn THEN ds ELSE [ds EXCEPT ![p.currentId].text = value(p)]
switchDocument(d) ==
    /\ Chrome /\ page.sideOpen /\ d # page.currentId /\ Acts
    /\ docs' = flushSave(page, docs) /\ opens' = opens \cup {d}
    /\ UNCHANGED <<prefs, page, locks, pulls>>

\* The order of the files is on show at once; it is not told whether it was saved.
ChangeSetting(change) ==
    /\ Chrome /\ page.sideOpen /\ Acts /\ Apply(change)
    /\ IF change.key # "filesSort" THEN page' = page
       ELSE /\ change.value # page.filesSort
            /\ page' = requestEditor([page EXCEPT !.filesSort = change.value])
    /\ UNCHANGED <<docs, locks, opens, pulls>>

\* The operating system turns from light to dark or back.
ColorSchemeFlips == settings # None /\ settings.theme \in Flips /\ Act(requestEditor(page))

User ==
    \/ \E id \in View \cup {MINDMAP_VIEW} : SwitchView(id)
    \/ ToggleSide \/ ToggleStatus \/ EntersFullscreen \/ LeavesFullscreen
    \/ openSearch \/ ToggleSearch \/ OutsideClick \/ closeSearch
    \/ \E spec \in Query : Searches(spec)
    \/ Type \/ Replaces \/ undo \/ EditMap \/ JumpFromMap
    \/ openBuiltin \/ closeBuiltin
    \/ \E to \in BOOLEAN : AskLock(to)
    \/ \E d \in Stored(docs) : switchDocument(d)
    \/ \E change \in Change : ChangeSetting(change)
    \/ ColorSchemeFlips
-----------------------------------------------------------------------------
(* What is answered *)

\* An answer to the page, which becomes p.
Answer(p) == page' = p /\ UNCHANGED <<prefs, docs, locks, opens, acts, pulls>>

Attach == ~page.attached /\ Answer(attachChildren(page, docs))

GuideOpens ==
    /\ page.opening
    /\ LET p == [page EXCEPT !.opening = FALSE]
           parked == [p EXCEPT !.draft = p.editor.text, !.builtIn = TRUE,
                             !.strayed = Strays(p, p.builtIn)]
       IN  Answer(IF p.editor = None THEN p
                  ELSE refreshChrome([setDocument(parked, docs, TheGuide)
                                         EXCEPT !.editor.readOnly = TRUE], docs))
GuideFails == page.opening /\ Answer([page EXCEPT !.opening = FALSE])

\* The lock was stored: it goes to the editor that is mounted now.
LockAnswers(l) ==
    /\ l \in locks /\ docs[l.doc] # None /\ locks' = locks \ {l}
    /\ docs' = [docs EXCEPT ![l.doc].readOnly = l.value]
    /\ LET elsewhere == page.builtIn \/ l.doc # page.currentId
           p == IF page.editor = None THEN page
                ELSE [page EXCEPT !.editor.readOnly = l.value, !.misled = @ \/ elsewhere]
       IN  page' = refreshChrome(p, docs')
    /\ UNCHANGED <<prefs, opens, acts, pulls>>
LockFails(l) ==
    l \in locks /\ locks' = locks \ {l} /\ UNCHANGED <<prefs, docs, page, opens, acts, pulls>>

DocumentOpens(d) ==
    /\ d \in opens /\ docs[d] # None /\ opens' = opens \ {d}
    /\ page' = applyResult(page, d)
    /\ UNCHANGED <<prefs, docs, locks, acts, pulls>>
OpeningFails(d) ==
    d \in opens /\ opens' = opens \ {d} /\ UNCHANGED <<prefs, docs, page, locks, acts, pulls>>

\* reloadLibrary: the editor is pointed to the record, without a new mount.
reloadLibrary(p, ds, d) ==
    LET q == [adopt(p, ds, d) EXCEPT !.side = IF @ = None THEN None ELSE [@ EXCEPT !.current = d],
                                     !.misled = @ \/ (currentLocked(p, docs) # (ds[d].readOnly))]
    IN  IF q.editor = None \/ q.builtIn \/ q.editor.text = ds[d].text THEN q
        ELSE pushLiveUpdates(formReset(setDocument(q, ds, ds[d].text)), ds)

\* A run of the sync: the draft is flushed; a record is replaced, which unlocks
\* it, or deleted; then the library is reloaded.  The last record stays.
Pull(d) ==
    /\ pulls < MaxPulls /\ pulls' = pulls + 1 /\ docs[d] # None
    /\ LET flushed == flushSave(page, docs) IN
       \/ /\ flushed[d].text.n < MaxVersion
          /\ docs' = [flushed EXCEPT ![d].text.n = @ + 1, ![d].readOnly = FALSE]
       \/ Stored(docs) # {d} /\ docs' = [flushed EXCEPT ![d] = None]
    /\ \E next \in Stored(docs') :
          /\ page.currentId \in Stored(docs') => next = page.currentId
          /\ page' = reloadLibrary(page, docs', next)
    /\ UNCHANGED <<prefs, locks, opens, acts>>

\* The settings answer; a theme or a size that was written remounts.
SettingsAnswer ==
    /\ PrefsAnswer
    /\ page' = IF Len(themeWrite') > Len(themeWrite) /\ writeChain[1].change.key # "filesSort"
               THEN remounted(page, docs, lookOf(settings', fontSize')) ELSE page
    /\ UNCHANGED <<docs, locks, opens, acts, pulls>>

Answers ==
    \/ Attach \/ GuideOpens \/ GuideFails \/ SettingsAnswer
    \/ \E l \in locks : LockAnswers(l) \/ LockFails(l)
    \/ \E d \in Docs : DocumentOpens(d) \/ OpeningFails(d) \/ Pull(d)

\* A document was adopted, the page rendered, and its children attached.
Init ==
    /\ PrefsInit
    /\ docs = [d \in Docs |-> [text |-> [of |-> d, n |-> 0], readOnly |-> FALSE]]
    /\ \E d \in Docs, sort \in IF settings = None THEN FilesSort ELSE {settings.filesSort} :
          page = attachChildren(mountEditor(
              [centerMode |-> "editor", activeView |-> FILES_VIEW, sideOpen |-> TRUE,
               bottomOpen |-> TRUE, fullscreen |-> FALSE, currentId |-> d, draft |-> docs[d].text,
               builtIn |-> FALSE, opening |-> FALSE, pendingBuiltin |-> FALSE,
               searchOpen |-> FALSE, searchSpec |-> None,
               filesSort |-> sort,
               editor |-> None, mind |-> FALSE,
               menu |-> None, rail |-> FILES_VIEW, side |-> None, status |-> None,
               attached |-> FALSE, strayed |-> {}, misled |-> FALSE],
              docs, lookOf(settings, fontSize)), docs)
    /\ locks = {} /\ opens = {} /\ acts = 0 /\ pulls = 0

Next == User \/ Answers
Spec == Init /\ [][Next]_vars
-----------------------------------------------------------------------------
TypeOK ==
    /\ PrefsTypeOK
    /\ docs \in [Docs -> [text : Text, readOnly : BOOLEAN] \cup {None}] /\ page.currentId \in Stored(docs)
    /\ page \in Page
    /\ locks \subseteq [doc : Docs, value : BOOLEAN] /\ opens \subseteq Docs
    /\ acts \in 0 .. MaxActs /\ pulls \in 0 .. MaxPulls

\* The centre is either the editor or the map, so that one writer feeds the
\* draft; the rail marks the map only while it is there; and full screen has no
\* search form that could not be closed.
OneWriter ==
    /\ page.editor # None <=> page.centerMode = "editor"
    /\ page.mind <=> page.centerMode = "mindmap"
    /\ page.activeView = MINDMAP_VIEW => page.mind
    /\ page.fullscreen => ~page.searchOpen

\* Every child shows the page as it is, though most changes reach each child by
\* a call of its own: the lock, the guide, full screen, the view, the open
\* document and its text.  The map is known to feed no text to them.
ChildrenAgree ==
    page.attached /\ ~page.misled =>
        /\ page.menu.readOnly = locked(page, docs)
        /\ page.menu.builtIn = page.builtIn /\ page.menu.fullscreen = page.fullscreen
        /\ page.rail = page.activeView
        /\ page.sideOpen <=> page.side # None
        /\ page.bottomOpen <=> page.status # None
        /\ ~page.mind /\ page.side # None => page.side = SideOf(page)
        /\ ~page.mind /\ page.status # None => page.status = StatusOf(page, docs)
        /\ page.editor # None => page.editor.readOnly = locked(page, docs)

\* The counter of the search is that of the text on show: "keeps the counter
\* truthful while the dropdown stays open"; the guide is not counted anew.
CounterAgrees ==
    page.attached /\ page.menu.shown /\ page.menu.count # None /\ ~page.builtIn =>
        page.menu.count = value(page)

\* The editor looks as the settings say, and those are the stored ones when all
\* is answered and no request was lost.
LooksAgree ==
    lost = 0 => /\ SettingsAreShown
                /\ page.editor # None => page.editor.look = lookOf(settings, fontSize)

\* What is on the screen is what the page holds, whatever handlers and answers
\* came in between.
PageTellsTruth == OneWriter /\ ChildrenAgree /\ CounterAgrees /\ LooksAgree

\* No text but its own is in the draft of a document or stored in it, except by
\* the two ways that are known to mix them: the guide parked by a render, and
\* an undo of what replaced the text of another document or the guide.
NothingForeign ==
    /\ \A d \in Stored(docs) \ page.strayed : docs[d].text.of = d
    /\ page.currentId \notin page.strayed =>
          /\ page.draft.of = page.currentId
          /\ page.builtIn \/ value(page).of = page.currentId
=============================================================================
