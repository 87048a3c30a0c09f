--------------------------- MODULE Workbench_proofs ---------------------------
(***************************************************************************)
(* The workbench, for all documents, themes and sizes and for all bounds.  *)
(* First the settings under it: whatever the page does meanwhile, the      *)
(* chain of writes keeps a write of the whole record from reverting a      *)
(* setting.  Then the page: what its children show, and whose texts it     *)
(* and storage hold.                                                       *)
(*                                                                         *)
(* A write starts from the record it has read.  That this is still the     *)
(* stored one when it is written, and that the size it counts from is      *)
(* still the one shown, is because only the first of the chain has read    *)
(* anything, and only the first of the chain writes.                       *)
(*                                                                         *)
(* A handler takes a sound page to a sound page.  Handlers compose, and    *)
(* one in the middle of another leaves a child for the next to tell, so a  *)
(* lemma about a handler says what it leaves alone (Alike, Changed,        *)
(* KeptAt) besides what it sets right.                                     *)
(***************************************************************************)
EXTENDS Workbench, TLAPS, SequenceTheorems

Link == [change : Change,
         patch : Change \cup {None} \cup [key : {"fontSize"}, value : FontSize],
         read : Settings \cup {None}]

\* What is kept is what it says it is.
RecordsTyped ==
    /\ stored \in Settings /\ fontSize \in FontSize /\ writeChain \in Seq(Link)
    /\ FontSize \subseteq Int

\* Only the first of the chain has read, and what it has read is still stored;
\* its patch is made of the size still shown, and was checked.
OnlyFirstHasRead ==
    \A n \in 1 .. Len(writeChain) :
        writeChain[n].read # None =>
            /\ n = 1 /\ writeChain[n].read = stored
            /\ writeChain[n].patch = patchOf(writeChain[n].change)
            /\ validatePatch(writeChain[n].patch)

WInv == RecordsTyped /\ OnlyFirstHasRead
-----------------------------------------------------------------------------
\* What is left of a sequence without its first element.
LEMMA RestOf ==
    ASSUME NEW S, NEW s \in Seq(S), s # <<>>
    PROVE  /\ SubSeq(s, 2, Len(s)) \in Seq(S) /\ Len(SubSeq(s, 2, Len(s))) = Len(s) - 1
           /\ \A n \in 1 .. Len(s) - 1 : SubSeq(s, 2, Len(s))[n] = s[n + 1]
<1> DEFINE last == Len(s)
<1>1. last \in Nat /\ last # 0 /\ \A i \in 2 .. last : s[i] \in S
  BY ElementOfSeq
<1> HIDE DEF last
<1>2. /\ SubSeq(s, 2, last) \in Seq(S)
      /\ Len(SubSeq(s, 2, last)) = IF 2 <= last THEN last - 2 + 1 ELSE 0
      /\ \A n \in 1 .. last - 2 + 1 : SubSeq(s, 2, last)[n] = s[2 + n - 1]
  BY <1>1, SubSeqProperties
<1>3. (IF 2 <= last THEN last - 2 + 1 ELSE 0) = last - 1
  BY <1>1
<1>4. \A n \in 1 .. last - 1 : n \in 1 .. last - 2 + 1 /\ 2 + n - 1 = n + 1
  BY <1>1
<1>5. \A n \in 1 .. last - 1 : SubSeq(s, 2, last)[n] = s[n + 1]
  BY <1>2, <1>4
<1>6. Len(SubSeq(s, 2, last)) = last - 1
  BY <1>2, <1>3
<1> QED BY <1>2, <1>5, <1>6 DEF last

\* The rest of the chain moves up.
LEMMA AnsweredFirst ==
    ASSUME NEW S, NEW chain \in Seq(S), chain # <<>>
    PROVE  LET rest == SubSeq(chain, 1, 0) \o SubSeq(chain, 2, Len(chain))
           IN  /\ rest \in Seq(S) /\ Len(rest) = Len(chain) - 1
               /\ \A n \in 1 .. Len(rest) : rest[n] = chain[n + 1]
<1>1. Len(chain) \in Nat /\ Len(chain) # 0
  OBVIOUS
<1> DEFINE tail == SubSeq(chain, 2, Len(chain))
<1>2. SubSeq(chain, 1, 0) = <<>>
  BY SubSeqEmpty
<1>3. /\ tail \in Seq(S) /\ Len(tail) = Len(chain) - 1
      /\ \A n \in 1 .. Len(tail) : tail[n] = chain[n + 1]
  <2>1. /\ tail \in Seq(S) /\ Len(tail) = Len(chain) - 1
        /\ \A n \in 1 .. Len(chain) - 1 : tail[n] = chain[n + 1]
    BY RestOf
  <2> HIDE DEF tail
  <2> QED BY <2>1
<1>4. <<>> \o tail = tail
  BY <1>3
<1> QED BY <1>2, <1>3, <1>4

\* A checked patch makes of a record of the settings another one, in which it
\* has changed what it names.
LEMMA PatchTyped ==
    ASSUME NEW change \in Change, fontSize \in FontSize, FontSize \subseteq Int,
           validatePatch(patchOf(change)), NEW record \in Settings
    PROVE  /\ Patched(record, patchOf(change)) \in Settings
           /\ Patched(record, patchOf(change)) =
                 [record EXCEPT ![change.key] = IF change.key = "fontSize"
                                                THEN fontSize + change.value
                                                ELSE change.value]
<1>1. CASE change.key = "fontSize"
  <2>1. patchOf(change) = [key |-> "fontSize", value |-> fontSize + change.value]
    BY <1>1 DEF patchOf
  <2>2. patchOf(change).key = "fontSize" /\ patchOf(change).value = fontSize + change.value
    BY <2>1
  <2>3. fontSize + change.value \in FontSize
    BY <2>2 DEF validatePatch
  <2> QED BY <1>1, <2>2, <2>3 DEF Patched, Settings
<1>2. CASE change.key # "fontSize"
  <2>1. patchOf(change) = change
    BY <1>2 DEF patchOf
  <2>2. \/ change.key = "theme" /\ change.value \in Theme
        \/ change.key = "filesSort" /\ change.value \in FilesSort
    BY <1>2 DEF Change
  <2> QED BY <1>2, <2>1, <2>2 DEF Patched, Settings
<1> QED BY <1>1, <1>2
-----------------------------------------------------------------------------
LEMMA InitWInv == Init => WInv
BY SizesKnown DEF Init, PrefsInit, WInv, RecordsTyped, OnlyFirstHasRead, Settings, FontSize

\* A change joins the end of the chain, and has read nothing.
LEMMA ApplyKeepsWInv ==
    ASSUME WInv, NEW change \in Change, Apply(change)
    PROVE  WInv'
<1> DEFINE link == [change |-> change, patch |-> None, read |-> None]
<1>1. link \in Link /\ link.read = None
  BY DEF Link
<1>2. /\ writeChain \in Seq(Link) /\ writeChain' = Append(writeChain, link)
      /\ stored' = stored /\ fontSize' = fontSize
  BY DEF WInv, RecordsTyped, Apply
<1> HIDE DEF link
<1>3. /\ writeChain' \in Seq(Link) /\ Len(writeChain') = Len(writeChain) + 1
      /\ \A n \in 1 .. Len(writeChain) : writeChain'[n] = writeChain[n]
      /\ writeChain'[Len(writeChain) + 1] = link
      /\ Len(writeChain) \in Nat
  BY <1>1, <1>2
<1>4. \A n \in 1 .. Len(writeChain') : n \in 1 .. Len(writeChain) \/ n = Len(writeChain) + 1
  BY <1>3
<1>5. OnlyFirstHasRead'
  BY <1>1, <1>2, <1>3, <1>4 DEF WInv, OnlyFirstHasRead, patchOf
<1> QED BY <1>2, <1>3, <1>5 DEF WInv, RecordsTyped

\* The first of the chain is answered; the others have read nothing.
LEMMA AnsweringKeepsWInv ==
    ASSUME WInv, writeChain # <<>>, writeChain' = Answered(1),
           stored' \in Settings, fontSize' \in FontSize
    PROVE  WInv'
<1>1. /\ writeChain' \in Seq(Link) /\ Len(writeChain') = Len(writeChain) - 1
      /\ \A n \in 1 .. Len(writeChain') : writeChain'[n] = writeChain[n + 1]
  BY AnsweredFirst DEF WInv, RecordsTyped, Answered
<1>2. \A n \in 1 .. Len(writeChain') : n + 1 \in 1 .. Len(writeChain) /\ n + 1 # 1
  BY <1>1 DEF WInv, RecordsTyped
<1>3. OnlyFirstHasRead'
  BY <1>1, <1>2 DEF WInv, OnlyFirstHasRead
<1> QED BY <1>1, <1>3 DEF WInv, RecordsTyped

\* Of a patch that was checked, the type is that of a change or of a size.
LEMMA PatchKept ==
    ASSUME NEW change \in Change, FontSize \subseteq Int, fontSize \in FontSize,
           validatePatch(patchOf(change))
    PROVE  patchOf(change) \in Change \cup [key : {"fontSize"}, value : FontSize]
<1>1. CASE change.key = "fontSize"
  <2>1. patchOf(change) = [key |-> "fontSize", value |-> fontSize + change.value]
    BY <1>1 DEF patchOf
  <2>2. fontSize + change.value \in FontSize
    BY <2>1 DEF validatePatch
  <2> QED BY <2>1, <2>2
<1>2. CASE change.key # "fontSize"
  BY <1>2 DEF patchOf
<1> QED BY <1>1, <1>2

\* What is known of a change that waits.
LEMMA Waiting ==
    ASSUME WInv, NEW n \in DOMAIN writeChain
    PROVE  /\ writeChain \in Seq(Link) /\ n \in 1 .. Len(writeChain) /\ writeChain[n] \in Link
           /\ writeChain[n].change \in Change /\ writeChain # <<>>
           /\ stored \in Settings /\ fontSize \in FontSize /\ FontSize \subseteq Int
<1>1. writeChain \in Seq(Link) /\ n \in 1 .. Len(writeChain) /\ writeChain # <<>>
  BY DEF WInv, RecordsTyped
<1>2. writeChain[n] \in Link
  BY <1>1, ElementOfSeq
<1>3. writeChain[n].change \in Change
  BY <1>2 DEF Link
<1> QED BY <1>1, <1>2, <1>3 DEF WInv, RecordsTyped

\* A change that has its turn is first; it takes the record that is stored.
LEMMA ReadsKeepWInv ==
    ASSUME WInv, NEW n \in DOMAIN writeChain, SaveReads(n)
    PROVE  WInv'
<1> DEFINE patch == patchOf(writeChain[n].change)
<1>1. /\ n = 1 /\ writeChain # <<>> /\ stored' = stored /\ fontSize' = fontSize
      /\ writeChain[n].change \in Change /\ writeChain \in Seq(Link)
      /\ stored \in Settings /\ fontSize \in FontSize /\ FontSize \subseteq Int
  BY Waiting DEF SaveReads, Turn
<1>2. CASE ~validatePatch(patch)
  <2>1. writeChain' = Answered(1)
    BY <1>1, <1>2 DEF SaveReads
  <2> QED BY <1>1, <2>1, AnsweringKeepsWInv
<1>3. CASE validatePatch(patch)
  <2>1. writeChain' = [writeChain EXCEPT ![n].patch = patch, ![n].read = stored]
    BY <1>3 DEF SaveReads
  <2>2. patch \in Change \cup [key : {"fontSize"}, value : FontSize]
    BY <1>1, <1>3, PatchKept
  <2> HIDE DEF patch
  <2>3. [writeChain[n] EXCEPT !.patch = patch, !.read = stored] \in Link
    <3>1. writeChain[n] \in Link
      BY Waiting
    <3> QED BY <1>1, <2>2, <3>1 DEF Link
  <2>4. writeChain' = [writeChain EXCEPT ![n] = [writeChain[n] EXCEPT !.patch = patch, !.read = stored]]
    BY <2>1
  <2>5. /\ writeChain' \in Seq(Link) /\ Len(writeChain') = Len(writeChain)
        /\ \A m \in 1 .. Len(writeChain) : m # 1 => writeChain'[m] = writeChain[m]
        /\ writeChain'[1] = [writeChain[n] EXCEPT !.patch = patch, !.read = stored]
    BY <1>1, <2>3, <2>4
  <2>6. /\ writeChain'[1].patch = patch /\ writeChain'[1].read = stored
        /\ writeChain'[1].change = writeChain[1].change
    BY <1>1, <2>5 DEF Link
  <2>7. patch = patchOf(writeChain[1].change)
    BY <1>1 DEF patch
  <2>8. OnlyFirstHasRead'
    BY <1>1, <1>3, <2>5, <2>6, <2>7 DEF WInv, OnlyFirstHasRead, patchOf, validatePatch
  <2> QED BY <1>1, <2>5, <2>8 DEF WInv, RecordsTyped
<1> QED BY <1>2, <1>3

\* What is written is the stored record with the one change that was asked for.
LEMMA WritesWhatWasAsked ==
    ASSUME WInv, NEW n \in DOMAIN writeChain, SaveWrites(n)
    PROVE  LET change == writeChain[n].change
           IN  /\ n = 1 /\ writeChain # <<>> /\ writeChain' = Answered(n)
               /\ stored' \in Settings /\ fontSize' \in FontSize
               /\ stored' = [stored EXCEPT ![change.key] =
                                IF change.key = "fontSize" THEN fontSize + change.value
                                ELSE change.value]
<1> DEFINE change == writeChain[n].change
<1>1. /\ n = 1 /\ writeChain # <<>> /\ writeChain[n].read # None
      /\ change \in Change /\ n \in 1 .. Len(writeChain)
      /\ stored \in Settings /\ fontSize \in FontSize /\ FontSize \subseteq Int
  BY Waiting DEF SaveWrites, Turn
<1>2. /\ writeChain[n].read = stored /\ writeChain[n].patch = patchOf(change)
      /\ validatePatch(patchOf(change))
  BY <1>1 DEF WInv, OnlyFirstHasRead
<1>3. /\ stored' = Patched(stored, patchOf(change))
      /\ fontSize' = IF change.key = "filesSort" THEN fontSize ELSE stored'.fontSize
      /\ writeChain' = Answered(n)
  BY <1>2 DEF SaveWrites
<1> HIDE DEF change
<1>4. /\ stored' \in Settings
      /\ stored' = [stored EXCEPT ![change.key] =
                       IF change.key = "fontSize" THEN fontSize + change.value ELSE change.value]
  BY <1>1, <1>2, <1>3, PatchTyped
<1>5. fontSize' \in FontSize
  BY <1>1, <1>3, <1>4 DEF Settings
<1> QED BY <1>1, <1>3, <1>4, <1>5 DEF change
-----------------------------------------------------------------------------
\* The settings answer.
LEMMA AnswerKeepsWInv == WInv /\ PrefsAnswer => WInv'
<1> SUFFICES ASSUME WInv, PrefsAnswer PROVE WInv'
  OBVIOUS
<1>1. ASSUME NEW n \in DOMAIN writeChain, SaveReads(n) PROVE WInv'
  BY <1>1, ReadsKeepWInv
<1>2. ASSUME NEW n \in DOMAIN writeChain, SaveWrites(n) PROVE WInv'
  <2>1. /\ writeChain # <<>> /\ writeChain' = Answered(1)
        /\ stored' \in Settings /\ fontSize' \in FontSize
    BY <1>2, WritesWhatWasAsked
  <2> QED BY <2>1, AnsweringKeepsWInv
<1>3. ASSUME NEW n \in DOMAIN writeChain, SaveFails(n) PROVE WInv'
  <2>1. /\ writeChain # <<>> /\ writeChain' = Answered(1)
        /\ stored' \in Settings /\ fontSize' \in FontSize
    BY <1>3 DEF SaveFails, Turn, WInv, RecordsTyped
  <2> QED BY <2>1, AnsweringKeepsWInv
<1>4. ASSUME NEW n \in DOMAIN themeWrite, ThemeReads(n) \/ applyStoredTheme(n) \/ ThemeFails(n)
      PROVE  WInv'
  BY <1>4 DEF ThemeReads, applyStoredTheme, ThemeFails, WInv, RecordsTyped, OnlyFirstHasRead, patchOf
<1> QED BY <1>1, <1>2, <1>3, <1>4 DEF PrefsAnswer

\* Whatever else the page does, it leaves the settings alone.
LEMMA PageOrSettings ==
    ASSUME [Next]_vars
    PROVE  UNCHANGED prefs \/ PrefsAnswer \/ \E change \in Change : Apply(change)
<1>1. CASE User
  BY <1>1 DEF User, Act, SwitchView, ToggleSide, ToggleStatus, EntersFullscreen, LeavesFullscreen,
              openSearch, ToggleSearch, OutsideClick, closeSearch, Searches, Type, Replaces, undo,
              EditMap, JumpFromMap, openBuiltin, closeBuiltin, AskLock, switchDocument,
              ChangeSetting, ColorSchemeFlips
<1>2. CASE Answers
  BY <1>2 DEF Answers, Answer, Attach, GuideOpens, GuideFails, SettingsAnswer, LockAnswers,
              LockFails, DocumentOpens, OpeningFails, Pull
<1>3. CASE UNCHANGED vars
  BY <1>3 DEF vars
<1> QED BY <1>1, <1>2, <1>3 DEF Next

LEMMA NextKeepsWInv == WInv /\ [Next]_vars => WInv'
<1> SUFFICES ASSUME WInv, [Next]_vars PROVE WInv'
  OBVIOUS
<1>1. CASE UNCHANGED prefs
  BY <1>1 DEF prefs, WInv, RecordsTyped, OnlyFirstHasRead, patchOf
<1> QED BY <1>1, PageOrSettings, ApplyKeepsWInv, AnswerKeepsWInv

\* Only a write changes the record.
LEMMA WriteRevertsNothing ==
    ASSUME WInv, [Next]_vars, stored' # stored
    PROVE  \E n \in DOMAIN writeChain :
              LET change == writeChain[n].change IN
              /\ stored' = [stored EXCEPT ![change.key] =
                               IF change.key = "fontSize" THEN fontSize + change.value
                               ELSE change.value]
              /\ writeChain' = Answered(n)
<1>1. PrefsAnswer
  BY PageOrSettings DEF prefs, Apply
<1>2. PICK n \in DOMAIN writeChain : SaveWrites(n)
  BY <1>1 DEF PrefsAnswer, SaveReads, SaveFails, ThemeReads, applyStoredTheme, ThemeFails
<1> QED BY <1>2, WritesWhatWasAsked

\* A write reverts no setting but the one it was asked to change, and a step of
\* the size counts from the size on show (settings-applier.js, saveSettings).
THEOREM WritesRevertNothing == Spec => NoSettingReverts
<1>1. Init => WInv
  BY InitWInv
<1>2. WInv /\ [Next]_vars => WInv'
  BY NextKeepsWInv
<1>3. WInv /\ [Next]_vars =>
        [stored' # stored =>
           \E n \in DOMAIN writeChain :
              LET change == writeChain[n].change IN
              /\ stored' = [stored EXCEPT ![change.key] =
                               IF change.key = "fontSize" THEN fontSize + change.value
                               ELSE change.value]
              /\ writeChain' = Answered(n)]_prefs
  BY WriteRevertsNothing
<1> QED BY <1>1, <1>2, <1>3, PTL DEF Spec, NoSettingReverts
-----------------------------------------------------------------------------
(***************************************************************************)
(* The page                                                                *)
(***************************************************************************)

\* The page outside its children: the rail names the map only with the map in the
\* centre, full screen has no search, a counter is that of a search, and a page
\* that has not strayed holds the text of its document.
Ready(p) ==
    /\ p \in Page
    /\ p.activeView = MINDMAP_VIEW => p.centerMode = "mindmap"
    /\ p.fullscreen => ~p.searchOpen
    /\ p.menu.count # None => p.searchOpen /\ p.searchSpec # None
    /\ p.currentId \notin p.strayed =>
          /\ p.draft.of = p.currentId
          /\ p.builtIn \/ value(p).of = p.currentId

\* The centre holds the editor or the map.
Centred(p) ==
    /\ p.editor # None <=> p.centerMode = "editor"
    /\ p.mind <=> p.centerMode = "mindmap"

\* The editor is told of a lock at once, also while the children are not there.
EditorTold(p, ds) == ~p.misled /\ p.editor # None => p.editor.readOnly = locked(p, ds)

ChildrenTold(p, ds) ==
    p.attached /\ ~p.misled =>
        /\ p.menu.readOnly = locked(p, ds)
        /\ p.menu.builtIn = p.builtIn /\ p.menu.fullscreen = p.fullscreen
        /\ p.rail = p.activeView
        /\ p.sideOpen <=> p.side # None
        /\ p.bottomOpen <=> p.status # None
        /\ ~p.mind /\ p.side # None => p.side = SideOf(p)
        /\ ~p.mind /\ p.status # None => p.status = StatusOf(p, ds)

\* A text is counted over the editor only, and again whenever it changes.
CounterTold(p) ==
    p.attached /\ p.menu.count # None =>
        ~p.mind /\ (p.builtIn \/ p.menu.count = value(p))

Sound(p, ds) ==
    Ready(p) /\ Centred(p) /\ EditorTold(p, ds) /\ ChildrenTold(p, ds) /\ CounterTold(p)

LEMMA GuideIsText == TheGuide \in Text
BY WorkbenchBounds DEF TheGuide, Text

LEMMA ValueTyped ==
    ASSUME NEW p \in Page
    PROVE  value(p) \in Text
BY DEF value, Page, Editor

LEMMA UnmountReady ==
    ASSUME NEW p, Ready(p)
    PROVE  LET r == unmountEditor(p)
           IN  /\ Ready(r) /\ r.editor = None /\ p.strayed \subseteq r.strayed
               /\ r.currentId = p.currentId /\ r.centerMode = p.centerMode
<1> DEFINE r == unmountEditor(p)
<1>1. CASE p.editor = None
  BY <1>1 DEF unmountEditor
<1>2. CASE p.editor # None
  <2>1. p \in Page /\ p.editor \in Editor /\ p.editor.text \in Text
    BY <1>2 DEF Ready, Page, Editor
  <2>2. r = [p EXCEPT !.draft = p.editor.text, !.editor = None, !.strayed = Strays(p, p.builtIn)]
    BY <1>2 DEF unmountEditor
  <2>3. Strays(p, p.builtIn) \in SUBSET Docs
    BY <2>1 DEF Strays, Page
  <2>4. r \in Page
    BY <2>1, <2>2, <2>3 DEF Page
  <2> QED BY <1>2, <2>1, <2>2, <2>4 DEF Ready, value, Strays, Page
<1> QED BY <1>1, <1>2

LEMMA MountedTyped ==
    ASSUME NEW p \in Page, NEW e \in Editor, NEW waits \in BOOLEAN
    PROVE  [p EXCEPT !.editor = e, !.opening = waits, !.pendingBuiltin = FALSE] \in Page
BY DEF Page

LEMMA MountReady ==
    ASSUME NEW p, Ready(p), p.editor = None, NEW ds, NEW look \in Look
    PROVE  LET r == mountEditor(p, ds, look)
           IN  /\ Ready(r) /\ r.editor # None /\ r.editor.look = look
               /\ r.editor.readOnly = locked(r, ds)
               /\ r.strayed = p.strayed /\ r.currentId = p.currentId
               /\ r.centerMode = p.centerMode /\ r.mind = p.mind
               /\ r.attached = p.attached /\ r.misled = p.misled
<1> DEFINE e == [text |-> IF p.builtIn THEN TheGuide ELSE p.draft, readOnly |-> locked(p, ds),
                 query |-> None, past |-> <<>>, look |-> look]
           r == mountEditor(p, ds, look)
<1>1. p \in Page /\ p.draft \in Text /\ p.builtIn \in BOOLEAN
  BY DEF Ready, Page
<1>2. locked(p, ds) \in BOOLEAN
  BY <1>1 DEF locked, currentLocked
<1>3. e \in Editor
  BY <1>1, <1>2, GuideIsText DEF Editor
<1>4. r = [p EXCEPT !.editor = e, !.opening = p.opening \/ p.pendingBuiltin, !.pendingBuiltin = FALSE]
  BY DEF mountEditor
<1>5. e # None /\ e.look = look /\ e.readOnly = locked(p, ds)
      /\ (p.builtIn \/ e.text = p.draft)
  BY <1>3, NoneIsNothing
<1> HIDE DEF e, r
<1>6. r \in Page
  BY <1>1, <1>3, <1>4, MountedTyped, Zenon
<1>7. /\ r.editor = e /\ r.draft = p.draft /\ r.builtIn = p.builtIn /\ r.currentId = p.currentId
      /\ r.strayed = p.strayed /\ r.centerMode = p.centerMode /\ r.mind = p.mind
      /\ r.attached = p.attached /\ r.misled = p.misled /\ r.menu = p.menu
      /\ r.activeView = p.activeView /\ r.fullscreen = p.fullscreen
      /\ r.searchOpen = p.searchOpen /\ r.searchSpec = p.searchSpec
  BY <1>1, <1>4 DEF Page
<1>8. locked(r, ds) = locked(p, ds)
  BY <1>7 DEF locked, currentLocked
<1>9. Ready(r)
  BY <1>5, <1>6, <1>7 DEF Ready, value
<1> QED BY <1>5, <1>7, <1>8, <1>9 DEF r

\* A render: the page is sound again, without its children.
LEMMA RemountSound ==
    ASSUME NEW p, Ready(p), NEW ds, NEW look \in Look
    PROVE  LET r == remounted(p, ds, look)
           IN  /\ Sound(r, ds) /\ p.strayed \subseteq r.strayed /\ r.currentId = p.currentId
               /\ r.editor # None => r.editor.look = look
<1> DEFINE u == unmountEditor(p)
           bare == [u EXCEPT !.attached = FALSE, !.misled = FALSE]
           r == remounted(p, ds, look)
<1>1. /\ Ready(u) /\ u.editor = None /\ p.strayed \subseteq u.strayed
      /\ u.currentId = p.currentId /\ u.centerMode = p.centerMode
  BY UnmountReady
<1> HIDE DEF u
<1>2. ASSUME NEW mind \in BOOLEAN, NEW q, q = [bare EXCEPT !.mind = mind]
      PROVE  /\ Ready(q) /\ q.editor = None /\ q.strayed = u.strayed /\ q.currentId = u.currentId
             /\ q.centerMode = u.centerMode /\ q.mind = mind /\ q.attached = FALSE /\ q.misled = FALSE
  <2>1. u \in Page
    BY <1>1 DEF Ready
  <2>2. q \in Page
    BY <1>2, <2>1 DEF Page
  <2> QED BY <1>1, <1>2, <2>1, <2>2 DEF Ready, value, Page
<1>3. CASE p.centerMode = "mindmap"
  <2>1. r = [bare EXCEPT !.mind = TRUE]
    BY <1>3 DEF remounted, u
  <2> QED BY <1>1, <1>2, <1>3, <2>1 DEF Sound, Centred, EditorTold, ChildrenTold, CounterTold
<1>4. CASE p.centerMode # "mindmap"
  <2> DEFINE q == [bare EXCEPT !.mind = FALSE]
  <2>1. r = mountEditor(q, ds, look)
    BY <1>4 DEF remounted, u
  <2>2. /\ Ready(q) /\ q.editor = None /\ q.strayed = u.strayed /\ q.currentId = u.currentId
        /\ q.centerMode = u.centerMode /\ q.mind = FALSE /\ q.attached = FALSE /\ q.misled = FALSE
    BY <1>2
  <2> HIDE DEF q
  <2>3. u.centerMode = "editor"
    BY <1>1, <1>4 DEF Ready, Page
  <2>4. /\ Ready(r) /\ r.editor # None /\ r.editor.look = look
        /\ r.editor.readOnly = locked(r, ds)
        /\ r.strayed = q.strayed /\ r.currentId = q.currentId
        /\ r.centerMode = q.centerMode /\ r.mind = q.mind
        /\ r.attached = q.attached /\ r.misled = q.misled
    BY <2>1, <2>2, MountReady
  <2> QED BY <1>1, <2>2, <2>3, <2>4 DEF Sound, Centred, EditorTold, ChildrenTold, CounterTold
<1> QED BY <1>3, <1>4
-----------------------------------------------------------------------------
(* The handlers that go past the render, by what they leave of the page *)

\* But for the texts, the search and the menu, the pages are the same.
Alike(p, r) ==
    /\ r.centerMode = p.centerMode /\ r.activeView = p.activeView /\ r.rail = p.rail
    /\ r.sideOpen = p.sideOpen /\ r.bottomOpen = p.bottomOpen /\ r.fullscreen = p.fullscreen
    /\ r.currentId = p.currentId /\ r.builtIn = p.builtIn /\ r.mind = p.mind
    /\ r.attached = p.attached /\ r.strayed = p.strayed /\ r.misled = p.misled
SameSearch(p, r) == r.searchOpen = p.searchOpen /\ r.searchSpec = p.searchSpec
SameMenu(p, r) ==
    /\ r.menu.readOnly = p.menu.readOnly /\ r.menu.builtIn = p.menu.builtIn
    /\ r.menu.fullscreen = p.menu.fullscreen
SamePanels(p, r) == r.side = p.side /\ r.status = p.status
\* The same editor, but for its query.
SameEditor(p, r) ==
    /\ r.editor = None <=> p.editor = None
    /\ p.editor # None => /\ r.editor.text = p.editor.text
                          /\ r.editor.readOnly = p.editor.readOnly
                          /\ r.editor.look = p.editor.look
\* The panels that are there show the page as it is.
PanelsTold(p, r, ds) ==
    /\ r.side = None <=> p.side = None
    /\ r.status = None <=> p.status = None
    /\ r.side # None => r.side = SideOf(r)
    /\ r.status # None => r.status = StatusOf(r, ds)

LEMMA TellMenu ==
    ASSUME NEW p \in Page, NEW m \in Menu
    PROVE  LET r == tellMenu(p, m)
           IN  /\ r \in Page /\ Alike(p, r) /\ SameSearch(p, r) /\ SamePanels(p, r)
               /\ r.editor = p.editor /\ r.draft = p.draft
               /\ r.menu.readOnly = m.readOnly /\ r.menu.builtIn = m.builtIn
               /\ r.menu.fullscreen = m.fullscreen /\ r.menu.count = m.count
<1>1. [m EXCEPT !.shown = m.open] \in Menu
  BY DEF Menu
<1>2. ASSUME NEW n \in Menu
      PROVE  LET r == [p EXCEPT !.menu = n]
             IN  /\ r \in Page /\ Alike(p, r) /\ SameSearch(p, r) /\ SamePanels(p, r)
                 /\ r.editor = p.editor /\ r.draft = p.draft /\ r.menu = n
  BY DEF Page, Alike, SameSearch, SamePanels
<1>3. tellMenu(p, m) = [p EXCEPT !.menu = [m EXCEPT !.shown = m.open]]
  BY DEF tellMenu
<1>4. LET n == [m EXCEPT !.shown = m.open]
      IN  /\ n.readOnly = m.readOnly /\ n.builtIn = m.builtIn
          /\ n.fullscreen = m.fullscreen /\ n.count = m.count
  BY DEF Menu
<1> QED BY <1>1, <1>2, <1>3, <1>4

LEMMA LockIsBoolean ==
    ASSUME NEW p \in Page, NEW ds
    PROVE  locked(p, ds) \in BOOLEAN /\ currentLocked(p, ds) \in BOOLEAN
BY DEF locked, currentLocked

LEMMA PanelsTyped ==
    ASSUME NEW p \in Page, NEW ds
    PROVE  /\ SideOf(p) \in Side /\ SideOf(p) # None
           /\ StatusOf(p, ds) \in Status /\ StatusOf(p, ds) # None
<1>1. value(p) \in Text /\ locked(p, ds) \in BOOLEAN
  BY ValueTyped, LockIsBoolean
<1>2. SideOf(p) \in Side
  <2>1. p.activeView \in View \cup {MINDMAP_VIEW} /\ p.currentId \in Docs
    BY DEF Page
  <2>2. (p.centerMode = "mindmap") \in BOOLEAN
    OBVIOUS
  <2> QED BY <1>1, <2>1, <2>2 DEF SideOf, Side
<1>3. StatusOf(p, ds) \in Status
  BY <1>1 DEF StatusOf, Status
<1> QED BY <1>2, <1>3, NoneIsNothing

\* SideOf and StatusOf read of the page what they show.
LEMMA PanelsOfAlike ==
    ASSUME NEW p, NEW r, NEW ds, Alike(p, r), value(r) = value(p)
    PROVE  /\ SideOf(r) = SideOf(p) /\ StatusOf(r, ds) = StatusOf(p, ds)
           /\ locked(r, ds) = locked(p, ds)
BY DEF Alike, SideOf, StatusOf, locked, currentLocked

LEMMA Push ==
    ASSUME NEW p \in Page, NEW ds
    PROVE  LET r == pushLiveUpdates(p, ds)
           IN  /\ r \in Page /\ Alike(p, r) /\ SameSearch(p, r) /\ PanelsTold(p, r, ds)
               /\ r.editor = p.editor /\ r.draft = p.draft /\ r.menu = p.menu
<1> DEFINE r == pushLiveUpdates(p, ds)
<1>1. ASSUME NEW status \in Status \cup {None}, NEW side \in Side \cup {None}
      PROVE  LET q == [p EXCEPT !.status = status, !.side = side]
             IN  /\ q \in Page /\ Alike(p, q) /\ SameSearch(p, q)
                 /\ q.status = status /\ q.side = side
                 /\ q.editor = p.editor /\ q.draft = p.draft /\ q.menu = p.menu
  BY DEF Page, Alike, SameSearch
<1>2. r = [p EXCEPT !.status = IF p.status = None THEN None ELSE StatusOf(p, ds),
                    !.side = IF p.side = None THEN None ELSE SideOf(p)]
  BY DEF pushLiveUpdates, Page
<1>3. /\ (IF p.status = None THEN None ELSE StatusOf(p, ds)) \in Status \cup {None}
      /\ (IF p.side = None THEN None ELSE SideOf(p)) \in Side \cup {None}
  BY PanelsTyped
<1> HIDE DEF r
<1>4. /\ r \in Page /\ Alike(p, r) /\ SameSearch(p, r)
      /\ r.status = IF p.status = None THEN None ELSE StatusOf(p, ds)
      /\ r.side = IF p.side = None THEN None ELSE SideOf(p)
      /\ r.editor = p.editor /\ r.draft = p.draft /\ r.menu = p.menu
  <2>1. PICK status \in Status \cup {None}, side \in Side \cup {None} :
           /\ status = IF p.status = None THEN None ELSE StatusOf(p, ds)
           /\ side = IF p.side = None THEN None ELSE SideOf(p)
    BY <1>3
  <2>2. r = [p EXCEPT !.status = status, !.side = side]
    BY <1>2, <2>1
  <2>3. LET q == [p EXCEPT !.status = status, !.side = side]
        IN  /\ q \in Page /\ Alike(p, q) /\ SameSearch(p, q)
            /\ q.status = status /\ q.side = side
            /\ q.editor = p.editor /\ q.draft = p.draft /\ q.menu = p.menu
    BY <1>1
  <2>4. /\ r \in Page /\ Alike(p, r) /\ SameSearch(p, r)
        /\ r.status = status /\ r.side = side
        /\ r.editor = p.editor /\ r.draft = p.draft /\ r.menu = p.menu
    BY <2>2, <2>3
  <2> QED BY <2>1, <2>4
<1>5. value(r) = value(p)
  BY <1>4 DEF value
<1>6. PanelsTold(p, r, ds)
  BY <1>4, <1>5, PanelsOfAlike, PanelsTyped DEF PanelsTold
<1> QED BY <1>4, <1>6 DEF r

LEMMA EditorSet ==
    ASSUME NEW p \in Page, NEW e \in Editor \cup {None}
    PROVE  LET r == [p EXCEPT !.editor = e]
           IN  /\ r \in Page /\ Alike(p, r) /\ SameSearch(p, r) /\ SamePanels(p, r)
               /\ r.editor = e /\ r.draft = p.draft /\ r.menu = p.menu
BY DEF Page, Alike, SameSearch, SamePanels

\* What counted, with an editor, does to the page.
LEMMA Counted ==
    ASSUME NEW p \in Page, p.editor # None, NEW spec \in Query
    PROVE  LET r == counted(p, spec)
           IN  /\ r \in Page /\ Alike(p, r) /\ SameSearch(p, r) /\ SamePanels(p, r)
               /\ SameMenu(p, r) /\ SameEditor(p, r) /\ r.draft = p.draft
               /\ r.menu.count = None \/ r.menu.count = value(r)
<1> DEFINE e == [p.editor EXCEPT !.query = IF spec = "blank" THEN None ELSE spec]
           n == [p.menu EXCEPT !.query = spec, !.count = IF spec = "blank" THEN None ELSE value(p)]
           q == [p EXCEPT !.editor = e]
           r == counted(p, spec)
<1>1. p.editor \in Editor /\ p.menu \in Menu /\ value(p) = p.editor.text /\ value(p) \in Text
  BY ValueTyped DEF Page, value
<1>2. (IF spec = "blank" THEN None ELSE spec) \in Query \cup {None}
  OBVIOUS
<1>3. e \in Editor /\ e.text = p.editor.text /\ e.readOnly = p.editor.readOnly /\ e.look = p.editor.look
  BY <1>1, <1>2 DEF Editor
<1>4. (IF spec = "blank" THEN None ELSE value(p)) \in Text \cup {None}
  BY <1>1
<1>5. /\ n \in Menu /\ n.readOnly = p.menu.readOnly /\ n.builtIn = p.menu.builtIn
      /\ n.fullscreen = p.menu.fullscreen
      /\ n.count = IF spec = "blank" THEN None ELSE value(p)
  BY <1>1, <1>4 DEF Menu
<1>6. r = tellMenu(q, n)
  BY DEF counted
<1> HIDE DEF e, n, r
<1>7. /\ q \in Page /\ Alike(p, q) /\ SameSearch(p, q) /\ SamePanels(p, q)
      /\ q.editor = e /\ q.draft = p.draft
  BY <1>3, EditorSet
<1> HIDE DEF q
<1>8. /\ r \in Page /\ Alike(q, r) /\ SameSearch(q, r) /\ SamePanels(q, r)
      /\ r.editor = q.editor /\ r.draft = q.draft
      /\ r.menu.readOnly = n.readOnly /\ r.menu.builtIn = n.builtIn
      /\ r.menu.fullscreen = n.fullscreen /\ r.menu.count = n.count
  BY <1>5, <1>6, <1>7, TellMenu
<1>9. r.editor = e /\ e # None /\ value(r) = value(p)
  BY <1>1, <1>3, <1>7, <1>8, NoneIsNothing DEF value
<1>10. SameEditor(p, r)
  BY <1>3, <1>9 DEF SameEditor
<1>11. Alike(p, r) /\ SameSearch(p, r) /\ SamePanels(p, r) /\ SameMenu(p, r)
  BY <1>5, <1>7, <1>8 DEF Alike, SameSearch, SamePanels, SameMenu
<1>12. r.menu.count = None \/ r.menu.count = value(r)
  BY <1>5, <1>8, <1>9
<1> QED BY <1>7, <1>8, <1>10, <1>11, <1>12 DEF r

Searching(p) == p.menu.count # None => p.searchOpen /\ p.searchSpec # None

LEMMA Recount ==
    ASSUME NEW p \in Page, p.editor # None, Searching(p)
    PROVE  LET r == recountSearch(p)
           IN  /\ r \in Page /\ Alike(p, r) /\ SameSearch(p, r) /\ SamePanels(p, r)
               /\ SameMenu(p, r) /\ SameEditor(p, r) /\ r.draft = p.draft
               /\ r.menu.count = None \/ r.menu.count = value(r)
               /\ Searching(r)
<1>1. CASE p.searchOpen /\ p.searchSpec # None
  <2>1. p.searchSpec \in Query /\ recountSearch(p) = counted(p, p.searchSpec)
    BY <1>1 DEF recountSearch, Page
  <2> QED BY <1>1, <2>1, Counted DEF Searching, SameSearch
<1>2. CASE ~(p.searchOpen /\ p.searchSpec # None)
  BY <1>2 DEF recountSearch, Searching, Alike, SameSearch, SamePanels, SameMenu, SameEditor
<1> QED BY <1>1, <1>2

\* A change of the mounted editor: the panels, the counter and, but for the
\* guide, the draft follow it.
Changed(p, r, ds) ==
    /\ r \in Page /\ Alike(p, r) /\ SameSearch(p, r) /\ PanelsTold(p, r, ds) /\ SameMenu(p, r)
    /\ r.draft = IF p.builtIn THEN p.draft ELSE value(r)
    /\ p.builtIn => r.menu = p.menu
    /\ ~p.builtIn => r.menu.count = None \/ r.menu.count = value(r)
    /\ Searching(r)

LEMMA OnChange ==
    ASSUME NEW p \in Page, p.editor # None, Searching(p), NEW ds
    PROVE  LET r == onChange(p, ds) IN Changed(p, r, ds) /\ SameEditor(p, r)
<1> DEFINE r == onChange(p, ds)
<1>1. CASE p.builtIn
  <2>1. r = pushLiveUpdates(p, ds)
    BY <1>1 DEF onChange
  <2> HIDE DEF r
  <2>2. /\ r \in Page /\ Alike(p, r) /\ SameSearch(p, r) /\ PanelsTold(p, r, ds)
        /\ r.editor = p.editor /\ r.draft = p.draft /\ r.menu = p.menu
    BY <2>1, Push
  <2> QED BY <1>1, <2>2 DEF r, Changed, SameMenu, SameEditor, Searching, SameSearch
<1>2. CASE ~p.builtIn
  <2> DEFINE q == [p EXCEPT !.draft = p.editor.text]
             s == pushLiveUpdates(q, ds)
  <2>1. p.editor.text \in Text
    BY DEF Page, Editor
  <2>2. /\ q \in Page /\ Alike(p, q) /\ SameSearch(p, q) /\ SamePanels(p, q)
        /\ q.editor = p.editor /\ q.draft = p.editor.text /\ q.menu = p.menu
    BY <2>1 DEF Page, Alike, SameSearch, SamePanels
  <2>3. r = recountSearch(s)
    BY <1>2 DEF onChange
  <2> HIDE DEF q, r
  <2>4. /\ s \in Page /\ Alike(q, s) /\ SameSearch(q, s) /\ PanelsTold(q, s, ds)
        /\ s.editor = q.editor /\ s.draft = q.draft /\ s.menu = q.menu
    BY <2>2, Push
  <2> HIDE DEF s
  <2>5. s.editor # None /\ Searching(s)
    BY <2>2, <2>4 DEF Searching, SameSearch
  <2>6. /\ r \in Page /\ Alike(s, r) /\ SameSearch(s, r) /\ SamePanels(s, r)
        /\ SameMenu(s, r) /\ SameEditor(s, r) /\ r.draft = s.draft
        /\ r.menu.count = None \/ r.menu.count = value(r)
        /\ Searching(r)
    BY <2>3, <2>4, <2>5, Recount
  <2>7. value(r) = value(s) /\ value(r) = p.editor.text
    BY <2>2, <2>4, <2>6 DEF value, SameEditor
  <2>8. Alike(p, r) /\ SameSearch(p, r) /\ SameMenu(p, r) /\ SameEditor(p, r)
    BY <2>2, <2>4, <2>6 DEF Alike, SameSearch, SameMenu, SameEditor
  <2>9. PanelsTold(p, r, ds)
    BY <2>2, <2>4, <2>6, <2>7, PanelsOfAlike DEF PanelsTold, SamePanels
  <2> QED BY <1>2, <2>2, <2>4, <2>6, <2>7, <2>8, <2>9 DEF Changed, r
<1> QED BY <1>1, <1>2

\* Another text, and another history, come into the mounted editor.
LEMMA EditorReplaced ==
    ASSUME NEW p \in Page, p.editor # None, Searching(p), NEW ds, NEW e \in Editor
    PROVE  LET r == onChange([p EXCEPT !.editor = e], ds)
           IN  /\ Changed(p, r, ds) /\ r.editor # None /\ r.editor.text = e.text
               /\ r.editor.readOnly = e.readOnly /\ r.editor.look = e.look
<1> DEFINE q == [p EXCEPT !.editor = e]
           r == onChange(q, ds)
<1>1. /\ q \in Page /\ Alike(p, q) /\ SameSearch(p, q)
      /\ q.editor = e /\ q.draft = p.draft /\ q.menu = p.menu /\ e # None
      /\ q.side = p.side /\ q.status = p.status
  BY EditorSet, NoneIsNothing DEF SamePanels
<1> HIDE DEF q
<1>2. Searching(q)
  BY <1>1 DEF Searching, SameSearch
<1>3. Changed(q, r, ds) /\ SameEditor(q, r)
  BY <1>1, <1>2, OnChange
<1> HIDE DEF r
<1>4. Changed(p, r, ds)
  BY <1>1, <1>3 DEF Changed, Alike, SameSearch, SameMenu, PanelsTold
<1> QED BY <1>1, <1>3, <1>4 DEF SameEditor, r, q

LEMMA SetDocument ==
    ASSUME NEW p \in Page, p.editor # None, Searching(p), NEW ds, NEW text \in Text
    PROVE  LET r == setDocument(p, ds, text)
           IN  /\ Changed(p, r, ds) /\ r.editor # None /\ r.editor.text = text
               /\ r.editor.readOnly = p.editor.readOnly /\ r.editor.look = p.editor.look
<1> DEFINE e == [p.editor EXCEPT !.text = text, !.past = Append(p.editor.past, p.editor.text)]
           r == setDocument(p, ds, text)
<1>1. p.editor \in Editor /\ p.editor.past \in Seq(Text) /\ p.editor.text \in Text
  BY DEF Page, Editor
<1>2. Append(p.editor.past, p.editor.text) \in Seq(Text)
  BY <1>1
<1>3. /\ e \in Editor /\ e.text = text
      /\ e.readOnly = p.editor.readOnly /\ e.look = p.editor.look
  BY <1>1, <1>2 DEF Editor
<1>4. r = onChange([p EXCEPT !.editor = e], ds)
  BY DEF setDocument
<1> HIDE DEF e, r
<1> QED BY <1>3, <1>4, EditorReplaced DEF r

LEMMA RefreshChrome ==
    ASSUME NEW p \in Page, NEW ds
    PROVE  LET r == refreshChrome(p, ds)
           IN  /\ r \in Page /\ Alike(p, r) /\ SameSearch(p, r) /\ PanelsTold(p, r, ds)
               /\ r.editor = p.editor /\ r.draft = p.draft /\ r.menu.count = p.menu.count
               /\ r.menu.readOnly = locked(r, ds) /\ r.menu.builtIn = r.builtIn
               /\ r.menu.fullscreen = r.fullscreen
<1> DEFINE m == [p.menu EXCEPT !.readOnly = locked(p, ds), !.builtIn = p.builtIn,
                               !.fullscreen = p.fullscreen]
           q == tellMenu(p, m)
           r == refreshChrome(p, ds)
<1>1. p.menu \in Menu /\ p.builtIn \in BOOLEAN /\ p.fullscreen \in BOOLEAN
  BY DEF Page
<1>2. locked(p, ds) \in BOOLEAN
  BY LockIsBoolean
<1>3. ASSUME NEW l \in BOOLEAN
      PROVE  LET n == [p.menu EXCEPT !.readOnly = l, !.builtIn = p.builtIn,
                                     !.fullscreen = p.fullscreen]
             IN  /\ n \in Menu /\ n.readOnly = l /\ n.builtIn = p.builtIn
                 /\ n.fullscreen = p.fullscreen /\ n.count = p.menu.count
  BY <1>1 DEF Menu
<1>4. /\ m \in Menu /\ m.readOnly = locked(p, ds) /\ m.builtIn = p.builtIn
      /\ m.fullscreen = p.fullscreen /\ m.count = p.menu.count
  BY <1>2, <1>3
<1>5. r = pushLiveUpdates(q, ds)
  BY DEF refreshChrome
<1> HIDE DEF m, r
<1>6. /\ q \in Page /\ Alike(p, q) /\ SameSearch(p, q) /\ SamePanels(p, q)
      /\ q.editor = p.editor /\ q.draft = p.draft
      /\ q.menu.readOnly = m.readOnly /\ q.menu.builtIn = m.builtIn
      /\ q.menu.fullscreen = m.fullscreen /\ q.menu.count = m.count
  BY <1>4, TellMenu
<1> HIDE DEF q
<1>7. /\ r \in Page /\ Alike(q, r) /\ SameSearch(q, r) /\ PanelsTold(q, r, ds)
      /\ r.editor = q.editor /\ r.draft = q.draft /\ r.menu = q.menu
  BY <1>5, <1>6, Push
<1>8. locked(r, ds) = locked(p, ds) /\ r.builtIn = p.builtIn /\ r.fullscreen = p.fullscreen
  BY <1>6, <1>7 DEF Alike, locked, currentLocked
<1>9. Alike(p, r) /\ SameSearch(p, r) /\ PanelsTold(p, r, ds)
  BY <1>6, <1>7 DEF Alike, SameSearch, SamePanels, PanelsTold
<1> QED BY <1>4, <1>6, <1>7, <1>8, <1>9 DEF r

\* The search is over, and nothing is counted.
LEMMA FormReset ==
    ASSUME NEW p \in Page
    PROVE  LET r == formReset(p)
           IN  /\ r \in Page /\ Alike(p, r) /\ SamePanels(p, r) /\ SameMenu(p, r)
               /\ r.editor = p.editor /\ r.draft = p.draft
               /\ ~r.searchOpen /\ r.menu.count = None
<1> DEFINE m == [p.menu EXCEPT !.open = FALSE, !.query = "blank", !.count = None]
           q == [p EXCEPT !.searchOpen = FALSE, !.searchSpec = None]
           r == formReset(p)
<1>1. p.menu \in Menu
  BY DEF Page
<1>2. /\ m \in Menu /\ m.readOnly = p.menu.readOnly /\ m.builtIn = p.menu.builtIn
      /\ m.fullscreen = p.menu.fullscreen /\ m.count = None
  BY <1>1 DEF Menu, Query
<1>3. /\ q \in Page /\ Alike(p, q) /\ SamePanels(p, q) /\ q.editor = p.editor
      /\ q.draft = p.draft /\ ~q.searchOpen
  BY DEF Page, Alike, SamePanels
<1>4. r = tellMenu(q, m)
  BY DEF formReset
<1> HIDE DEF m, q, r
<1>5. /\ r \in Page /\ Alike(q, r) /\ SameSearch(q, r) /\ SamePanels(q, r)
      /\ r.editor = q.editor /\ r.draft = q.draft
      /\ r.menu.readOnly = m.readOnly /\ r.menu.builtIn = m.builtIn
      /\ r.menu.fullscreen = m.fullscreen /\ r.menu.count = m.count
  BY <1>2, <1>3, <1>4, TellMenu
<1> QED BY <1>2, <1>3, <1>5 DEF Alike, SamePanels, SameMenu, SameSearch, r

LEMMA ClearSearch ==
    ASSUME NEW p \in Page
    PROVE  LET r == clearSearch(p)
           IN  /\ r \in Page /\ Alike(p, r) /\ SamePanels(p, r) /\ SameMenu(p, r)
               /\ SameEditor(p, r) /\ r.draft = p.draft
               /\ ~r.searchOpen /\ r.menu.count = None
<1> DEFINE q == formReset(p)
           r == clearSearch(p)
<1>1. /\ q \in Page /\ Alike(p, q) /\ SamePanels(p, q) /\ SameMenu(p, q)
      /\ q.editor = p.editor /\ q.draft = p.draft
      /\ ~q.searchOpen /\ q.menu.count = None
  BY FormReset
<1>2. CASE p.editor = None
  <2>1. r = q
    BY <1>2 DEF clearSearch
  <2> QED BY <1>1, <2>1 DEF SameEditor
<1>3. CASE p.editor # None
  <2> DEFINE e == [q.editor EXCEPT !.query = None]
  <2>1. r = [q EXCEPT !.editor = e]
    BY <1>3 DEF clearSearch
  <2> HIDE DEF q, r
  <2>2. q.editor \in Editor
    BY <1>1, <1>3 DEF Page
  <2>3. /\ e \in Editor /\ e.text = q.editor.text /\ e.readOnly = q.editor.readOnly
        /\ e.look = q.editor.look
    BY <2>2 DEF Editor
  <2> HIDE DEF e
  <2>4. /\ r \in Page /\ Alike(q, r) /\ SameSearch(q, r) /\ SamePanels(q, r)
        /\ r.editor = e /\ r.draft = q.draft /\ r.menu = q.menu
    BY <1>1, <2>1, <2>3, EditorSet
  <2> QED BY <1>1, <1>3, <2>3, <2>4, NoneIsNothing
          DEF Alike, SamePanels, SameMenu, SameSearch, SameEditor, r
<1> QED BY <1>2, <1>3
-----------------------------------------------------------------------------
(* The user *)

Looking == lookOf(settings, fontSize) \in Look
\* What every handler does: from a sound page p it makes a sound page r of the
\* document d, forgets nobody who has strayed, and leaves the look of the editor
\* or gives it the one of the settings.
KeptAt(p, r, ds, d) ==
    /\ Sound(r, ds) /\ p.strayed \subseteq r.strayed /\ r.currentId = d
    /\ r.editor # None => \/ r.editor.look = lookOf(settings, fontSize)
                          \/ p.editor # None /\ r.editor.look = p.editor.look
KeptBy(p, r, ds) == KeptAt(p, r, ds, p.currentId)

\* q is laid out in another way than p.
LaidOut(p, q) ==
    /\ q \in Page
    /\ q.activeView = MINDMAP_VIEW => q.centerMode = "mindmap"
    /\ q.draft = p.draft /\ q.editor = p.editor /\ q.currentId = p.currentId
    /\ q.builtIn = p.builtIn /\ q.menu = p.menu /\ q.fullscreen = p.fullscreen
    /\ q.searchOpen = p.searchOpen /\ q.searchSpec = p.searchSpec /\ q.strayed = p.strayed

LEMMA Rerendered ==
    ASSUME Looking, NEW p, NEW q, Ready(p), LaidOut(p, q)
    PROVE  KeptBy(p, requestEditor(q), docs)
<1>1. Ready(q) /\ q.strayed = p.strayed /\ q.currentId = p.currentId
  BY DEF Ready, LaidOut, value
<1> DEFINE look == lookOf(settings, fontSize)
<1>2. requestEditor(q) = remounted(q, docs, look) /\ look \in Look
  BY DEF requestEditor, Looking
<1> HIDE DEF look
<1>3. LET r == remounted(q, docs, look)
      IN  /\ Sound(r, docs) /\ q.strayed \subseteq r.strayed /\ r.currentId = q.currentId
          /\ r.editor # None => r.editor.look = look
  BY <1>1, <1>2, RemountSound
<1> QED BY <1>1, <1>2, <1>3 DEF KeptBy, KeptAt, look

LEMMA LaidOutAnew ==
    ASSUME NEW p, Ready(p)
    PROVE  /\ \A open \in BOOLEAN : /\ LaidOut(p, [p EXCEPT !.sideOpen = open])
                                   /\ LaidOut(p, [p EXCEPT !.bottomOpen = open])
           /\ \A sort \in FilesSort : LaidOut(p, [p EXCEPT !.filesSort = sort])
           /\ LaidOut(p, p)
           /\ LaidOut(p, exitMindmap(p))
           /\ LaidOut(p, [exitMindmap(p) EXCEPT !.sideOpen = TRUE])
           /\ LaidOut(p, [exitMindmap(p) EXCEPT !.pendingBuiltin = TRUE])
<1>1. p \in Page /\ (p.activeView = MINDMAP_VIEW => p.centerMode = "mindmap")
  BY DEF Ready
<1>2. \A open \in BOOLEAN : LaidOut(p, [p EXCEPT !.sideOpen = open])
  BY <1>1 DEF LaidOut, Page
<1>3. \A open \in BOOLEAN : LaidOut(p, [p EXCEPT !.bottomOpen = open])
  BY <1>1 DEF LaidOut, Page
<1>4. \A sort \in FilesSort : LaidOut(p, [p EXCEPT !.filesSort = sort])
  BY <1>1 DEF LaidOut, Page
<1>5. LaidOut(p, p)
  BY <1>1 DEF LaidOut
<1> DEFINE q == exitMindmap(p)
<1>6. FILES_VIEW \in View \cup {MINDMAP_VIEW} /\ FILES_VIEW # MINDMAP_VIEW
  BY ViewsKnown
<1>7. LaidOut(p, q)
  BY <1>1, <1>6 DEF LaidOut, Page, exitMindmap
<1>8. q.activeView # MINDMAP_VIEW
  BY <1>1, <1>6 DEF Page, exitMindmap
<1> HIDE DEF q
<1>9. LaidOut(p, [q EXCEPT !.sideOpen = TRUE])
  BY <1>7, <1>8 DEF LaidOut, Page
<1>10. LaidOut(p, [q EXCEPT !.pendingBuiltin = TRUE])
  BY <1>7, <1>8 DEF LaidOut, Page
<1> QED BY <1>2, <1>3, <1>4, <1>5, <1>7, <1>9, <1>10 DEF q

LEMMA ViewSwitched ==
    ASSUME Looking, NEW p, Sound(p, docs), NEW id \in View \cup {MINDMAP_VIEW}
    PROVE  KeptBy(p, switchView(p, id), docs)
<1>1. Ready(p) /\ p \in Page
  BY DEF Sound, Ready
<1>2. CASE id = MINDMAP_VIEW /\ p.activeView # MINDMAP_VIEW
  <2>1. CASE p.centerMode = "mindmap"
    BY <1>2, <2>1 DEF switchView, enterMindmap, KeptBy, KeptAt
  <2>2. CASE p.centerMode # "mindmap"
    <3> DEFINE q == [p EXCEPT !.centerMode = "mindmap", !.activeView = MINDMAP_VIEW, !.sideOpen = TRUE]
    <3>1. LaidOut(p, q)
      BY <1>1 DEF LaidOut, Page
    <3>2. switchView(p, id) = requestEditor(q)
      BY <1>2, <2>2 DEF switchView, enterMindmap
    <3> QED BY <1>1, <3>1, <3>2, Rerendered
  <2> QED BY <2>1, <2>2
<1>3. CASE ~(id = MINDMAP_VIEW /\ p.activeView # MINDMAP_VIEW)
  <2> DEFINE back == id = FILES_VIEW /\ p.centerMode = "mindmap"
  <2>1. CASE back
    <3> DEFINE q == [exitMindmap(p) EXCEPT !.sideOpen = TRUE]
    <3>1. LaidOut(p, q)
      BY <1>1, LaidOutAnew
    <3>2. switchView(p, id) = requestEditor(q)
      BY <1>3, <2>1 DEF switchView
    <3> QED BY <1>1, <3>1, <3>2, Rerendered
  <2>2. CASE ~back /\ id = p.activeView
    <3> DEFINE q == [p EXCEPT !.sideOpen = ~p.sideOpen]
    <3>1. LaidOut(p, q)
      BY <1>1, LaidOutAnew
    <3>2. switchView(p, id) = requestEditor(q)
      BY <1>1, <1>3, <2>2 DEF switchView, Page
    <3> QED BY <1>1, <3>1, <3>2, Rerendered
  <2>3. CASE ~back /\ id # p.activeView
    <3> DEFINE q == [p EXCEPT !.activeView = id, !.sideOpen = TRUE]
    <3>1. LaidOut(p, q)
      BY <1>1, <1>3, <2>3 DEF LaidOut, Page
    <3>2. switchView(p, id) = requestEditor(q)
      BY <1>3, <2>3 DEF switchView
    <3> QED BY <1>1, <3>1, <3>2, Rerendered
  <2> QED BY <2>1, <2>2, <2>3
<1> QED BY <1>2, <1>3

LEMMA Toggled ==
    ASSUME Looking, NEW p, Sound(p, docs)
    PROVE  /\ KeptBy(p, requestEditor([p EXCEPT !.sideOpen = ~@]), docs)
           /\ KeptBy(p, requestEditor([p EXCEPT !.bottomOpen = ~@]), docs)
           /\ KeptBy(p, requestEditor(exitMindmap(p)), docs)
           /\ KeptBy(p, requestEditor([exitMindmap(p) EXCEPT !.pendingBuiltin = TRUE]), docs)
           /\ KeptBy(p, requestEditor(p), docs)
           /\ \A sort \in FilesSort :
                 KeptBy(p, requestEditor([p EXCEPT !.filesSort = sort]), docs)
<1>1. Ready(p) /\ p \in Page
  BY DEF Sound, Ready
<1>2. /\ LaidOut(p, [p EXCEPT !.sideOpen = ~@]) /\ LaidOut(p, [p EXCEPT !.bottomOpen = ~@])
  BY <1>1, LaidOutAnew
<1> QED BY <1>1, <1>2, LaidOutAnew, Rerendered

\* A handler of the search: the texts, the panels and the lock stay.
LEMMA StillSound ==
    ASSUME NEW p, NEW ds, Sound(p, ds), NEW r \in Page, Alike(p, r), SameMenu(p, r),
           SamePanels(p, r), SameEditor(p, r), r.draft = p.draft,
           Searching(r), r.fullscreen => ~r.searchOpen,
           \/ r.menu.count \in {None, p.menu.count}
           \/ p.editor # None /\ r.menu.count = value(r)
    PROVE  KeptBy(p, r, ds)
<1>1. value(r) = value(p)
  BY DEF SameEditor, value
<1>2. /\ SideOf(r) = SideOf(p) /\ StatusOf(r, ds) = StatusOf(p, ds)
      /\ locked(r, ds) = locked(p, ds)
  BY <1>1, PanelsOfAlike
<1>3. Ready(r)
  BY <1>1 DEF Sound, Ready, Alike, Searching
<1>4. Centred(r) /\ EditorTold(r, ds)
  BY <1>2 DEF Sound, Centred, EditorTold, Alike, SameEditor
<1>5. ChildrenTold(r, ds)
  BY <1>2 DEF Sound, ChildrenTold, Alike, SameMenu, SamePanels
<1>6. CounterTold(r)
  BY <1>1 DEF Sound, CounterTold, Centred, Alike
<1> QED BY <1>3, <1>4, <1>5, <1>6 DEF Sound, KeptBy, KeptAt, Alike, SameEditor

\* The menu bar is told something of the form.
LEMMA FormTold ==
    ASSUME NEW p, NEW ds, Sound(p, ds), NEW m \in Menu,
           m.readOnly = p.menu.readOnly, m.builtIn = p.menu.builtIn,
           m.fullscreen = p.menu.fullscreen, m.count = p.menu.count
    PROVE  KeptBy(p, tellMenu(p, m), ds)
<1> DEFINE r == tellMenu(p, m)
<1>1. p \in Page /\ Searching(p) /\ (p.fullscreen => ~p.searchOpen)
  BY DEF Sound, Ready, Searching
<1>2. /\ r \in Page /\ Alike(p, r) /\ SameSearch(p, r) /\ SamePanels(p, r)
      /\ r.editor = p.editor /\ r.draft = p.draft
      /\ r.menu.readOnly = m.readOnly /\ r.menu.builtIn = m.builtIn
      /\ r.menu.fullscreen = m.fullscreen /\ r.menu.count = m.count
  BY <1>1, TellMenu
<1> HIDE DEF r
<1>3. SameMenu(p, r) /\ SameEditor(p, r) /\ Searching(r) /\ (r.fullscreen => ~r.searchOpen)
  BY <1>1, <1>2 DEF SameMenu, SameEditor, Searching, SameSearch, Alike
<1> QED BY <1>2, <1>3, StillSound DEF r

LEMMA FormsTyped ==
    ASSUME NEW menu \in Menu
    PROVE  /\ \A open \in BOOLEAN : LET m == [menu EXCEPT !.open = open]
              IN  /\ m \in Menu /\ m.readOnly = menu.readOnly /\ m.builtIn = menu.builtIn
                  /\ m.fullscreen = menu.fullscreen /\ m.count = menu.count
           /\ \A spec \in Query : LET m == [menu EXCEPT !.query = spec]
              IN  /\ m \in Menu /\ m.readOnly = menu.readOnly /\ m.builtIn = menu.builtIn
                  /\ m.fullscreen = menu.fullscreen /\ m.count = menu.count
           /\ \A on \in BOOLEAN : LET m == [menu EXCEPT !.fullscreen = on]
              IN  /\ m \in Menu /\ m.readOnly = menu.readOnly /\ m.builtIn = menu.builtIn
                  /\ m.fullscreen = on /\ m.count = menu.count
BY DEF Menu

LEMMA FormToggled ==
    ASSUME NEW p, NEW ds, Sound(p, ds)
    PROVE  /\ KeptBy(p, [p EXCEPT !.menu.open = FALSE], ds)
           /\ \A open \in BOOLEAN : KeptBy(p, tellMenu(p, [p.menu EXCEPT !.open = open]), ds)
<1>1. p \in Page /\ p.menu \in Menu /\ Searching(p) /\ (p.fullscreen => ~p.searchOpen)
  BY DEF Sound, Ready, Searching, Page
<1>2. ASSUME NEW open \in BOOLEAN
      PROVE  KeptBy(p, tellMenu(p, [p.menu EXCEPT !.open = open]), ds)
  <2> DEFINE m == [p.menu EXCEPT !.open = open]
  <2>1. /\ m \in Menu /\ m.readOnly = p.menu.readOnly /\ m.builtIn = p.menu.builtIn
        /\ m.fullscreen = p.menu.fullscreen /\ m.count = p.menu.count
    BY <1>1, FormsTyped
  <2> HIDE DEF m
  <2>2. KeptBy(p, tellMenu(p, m), ds)
    BY <2>1, FormTold
  <2> QED BY <2>2 DEF m
<1> DEFINE r == [p EXCEPT !.menu.open = FALSE]
<1>3. PICK m \in Menu : /\ m = [p.menu EXCEPT !.open = FALSE]
                        /\ m.readOnly = p.menu.readOnly /\ m.builtIn = p.menu.builtIn
                        /\ m.fullscreen = p.menu.fullscreen /\ m.count = p.menu.count
  BY <1>1, FormsTyped
<1>4. r = [p EXCEPT !.menu = m]
  BY <1>3
<1> HIDE DEF r
<1>5. /\ r \in Page /\ Alike(p, r) /\ SameSearch(p, r) /\ SamePanels(p, r)
      /\ r.editor = p.editor /\ r.draft = p.draft /\ r.menu = m
  BY <1>1, <1>4 DEF Page, Alike, SameSearch, SamePanels
<1>6. SameMenu(p, r) /\ SameEditor(p, r) /\ Searching(r) /\ (r.fullscreen => ~r.searchOpen)
  BY <1>1, <1>3, <1>5 DEF SameMenu, SameEditor, Searching, SameSearch, Alike
<1>7. KeptBy(p, r, ds)
  BY <1>3, <1>5, <1>6, StillSound
<1> QED BY <1>2, <1>7 DEF r

\* The search is opened, or opened with a query; a page in full screen has none.
LEMMA SearchSet ==
    ASSUME NEW p, NEW ds, Sound(p, ds), ~p.fullscreen
    PROVE  /\ LET q == [p EXCEPT !.searchOpen = TRUE]
              IN  q \in Page /\ Sound(q, ds) /\ KeptBy(p, q, ds) /\ q.menu = p.menu /\ q.editor = p.editor
           /\ \A spec \in Query :
                LET q == [p EXCEPT !.searchOpen = TRUE, !.searchSpec = spec]
                IN  q \in Page /\ Sound(q, ds) /\ KeptBy(p, q, ds) /\ q.menu = p.menu /\ q.editor = p.editor
<1>1. p \in Page /\ Searching(p)
  BY DEF Sound, Ready, Searching
<1>2. ASSUME NEW spec \in Query \cup {None}, NEW q,
             q = [p EXCEPT !.searchOpen = TRUE, !.searchSpec = spec],
             spec # None \/ spec = p.searchSpec
      PROVE  q \in Page /\ Sound(q, ds) /\ KeptBy(p, q, ds) /\ q.menu = p.menu /\ q.editor = p.editor
  <2>1. /\ q \in Page /\ Alike(p, q) /\ SamePanels(p, q) /\ q.editor = p.editor
        /\ q.draft = p.draft /\ q.menu = p.menu /\ q.searchOpen /\ q.searchSpec = spec
    BY <1>1, <1>2 DEF Page, Alike, SamePanels
  <2>2. SameMenu(p, q) /\ SameEditor(p, q) /\ Searching(q) /\ ~q.fullscreen
    BY <1>1, <1>2, <2>1 DEF SameMenu, SameEditor, Searching, Alike
  <2>3. KeptBy(p, q, ds)
    BY <2>1, <2>2, StillSound
  <2> QED BY <2>1, <2>3 DEF KeptBy, KeptAt
<1>3. p.searchSpec \in Query \cup {None} /\
      [p EXCEPT !.searchOpen = TRUE] = [p EXCEPT !.searchOpen = TRUE, !.searchSpec = p.searchSpec]
  BY <1>1 DEF Page
<1>4. \A spec \in Query : spec # None
  BY NoneIsNothing
<1> QED BY <1>2, <1>3, <1>4

\* What a handler does to what a handler did.
LEMMA KeptChain ==
    ASSUME NEW p, NEW q, NEW r, NEW ds, KeptBy(p, q, ds), KeptBy(q, r, ds)
    PROVE  KeptBy(p, r, ds)
BY DEF KeptBy, KeptAt

LEMMA SearchOpens ==
    ASSUME NEW p, NEW ds, Sound(p, ds), ~p.fullscreen
    PROVE  KeptBy(p, tellMenu([p EXCEPT !.searchOpen = TRUE], [p.menu EXCEPT !.open = TRUE]), ds)
<1> DEFINE q == [p EXCEPT !.searchOpen = TRUE]
<1>1. q \in Page /\ Sound(q, ds) /\ KeptBy(p, q, ds) /\ q.menu = p.menu
  BY SearchSet
<1> HIDE DEF q
<1>2. KeptBy(q, tellMenu(q, [q.menu EXCEPT !.open = TRUE]), ds)
  BY <1>1, FormToggled
<1> QED BY <1>1, <1>2, KeptChain DEF q

LEMMA CountedSound ==
    ASSUME NEW p, NEW ds, Sound(p, ds), p.editor # None, p.searchOpen, p.searchSpec # None,
           NEW spec \in Query
    PROVE  KeptBy(p, counted(p, spec), ds)
<1> DEFINE r == counted(p, spec)
<1>1. p \in Page /\ (p.fullscreen => ~p.searchOpen)
  BY DEF Sound, Ready
<1>2. /\ r \in Page /\ Alike(p, r) /\ SameSearch(p, r) /\ SamePanels(p, r)
      /\ SameMenu(p, r) /\ SameEditor(p, r) /\ r.draft = p.draft
      /\ r.menu.count = None \/ r.menu.count = value(r)
  BY <1>1, Counted
<1> HIDE DEF r
<1>3. Searching(r) /\ (r.fullscreen => ~r.searchOpen)
  BY <1>1, <1>2 DEF Searching, SameSearch, Alike
<1> QED BY <1>2, <1>3, StillSound DEF r

LEMMA SearchedSound ==
    ASSUME NEW p, NEW ds, Sound(p, ds), ~p.fullscreen, NEW spec \in Query
    PROVE  KeptBy(p, Searched(p, spec), ds)
<1>1. p \in Page /\ p.menu \in Menu
  BY DEF Sound, Ready, Page
<1>2. CASE p.editor = None
  <2> DEFINE m == [p.menu EXCEPT !.query = spec]
  <2>1. /\ m \in Menu /\ m.readOnly = p.menu.readOnly /\ m.builtIn = p.menu.builtIn
        /\ m.fullscreen = p.menu.fullscreen /\ m.count = p.menu.count
    BY <1>1, FormsTyped
  <2>2. Searched(p, spec) = tellMenu(p, m)
    BY <1>2 DEF Searched
  <2> HIDE DEF m
  <2> QED BY <2>1, <2>2, FormTold
<1>3. CASE p.editor # None
  <2> DEFINE q == [p EXCEPT !.searchOpen = TRUE, !.searchSpec = spec]
  <2>1. q \in Page /\ Sound(q, ds) /\ KeptBy(p, q, ds) /\ q.editor = p.editor
    BY SearchSet
  <2>2. q.searchOpen /\ q.searchSpec = spec /\ spec # None
    BY <1>1, NoneIsNothing DEF Page
  <2>3. Searched(p, spec) = counted(q, spec)
    BY <1>3 DEF Searched
  <2> HIDE DEF q
  <2> QED BY <1>3, <2>1, <2>2, <2>3, CountedSound, KeptChain
<1> QED BY <1>2, <1>3

LEMMA SearchCleared ==
    ASSUME NEW p, NEW ds, Sound(p, ds)
    PROVE  KeptBy(p, clearSearch(p), ds) /\ ~clearSearch(p).searchOpen
<1> DEFINE r == clearSearch(p)
<1>1. p \in Page
  BY DEF Sound, Ready
<1>2. /\ r \in Page /\ Alike(p, r) /\ SamePanels(p, r) /\ SameMenu(p, r)
      /\ SameEditor(p, r) /\ r.draft = p.draft
      /\ ~r.searchOpen /\ r.menu.count = None
  BY <1>1, ClearSearch
<1> HIDE DEF r
<1> QED BY <1>2, StillSound DEF Searching, r
-----------------------------------------------------------------------------
(* The texts *)

LEMMA FullscreenSet ==
    ASSUME NEW p, NEW ds, Sound(p, ds), NEW on \in BOOLEAN
    PROVE  KeptBy(p, setFullscreen(p, on), ds)
<1> DEFINE c == IF on /\ p.searchOpen THEN clearSearch(p) ELSE p
           m == [c.menu EXCEPT !.fullscreen = on]
           q == [c EXCEPT !.fullscreen = on]
           r == setFullscreen(p, on)
<1>1. KeptBy(p, c, ds) /\ (on => ~c.searchOpen)
  BY SearchCleared DEF KeptBy, KeptAt
<1>2. r = tellMenu(q, m)
  BY DEF setFullscreen
<1> HIDE DEF c, r
<1>3. Sound(c, ds) /\ c \in Page /\ c.menu \in Menu /\ Searching(c)
  BY <1>1 DEF KeptBy, KeptAt, Sound, Ready, Page, Searching
<1>4. /\ m \in Menu /\ m.readOnly = c.menu.readOnly /\ m.builtIn = c.menu.builtIn
      /\ m.fullscreen = on /\ m.count = c.menu.count
  BY <1>3, FormsTyped
<1>5. /\ q \in Page /\ q.fullscreen = on
      /\ q.centerMode = c.centerMode /\ q.activeView = c.activeView /\ q.rail = c.rail
      /\ q.sideOpen = c.sideOpen /\ q.bottomOpen = c.bottomOpen
      /\ q.currentId = c.currentId /\ q.builtIn = c.builtIn /\ q.mind = c.mind
      /\ q.attached = c.attached /\ q.strayed = c.strayed /\ q.misled = c.misled
      /\ SameSearch(c, q) /\ SamePanels(c, q) /\ q.editor = c.editor /\ q.draft = c.draft
  BY <1>3 DEF Page, Alike, SameSearch, SamePanels
<1> HIDE DEF m, q
<1>6. /\ r \in Page /\ Alike(q, r) /\ SameSearch(q, r) /\ SamePanels(q, r)
      /\ r.editor = q.editor /\ r.draft = q.draft
      /\ r.menu.readOnly = m.readOnly /\ r.menu.builtIn = m.builtIn
      /\ r.menu.fullscreen = m.fullscreen /\ r.menu.count = m.count
  BY <1>2, <1>4, <1>5, TellMenu
<1>7. /\ value(r) = value(c) /\ SideOf(r) = SideOf(c) /\ StatusOf(r, ds) = StatusOf(c, ds)
      /\ locked(r, ds) = locked(c, ds)
  BY <1>5, <1>6 DEF value, SideOf, StatusOf, locked, currentLocked, Alike
<1>8. Ready(r)
  BY <1>1, <1>3, <1>4, <1>5, <1>6, <1>7 DEF Sound, Ready, Alike, SameSearch
<1>9. Centred(r) /\ EditorTold(r, ds) /\ CounterTold(r)
  BY <1>3, <1>4, <1>5, <1>6, <1>7 DEF Sound, Centred, EditorTold, CounterTold, Alike
<1>10. ChildrenTold(r, ds)
  BY <1>3, <1>4, <1>5, <1>6, <1>7 DEF Sound, ChildrenTold, Alike, SamePanels
<1> QED BY <1>1, <1>5, <1>6, <1>8, <1>9, <1>10 DEF Sound, KeptBy, KeptAt, Alike, r

\* Another text has come into the editor, and all are told.
LEMMA ChangedSound ==
    ASSUME NEW p, NEW ds, Sound(p, ds), p.editor # None, NEW r, Changed(p, r, ds),
           r.editor # None, r.editor.readOnly = p.editor.readOnly, r.editor.look = p.editor.look,
           p.currentId \notin p.strayed => p.builtIn \/ r.editor.text.of = p.currentId
    PROVE  KeptBy(p, r, ds)
<1>1. /\ r \in Page /\ Alike(p, r) /\ value(r) = r.editor.text
  BY DEF Changed, value
<1>2. locked(r, ds) = locked(p, ds)
  BY <1>1 DEF Alike, locked, currentLocked
<1>3. Ready(r)
  BY <1>1 DEF Sound, Ready, Alike, Changed, SameSearch, Searching
<1>4. Centred(r) /\ EditorTold(r, ds)
  BY <1>1, <1>2 DEF Sound, Centred, EditorTold, Alike
<1>5. ChildrenTold(r, ds)
  BY <1>1, <1>2 DEF Sound, ChildrenTold, Alike, Changed, SameMenu, PanelsTold
<1>6. CounterTold(r)
  BY <1>1 DEF Sound, CounterTold, Centred, Alike, Changed
<1> QED BY <1>1, <1>3, <1>4, <1>5, <1>6 DEF Sound, KeptBy, KeptAt, Alike

LEMMA TextTyped ==
    ASSUME NEW text \in Text, text.n < MaxVersion
    PROVE  [text EXCEPT !.n = @ + 1] \in Text /\ [text EXCEPT !.n = @ + 1].of = text.of
BY WorkbenchBounds DEF Text

LEMMA EditedSound ==
    ASSUME NEW p, Sound(p, docs), p.editor # None, p.editor.text.n < MaxVersion
    PROVE  /\ KeptBy(p, Edited(p), docs) /\ Edited(p).editor # None
           /\ SameSearch(p, Edited(p))
<1> DEFINE text == [p.editor.text EXCEPT !.n = @ + 1]
           r == setDocument(p, docs, text)
<1>1. p \in Page /\ Searching(p) /\ p.editor.text \in Text /\ value(p) = p.editor.text
  BY DEF Sound, Ready, Searching, value, Page, Editor
<1>2. text \in Text /\ text.of = p.editor.text.of
  BY <1>1, TextTyped
<1>3. Edited(p) = r
  BY DEF Edited
<1> HIDE DEF text
<1>4. /\ Changed(p, r, docs) /\ r.editor # None /\ r.editor.text = text
      /\ r.editor.readOnly = p.editor.readOnly /\ r.editor.look = p.editor.look
  BY <1>1, <1>2, SetDocument
<1> HIDE DEF r
<1>5. p.currentId \notin p.strayed => p.builtIn \/ r.editor.text.of = p.currentId
  BY <1>1, <1>2, <1>4 DEF Sound, Ready
<1> QED BY <1>3, <1>4, <1>5, ChangedSound DEF Changed

\* The draft, of which the map is fed, changes.
LEMMA DraftEdited ==
    ASSUME NEW p, NEW ds, Sound(p, ds), p.mind, p.draft.n < MaxVersion
    PROVE  KeptBy(p, [p EXCEPT !.draft.n = @ + 1], ds)
<1> DEFINE text == [p.draft EXCEPT !.n = @ + 1]
           r == [p EXCEPT !.draft = text]
<1>1. p \in Page /\ p.draft \in Text /\ p.editor = None
  BY DEF Sound, Ready, Centred, Page
<1>2. text \in Text /\ text.of = p.draft.of
  BY <1>1, TextTyped
<1>3. [p EXCEPT !.draft.n = @ + 1] = r
  BY <1>1
<1> HIDE DEF text
<1>4. /\ r \in Page /\ Alike(p, r) /\ SameSearch(p, r) /\ SamePanels(p, r)
      /\ r.editor = p.editor /\ r.menu = p.menu /\ r.draft = text
  BY <1>1, <1>2 DEF Page, Alike, SameSearch, SamePanels
<1> HIDE DEF r
<1>5. locked(r, ds) = locked(p, ds)
  BY <1>4 DEF Alike, locked, currentLocked
<1>6. Ready(r)
  BY <1>1, <1>2, <1>4 DEF Sound, Ready, Alike, SameSearch, value
<1>7. Centred(r) /\ EditorTold(r, ds) /\ CounterTold(r)
  BY <1>1, <1>4, <1>5 DEF Sound, Centred, EditorTold, CounterTold, Alike
<1>8. ChildrenTold(r, ds)
  BY <1>1, <1>4, <1>5 DEF Sound, ChildrenTold, Alike, SamePanels
<1> QED BY <1>1, <1>3, <1>4, <1>6, <1>7, <1>8 DEF Sound, KeptBy, KeptAt, Alike

\* The history of the page is told that the open document has strayed, if it has.
LEMMA StrayedTold ==
    ASSUME NEW p, NEW ds, Sound(p, ds), NEW does \in BOOLEAN
    PROVE  LET q == [p EXCEPT !.strayed = Strays(p, does)]
           IN  /\ KeptBy(p, q, ds) /\ q \in Page /\ q.editor = p.editor /\ q.builtIn = p.builtIn
               /\ q.currentId = p.currentId /\ Searching(q)
               /\ does => q.currentId \in q.strayed
<1> DEFINE more == Strays(p, does)
           q == [p EXCEPT !.strayed = more]
<1>1. p \in Page /\ p.currentId \in Docs /\ p.strayed \in SUBSET Docs
  BY DEF Sound, Ready, Page
<1>2. more \in SUBSET Docs /\ p.strayed \subseteq more /\ (does => p.currentId \in more)
  BY <1>1 DEF Strays
<1> HIDE DEF more
<1>3. /\ q \in Page /\ SameSearch(p, q) /\ SamePanels(p, q) /\ q.strayed = more
      /\ q.editor = p.editor /\ q.menu = p.menu /\ q.draft = p.draft
      /\ q.centerMode = p.centerMode /\ q.activeView = p.activeView /\ q.rail = p.rail
      /\ q.sideOpen = p.sideOpen /\ q.bottomOpen = p.bottomOpen /\ q.fullscreen = p.fullscreen
      /\ q.currentId = p.currentId /\ q.builtIn = p.builtIn /\ q.mind = p.mind
      /\ q.attached = p.attached /\ q.misled = p.misled
  BY <1>1, <1>2 DEF Page, SameSearch, SamePanels
<1> HIDE DEF q
<1>4. /\ value(q) = value(p) /\ SideOf(q) = SideOf(p) /\ StatusOf(q, ds) = StatusOf(p, ds)
      /\ locked(q, ds) = locked(p, ds)
  BY <1>3 DEF value, SideOf, StatusOf, locked, currentLocked
<1>5. Ready(q) /\ Searching(q)
  BY <1>2, <1>3, <1>4 DEF Sound, Ready, SameSearch, Searching
<1>6. Centred(q) /\ EditorTold(q, ds) /\ CounterTold(q)
  BY <1>3, <1>4 DEF Sound, Centred, EditorTold, CounterTold
<1>7. ChildrenTold(q, ds)
  BY <1>3, <1>4 DEF Sound, ChildrenTold, SamePanels
<1>8. KeptBy(p, q, ds)
  BY <1>2, <1>3, <1>5, <1>6, <1>7 DEF Sound, KeptBy, KeptAt
<1> QED BY <1>2, <1>3, <1>5, <1>8 DEF q, more

\* What undo brings back is of the document, or the document has strayed.
LEMMA UndoneSound ==
    ASSUME NEW p, Sound(p, docs), p.editor # None, p.editor.past # <<>>
    PROVE  LET past == p.editor.past
               text == past[Len(past)]
           IN  KeptBy(p, onChange([p EXCEPT !.editor.text = text,
                                            !.editor.past = SubSeq(past, 1, Len(past) - 1),
                                            !.strayed = Strays(p, text.of # p.currentId)], docs), docs)
<1> DEFINE past == p.editor.past
           text == past[Len(past)]
           rest == SubSeq(past, 1, Len(past) - 1)
           does == text.of # p.currentId
           q == [p EXCEPT !.strayed = Strays(p, does)]
           e == [p.editor EXCEPT !.text = text, !.past = rest]
           r == onChange([q EXCEPT !.editor = e], docs)
<1>1. p.editor \in Editor /\ past \in Seq(Text) /\ past # <<>> /\ p \in Page
  BY DEF Sound, Ready, Page, Editor
<1> HIDE DEF past
<1>2. Len(past) \in Nat /\ Len(past) # 0
  BY <1>1
<1>3. text \in Text
  BY <1>1, <1>2, ElementOfSeq
<1>4. rest \in Seq(Text)
  <2>1. \A i \in 1 .. Len(past) - 1 : past[i] \in Text
    BY <1>1, <1>2, ElementOfSeq
  <2> QED BY <1>2, <2>1, SubSeqProperties
<1> HIDE DEF text, rest
<1>5. /\ e \in Editor /\ e.text = text /\ e.readOnly = p.editor.readOnly
      /\ e.look = p.editor.look
  BY <1>1, <1>3, <1>4 DEF Editor
<1> HIDE DEF e
<1>6. /\ KeptBy(p, q, docs) /\ q \in Page /\ q.editor = p.editor /\ q.builtIn = p.builtIn
      /\ q.currentId = p.currentId /\ Searching(q)
      /\ does => q.currentId \in q.strayed
  BY StrayedTold
<1> HIDE DEF q
<1>7. /\ Changed(q, r, docs) /\ r.editor # None /\ r.editor.text = e.text
      /\ r.editor.readOnly = e.readOnly /\ r.editor.look = e.look
  BY <1>5, <1>6, EditorReplaced
<1> HIDE DEF r
<1>8. Sound(q, docs)
  BY <1>6 DEF KeptBy, KeptAt
<1>9. KeptBy(q, r, docs)
  BY <1>5, <1>6, <1>7, <1>8, ChangedSound DEF does
<1>10. r = onChange([p EXCEPT !.editor.text = text, !.editor.past = rest,
                              !.strayed = Strays(p, does)], docs)
  <2>1. [q EXCEPT !.editor = e] = [p EXCEPT !.editor.text = text, !.editor.past = rest,
                                            !.strayed = Strays(p, does)]
    BY <1>1 DEF q, e, Page
  <2> QED BY <2>1 DEF r
<1> QED BY <1>6, <1>9, <1>10, KeptChain DEF past, text, rest

LEMMA OpeningSet ==
    ASSUME NEW p, NEW ds, Sound(p, ds), NEW to \in BOOLEAN
    PROVE  LET q == [p EXCEPT !.opening = to]
           IN  KeptBy(p, q, ds) /\ q.editor = p.editor
<1> DEFINE q == [p EXCEPT !.opening = to]
<1>1. p \in Page
  BY DEF Sound, Ready
<1>2. /\ q \in Page /\ Alike(p, q) /\ SameSearch(p, q) /\ SamePanels(p, q)
      /\ q.editor = p.editor /\ q.draft = p.draft /\ q.menu = p.menu
  BY <1>1 DEF Page, Alike, SameSearch, SamePanels
<1> HIDE DEF q
<1>3. /\ SameMenu(p, q) /\ SameEditor(p, q) /\ Searching(q)
      /\ (q.fullscreen => ~q.searchOpen)
  BY <1>2 DEF SameMenu, SameEditor, Searching, SameSearch, Alike, Sound, Ready
<1> QED BY <1>2, <1>3, StillSound DEF q

\* The children but for what refreshChrome tells.
FrameTold(p) ==
    p.attached /\ ~p.misled =>
        /\ p.rail = p.activeView
        /\ p.sideOpen <=> p.side # None
        /\ p.bottomOpen <=> p.status # None

LEMMA RefreshSound ==
    ASSUME NEW p, NEW ds, Ready(p), Centred(p), EditorTold(p, ds), FrameTold(p), CounterTold(p)
    PROVE  LET r == refreshChrome(p, ds)
           IN  /\ Sound(r, ds) /\ r.strayed = p.strayed /\ r.editor = p.editor
               /\ r.currentId = p.currentId
<1> DEFINE r == refreshChrome(p, ds)
<1>1. p \in Page
  BY DEF Ready
<1>2. /\ r \in Page /\ Alike(p, r) /\ SameSearch(p, r) /\ PanelsTold(p, r, ds)
      /\ r.editor = p.editor /\ r.draft = p.draft /\ r.menu.count = p.menu.count
      /\ r.menu.readOnly = locked(r, ds) /\ r.menu.builtIn = r.builtIn
      /\ r.menu.fullscreen = r.fullscreen
  BY <1>1, RefreshChrome
<1> HIDE DEF r
<1>3. value(r) = value(p) /\ locked(r, ds) = locked(p, ds)
  BY <1>2 DEF value, locked, currentLocked, Alike
<1>4. Ready(r)
  BY <1>2, <1>3 DEF Ready, Alike, SameSearch
<1>5. Centred(r) /\ EditorTold(r, ds) /\ CounterTold(r)
  BY <1>2, <1>3 DEF Centred, EditorTold, CounterTold, Alike
<1>6. ChildrenTold(r, ds)
  BY <1>2 DEF FrameTold, ChildrenTold, PanelsTold, Alike
<1> QED BY <1>2, <1>4, <1>5, <1>6 DEF Sound, Alike, r

\* The text and the lock come into the editor of a page whose guide was opened
\* or closed just now: q is that page, before.
LEMMA GuideTurned ==
    ASSUME NEW q \in Page, Searching(q), q.fullscreen => ~q.searchOpen,
           q.activeView = MINDMAP_VIEW => q.centerMode = "mindmap",
           Centred(q), FrameTold(q), q.editor # None,
           NEW text \in Text, NEW lock \in BOOLEAN, lock = locked(q, docs),
           q.currentId \notin q.strayed =>
              q.draft.of = q.currentId /\ (q.builtIn \/ text.of = q.currentId)
    PROVE  LET r == refreshChrome([setDocument(q, docs, text) EXCEPT !.editor.readOnly = lock], docs)
           IN  /\ Sound(r, docs) /\ r.strayed = q.strayed /\ r.currentId = q.currentId
               /\ r.editor # None /\ r.editor.look = q.editor.look
<1> DEFINE s == setDocument(q, docs, text)
           e == [s.editor EXCEPT !.readOnly = lock]
           t == [s EXCEPT !.editor = e]
           r == refreshChrome(t, docs)
<1>2. /\ Changed(q, s, docs) /\ s.editor # None /\ s.editor.text = text
      /\ s.editor.look = q.editor.look
  BY SetDocument
<1> HIDE DEF s
<1>3. s \in Page /\ s.editor \in Editor
  BY <1>2 DEF Changed, Page
<1>4. e \in Editor /\ e.text = text /\ e.readOnly = lock /\ e.look = q.editor.look /\ e # None
  <2>1. e \in Editor /\ e.text = text /\ e.readOnly = lock /\ e.look = q.editor.look
    BY <1>2, <1>3 DEF Editor
  <2> QED BY <2>1, NoneIsNothing
<1>5. [s EXCEPT !.editor.readOnly = lock] = t
  BY <1>3 DEF Page
<1> HIDE DEF e
<1>6. /\ t \in Page /\ Alike(s, t) /\ SameSearch(s, t) /\ SamePanels(s, t)
      /\ t.editor = e /\ t.draft = s.draft /\ t.menu = s.menu
  BY <1>3, <1>4, EditorSet
<1> HIDE DEF t, r
<1>7. /\ Alike(q, t) /\ SameSearch(q, t) /\ value(t) = text /\ value(s) = text
      /\ t.draft = IF q.builtIn THEN q.draft ELSE text
  BY <1>2, <1>4, <1>6 DEF Changed, Alike, SameSearch, value
<1>8. locked(t, docs) = lock
  BY <1>7 DEF locked, currentLocked, Alike
<1>9. Ready(t)
  BY <1>2, <1>6, <1>7 DEF Ready, Alike, SameSearch, Changed, Searching
<1>10. Centred(t) /\ EditorTold(t, docs)
  BY <1>4, <1>6, <1>7, <1>8 DEF Centred, EditorTold, Alike
<1>11. FrameTold(t)
  BY <1>2, <1>6, <1>7 DEF FrameTold, Alike, Changed, PanelsTold, SamePanels
<1>12. CounterTold(t)
  BY <1>2, <1>6, <1>7 DEF CounterTold, Alike, Changed, Centred
<1>13. /\ Sound(r, docs) /\ r.strayed = t.strayed /\ r.editor = t.editor
       /\ r.currentId = t.currentId
  BY <1>9, <1>10, <1>11, <1>12, RefreshSound DEF r
<1>14. r.strayed = q.strayed /\ r.currentId = q.currentId /\ r.editor # None /\ r.editor.look = q.editor.look
  BY <1>4, <1>6, <1>7, <1>13 DEF Alike
<1> QED BY <1>5, <1>13, <1>14 DEF r, s

LEMMA GuideCloses ==
    ASSUME NEW b, Sound(b, docs)
    PROVE  LET p == [b EXCEPT !.builtIn = FALSE]
           IN  KeptBy(b, refreshChrome(
                     IF p.editor = None THEN p
                     ELSE [setDocument(p, docs, p.draft) EXCEPT !.editor.readOnly = currentLocked(p, docs)],
                     docs), docs)
<1> DEFINE p == [b EXCEPT !.builtIn = FALSE]
<1>1. b \in Page
  BY DEF Sound, Ready
<1>2. /\ p \in Page /\ p.builtIn = FALSE /\ SameSearch(b, p) /\ SamePanels(b, p)
      /\ p.editor = b.editor /\ p.menu = b.menu /\ p.draft = b.draft
      /\ p.centerMode = b.centerMode /\ p.activeView = b.activeView /\ p.rail = b.rail
      /\ p.sideOpen = b.sideOpen /\ p.bottomOpen = b.bottomOpen /\ p.fullscreen = b.fullscreen
      /\ p.currentId = b.currentId /\ p.mind = b.mind /\ p.strayed = b.strayed
      /\ p.attached = b.attached /\ p.misled = b.misled
  BY <1>1 DEF Page, SameSearch, SamePanels
<1> HIDE DEF p
<1>3. /\ p.draft \in Text /\ locked(p, docs) = currentLocked(p, docs)
      /\ currentLocked(p, docs) \in BOOLEAN
  BY <1>2, LockIsBoolean DEF Page, locked
<1>4. p.currentId \notin p.strayed => p.draft.of = p.currentId
  BY <1>2 DEF Sound, Ready
<1>5. Centred(p) /\ FrameTold(p)
  BY <1>2 DEF Sound, Centred, FrameTold, ChildrenTold, SamePanels
<1>6. CASE p.editor = None
  <2>1. Ready(p)
    BY <1>2, <1>4, <1>6 DEF Sound, Ready, SameSearch, value
  <2>2. EditorTold(p, docs) /\ CounterTold(p)
    <3>1. p.mind
      BY <1>2, <1>5, <1>6 DEF Centred, Page
    <3> QED BY <1>2, <1>6, <3>1 DEF Sound, EditorTold, CounterTold
  <2> QED BY <1>2, <1>5, <1>6, <2>1, <2>2, RefreshSound DEF KeptBy, KeptAt, p
<1>7. CASE p.editor # None
  <2>1. /\ Searching(p)
        /\ p.fullscreen => ~p.searchOpen
        /\ p.activeView = MINDMAP_VIEW => p.centerMode = "mindmap"
    BY <1>2 DEF Sound, Ready, Searching, SameSearch
  <2> DEFINE r == refreshChrome([setDocument(p, docs, p.draft)
                                    EXCEPT !.editor.readOnly = currentLocked(p, docs)], docs)
  <2>2. /\ Sound(r, docs) /\ r.strayed = p.strayed /\ r.currentId = p.currentId
        /\ r.editor # None /\ r.editor.look = p.editor.look
    BY <1>2, <1>3, <1>4, <1>5, <1>7, <2>1, GuideTurned
  <2> HIDE DEF r
  <2>3. KeptBy(b, r, docs)
    BY <1>2, <1>7, <2>2 DEF KeptBy, KeptAt
  <2> QED BY <1>7, <2>3 DEF p, r
<1> QED BY <1>6, <1>7

LEMMA GuideShown ==
    ASSUME NEW b, Sound(b, docs), b.editor # None
    PROVE  LET q == [b EXCEPT !.draft = b.editor.text, !.builtIn = TRUE,
                              !.strayed = Strays(b, b.builtIn)]
           IN  KeptBy(b, refreshChrome([setDocument(q, docs, TheGuide)
                                           EXCEPT !.editor.readOnly = TRUE], docs), docs)
<1> DEFINE more == Strays(b, b.builtIn)
           text == b.editor.text
           q == [b EXCEPT !.draft = text, !.builtIn = TRUE, !.strayed = more]
           r == refreshChrome([setDocument(q, docs, TheGuide) EXCEPT !.editor.readOnly = TRUE], docs)
<1>1. /\ b \in Page /\ b.editor \in Editor /\ b.currentId \in Docs /\ b.strayed \in SUBSET Docs
      /\ b.builtIn \in BOOLEAN
  BY DEF Sound, Ready, Page
<1>2. text \in Text /\ text = value(b)
  BY <1>1 DEF Editor, value
<1>3. /\ more \in SUBSET Docs /\ b.strayed \subseteq more
      /\ b.builtIn => b.currentId \in more
  BY <1>1 DEF Strays
<1> HIDE DEF more, text
<1>4. /\ q \in Page /\ q.builtIn = TRUE /\ SameSearch(b, q) /\ SamePanels(b, q)
      /\ q.editor = b.editor /\ q.menu = b.menu /\ q.draft = text
      /\ q.centerMode = b.centerMode /\ q.activeView = b.activeView /\ q.rail = b.rail
      /\ q.sideOpen = b.sideOpen /\ q.bottomOpen = b.bottomOpen /\ q.fullscreen = b.fullscreen
      /\ q.currentId = b.currentId /\ q.mind = b.mind /\ q.strayed = more
      /\ q.attached = b.attached /\ q.misled = b.misled
  BY <1>1, <1>2, <1>3 DEF Page, SameSearch, SamePanels
<1> HIDE DEF q
<1>5. Centred(q) /\ FrameTold(q)
  BY <1>4 DEF Sound, Centred, FrameTold, ChildrenTold, SamePanels
<1>6. /\ Searching(q)
      /\ q.fullscreen => ~q.searchOpen
      /\ q.activeView = MINDMAP_VIEW => q.centerMode = "mindmap"
  BY <1>4 DEF Sound, Ready, Searching, SameSearch
<1>7. q.currentId \notin q.strayed =>
         q.draft.of = q.currentId /\ (q.builtIn \/ TheGuide.of = q.currentId)
  BY <1>2, <1>3, <1>4 DEF Sound, Ready
<1>8. TRUE = locked(q, docs)
  BY <1>4 DEF locked
<1>9. /\ Sound(r, docs) /\ r.strayed = q.strayed /\ r.currentId = q.currentId
      /\ r.editor # None /\ r.editor.look = q.editor.look
  BY <1>4, <1>5, <1>6, <1>7, <1>8, GuideTurned, GuideIsText
<1> HIDE DEF r
<1>10. KeptBy(b, r, docs)
  BY <1>3, <1>4, <1>9 DEF KeptBy, KeptAt
<1> QED BY <1>10 DEF r, q, text, more
-----------------------------------------------------------------------------
(* What is answered *)

\* The lock that was stored goes to the editor mounted now, which may be misled.
LEMMA LockShown ==
    ASSUME NEW b, Sound(b, docs), docs \in [Docs -> Status \cup {None}],
           NEW d \in Docs, docs[d] # None, NEW lock \in BOOLEAN,
           NEW ds, ds = [docs EXCEPT ![d].readOnly = lock]
    PROVE  LET elsewhere == b.builtIn \/ d # b.currentId
               p == IF b.editor = None THEN b
                    ELSE [b EXCEPT !.editor.readOnly = lock, !.misled = @ \/ elsewhere]
           IN  KeptBy(b, refreshChrome(p, ds), ds)
<1> DEFINE elsewhere == b.builtIn \/ d # b.currentId
           p == IF b.editor = None THEN b
                ELSE [b EXCEPT !.editor.readOnly = lock, !.misled = @ \/ elsewhere]
           r == refreshChrome(p, ds)
<1>1. b \in Page
  BY DEF Sound, Ready
<1>2. /\ p \in Page /\ SameSearch(b, p) /\ SamePanels(b, p) /\ value(p) = value(b)
      /\ p.menu = b.menu /\ p.draft = b.draft /\ p.builtIn = b.builtIn
      /\ p.centerMode = b.centerMode /\ p.activeView = b.activeView /\ p.rail = b.rail
      /\ p.sideOpen = b.sideOpen /\ p.bottomOpen = b.bottomOpen /\ p.fullscreen = b.fullscreen
      /\ p.currentId = b.currentId /\ p.mind = b.mind /\ p.strayed = b.strayed
      /\ p.attached = b.attached
      /\ b.misled => p.misled
      /\ p.editor = None <=> b.editor = None
      /\ p.editor # None => /\ p.editor.look = b.editor.look /\ p.editor.readOnly = lock
                            /\ elsewhere => p.misled
  <2>1. CASE b.editor = None
    BY <1>1, <2>1 DEF SameSearch, SamePanels
  <2>2. CASE b.editor # None
    <3> DEFINE e == [b.editor EXCEPT !.readOnly = lock]
    <3>1. b.editor \in Editor
      BY <1>1, <2>2 DEF Page
    <3>2. /\ e \in Editor /\ e.text = b.editor.text /\ e.look = b.editor.look
          /\ e.readOnly = lock
      BY <3>1 DEF Editor
    <3>3. PICK misled \in BOOLEAN : misled = (b.misled \/ elsewhere)
      OBVIOUS
    <3>4. p = [b EXCEPT !.editor = e, !.misled = misled]
      BY <2>2, <3>3
    <3> HIDE DEF e, p
    <3>5. /\ p \in Page /\ SameSearch(b, p) /\ SamePanels(b, p)
          /\ p.editor = e /\ p.misled = misled
          /\ p.menu = b.menu /\ p.draft = b.draft /\ p.builtIn = b.builtIn
          /\ p.centerMode = b.centerMode /\ p.activeView = b.activeView /\ p.rail = b.rail
          /\ p.sideOpen = b.sideOpen /\ p.bottomOpen = b.bottomOpen
          /\ p.fullscreen = b.fullscreen
          /\ p.currentId = b.currentId /\ p.mind = b.mind /\ p.strayed = b.strayed
          /\ p.attached = b.attached
      BY <1>1, <3>2, <3>4 DEF Page, SameSearch, SamePanels
    <3>6. e # None
      BY <3>2, NoneIsNothing
    <3> QED BY <2>2, <3>2, <3>3, <3>5, <3>6 DEF value
  <2> QED BY <2>1, <2>2
<1> HIDE DEF p
<1>3. Ready(p) /\ Centred(p) /\ FrameTold(p) /\ CounterTold(p)
  <2>1. Ready(p)
    BY <1>2 DEF Sound, Ready, SameSearch
  <2>2. Centred(p) /\ FrameTold(p)
    BY <1>2 DEF Sound, Centred, FrameTold, ChildrenTold, SamePanels
  <2>3. CounterTold(p)
    BY <1>2 DEF Sound, CounterTold
  <2> QED BY <2>1, <2>2, <2>3
<1>4. EditorTold(p, ds)
  <2>1. SUFFICES ASSUME ~p.misled, p.editor # None PROVE p.editor.readOnly = locked(p, ds)
    BY DEF EditorTold
  <2>2. ~b.builtIn /\ d = p.currentId /\ p.editor.readOnly = lock /\ ~p.builtIn
    BY <1>2, <2>1
  <2>3. docs[d] \in Status
    OBVIOUS
  <2>4. ds[d] \in Status /\ ds[d].readOnly = lock
    BY <2>3 DEF Status
  <2> QED BY <2>2, <2>4, NoneIsNothing DEF locked, currentLocked
<1>5. /\ Sound(r, ds) /\ r.strayed = p.strayed /\ r.editor = p.editor
      /\ r.currentId = p.currentId
  BY <1>3, <1>4, RefreshSound
<1> HIDE DEF r
<1>6. KeptBy(b, r, ds)
  BY <1>2, <1>5 DEF KeptBy, KeptAt
<1> QED BY <1>6 DEF r, p, elsewhere

\* The children are attached as the page is.
LEMMA Attached ==
    ASSUME NEW p, NEW ds, Sound(p, ds)
    PROVE  KeptBy(p, attachChildren(p, ds), ds)
<1> DEFINE m == [open |-> FALSE, shown |-> FALSE, query |-> "blank", count |-> None,
                 readOnly |-> locked(p, ds), builtIn |-> p.builtIn, fullscreen |-> p.fullscreen]
           r == attachChildren(p, ds)
<1>1. p \in Page /\ p.builtIn \in BOOLEAN /\ p.fullscreen \in BOOLEAN
      /\ p.activeView \in View \cup {MINDMAP_VIEW}
  BY DEF Sound, Ready, Page
<1>2. /\ m \in Menu /\ m.count = None /\ m.readOnly = locked(p, ds) /\ m.builtIn = p.builtIn
      /\ m.fullscreen = p.fullscreen
  <2>1. locked(p, ds) \in BOOLEAN
    BY <1>1, LockIsBoolean
  <2> QED BY <1>1, <2>1 DEF Menu, Query
<1>3. PICK side \in Side \cup {None}, status \in Status \cup {None} :
         /\ side = IF p.sideOpen THEN SideOf(p) ELSE None
         /\ status = IF p.bottomOpen THEN StatusOf(p, ds) ELSE None
  BY <1>1, PanelsTyped
<1>4. r = [p EXCEPT !.menu = m, !.rail = p.activeView, !.side = side, !.status = status,
                    !.attached = TRUE]
  BY <1>3 DEF attachChildren
<1>5. PICK menu \in Menu, rail \in View \cup {MINDMAP_VIEW} :
         menu = m /\ rail = p.activeView
  BY <1>1, <1>2
<1> HIDE DEF m, r
<1>6. /\ r \in Page /\ SameSearch(p, r)
      /\ r.menu = m /\ r.rail = p.activeView /\ r.side = side /\ r.status = status
      /\ r.editor = p.editor /\ r.draft = p.draft /\ r.builtIn = p.builtIn
      /\ r.centerMode = p.centerMode /\ r.activeView = p.activeView
      /\ r.sideOpen = p.sideOpen /\ r.bottomOpen = p.bottomOpen /\ r.fullscreen = p.fullscreen
      /\ r.currentId = p.currentId /\ r.mind = p.mind /\ r.strayed = p.strayed
      /\ r.misled = p.misled
  <2> DEFINE q == [p EXCEPT !.menu = menu, !.rail = rail, !.side = side,
                            !.status = status, !.attached = TRUE]
  <2>1. q \in Page /\ SameSearch(p, q)
    <3>1. q \in Page
      BY <1>1 DEF Page
    <3>2. SameSearch(p, q)
      BY <1>1 DEF Page, SameSearch
    <3> QED BY <3>1, <3>2
  <2>2. /\ q.menu = menu /\ q.rail = rail /\ q.side = side /\ q.status = status
        /\ q.editor = p.editor /\ q.draft = p.draft /\ q.builtIn = p.builtIn
        /\ q.centerMode = p.centerMode /\ q.activeView = p.activeView
        /\ q.sideOpen = p.sideOpen /\ q.bottomOpen = p.bottomOpen
        /\ q.fullscreen = p.fullscreen /\ q.currentId = p.currentId
        /\ q.mind = p.mind /\ q.strayed = p.strayed /\ q.misled = p.misled
    BY <1>1 DEF Page
  <2> HIDE DEF q
  <2>3. r = q
    BY <1>4, <1>5 DEF q
  <2> QED BY <1>5, <2>1, <2>2, <2>3
<1>7. /\ value(r) = value(p) /\ SideOf(r) = SideOf(p) /\ StatusOf(r, ds) = StatusOf(p, ds)
      /\ locked(r, ds) = locked(p, ds)
  BY <1>6 DEF value, SideOf, StatusOf, locked, currentLocked
<1>8. Ready(r)
  BY <1>2, <1>6, <1>7 DEF Sound, Ready, SameSearch
<1>9. Centred(r) /\ EditorTold(r, ds) /\ CounterTold(r)
  BY <1>2, <1>6, <1>7 DEF Sound, Centred, EditorTold, CounterTold
<1>10. ChildrenTold(r, ds)
  BY <1>1, <1>2, <1>3, <1>6, <1>7, PanelsTyped DEF ChildrenTold
<1> QED BY <1>6, <1>8, <1>9, <1>10 DEF Sound, KeptBy, KeptAt, r

\* A document that was opened takes the place of the one that was open.
LEMMA ResultApplied ==
    ASSUME Looking, NEW p, Sound(p, docs), NEW d \in Docs, docs[d] \in Status,
           d \notin p.strayed => docs[d].text.of = d
    PROVE  KeptAt(p, applyResult(p, d), docs, d)
<1> DEFINE u == unmountEditor(p)
           a == [adopt(u, docs, d) EXCEPT !.builtIn = FALSE]
           f == formReset(a)
           look == lookOf(settings, fontSize)
           r == remounted(f, docs, look)
<1>1. Ready(p)
  BY DEF Sound
<1>2. Ready(u) /\ u.editor = None /\ p.strayed \subseteq u.strayed
  BY <1>1, UnmountReady
<1> HIDE DEF u
<1>3. docs[d].text \in Text /\ u \in Page
  BY <1>2 DEF Status, Ready
<1>4. a = [u EXCEPT !.currentId = d, !.draft = docs[d].text, !.builtIn = FALSE]
  BY <1>3 DEF adopt, Page
<1>5. /\ a \in Page /\ a.currentId = d /\ a.draft = docs[d].text /\ a.editor = None
      /\ a.strayed = u.strayed /\ a.activeView = u.activeView /\ a.centerMode = u.centerMode
  BY <1>2, <1>3, <1>4 DEF Page
<1> HIDE DEF a
<1>6. /\ f \in Page /\ Alike(a, f) /\ SamePanels(a, f) /\ SameMenu(a, f)
      /\ f.editor = a.editor /\ f.draft = a.draft
      /\ ~f.searchOpen /\ f.menu.count = None
  BY <1>5, FormReset
<1> HIDE DEF f
<1>7. Ready(f)
  BY <1>2, <1>5, <1>6 DEF Ready, Alike, value
<1>8. look \in Look
  BY DEF Looking
<1> HIDE DEF look
<1>9. /\ Sound(r, docs) /\ f.strayed \subseteq r.strayed /\ r.currentId = f.currentId
      /\ r.editor # None => r.editor.look = look
  BY <1>7, <1>8, RemountSound
<1> HIDE DEF r
<1>10. p.strayed \subseteq r.strayed /\ r.currentId = d
  BY <1>2, <1>5, <1>6, <1>9 DEF Alike
<1>11. KeptAt(p, r, docs, d)
  BY <1>9, <1>10 DEF KeptBy, KeptAt, look
<1>12. applyResult(p, d) = r
  BY DEF applyResult, requestEditor, r, look, f, a, u
<1> QED BY <1>11, <1>12

\* The panel is there as long as it was, and shows the open document.
LEMMA SideAdopts ==
    ASSUME NEW side \in Side \cup {None}, NEW d \in Docs
    PROVE  LET r == IF side = None THEN None ELSE [side EXCEPT !.current = d]
           IN  /\ r \in Side \cup {None}
               /\ r = None <=> side = None
               /\ side # None => /\ r.view = side.view /\ r.map = side.map
                                 /\ r.current = d /\ r.text = side.text
<1>1. CASE side # None
  <2>1. /\ [side EXCEPT !.current = d] \in Side /\ [side EXCEPT !.current = d].view = side.view
        /\ [side EXCEPT !.current = d].map = side.map /\ [side EXCEPT !.current = d].current = d
        /\ [side EXCEPT !.current = d].text = side.text
    BY <1>1 DEF Side
  <2> QED BY <1>1, <2>1, NoneIsNothing
<1> QED BY <1>1

\* A reload of the library, which may have another text, another lock or another
\* document for the page.
LEMMA Reloaded ==
    ASSUME NEW p, Sound(p, docs), NEW ds, NEW d \in Docs, ds[d] \in Status,
           d \notin p.strayed => ds[d].text.of = d
    PROVE  LET r == reloadLibrary(p, ds, d)
           IN  KeptAt(p, r, ds, d)
<1> DEFINE s == IF p.side = None THEN None ELSE [p.side EXCEPT !.current = d]
           q == [adopt(p, ds, d) EXCEPT !.side = IF @ = None THEN None ELSE [@ EXCEPT !.current = d],
                                        !.misled = @ \/ (currentLocked(p, docs) # (ds[d].readOnly))]
           r == reloadLibrary(p, ds, d)
<1>1. /\ p \in Page /\ p.side \in Side \cup {None} /\ Searching(p)
      /\ p.fullscreen => ~p.searchOpen
  BY DEF Sound, Ready, Page, Searching
<1>2. /\ ds[d].text \in Text /\ ds[d].readOnly \in BOOLEAN /\ ds[d] # None
  BY NoneIsNothing DEF Status
<1>3. PICK side \in Side \cup {None} :
         /\ side = s
         /\ side = None <=> p.side = None
         /\ p.side # None => /\ side.view = p.side.view /\ side.map = p.side.map
                             /\ side.current = d /\ side.text = p.side.text
  <2>1. /\ s \in Side \cup {None}
        /\ s = None <=> p.side = None
        /\ p.side # None => /\ s.view = p.side.view /\ s.map = p.side.map
                            /\ s.current = d /\ s.text = p.side.text
    BY <1>1, SideAdopts
  <2> HIDE DEF s
  <2> QED BY <2>1
<1>4. PICK misled \in BOOLEAN : misled = (p.misled \/ (currentLocked(p, docs) # (ds[d].readOnly)))
  OBVIOUS
<1>5. PICK text \in Text : text = ds[d].text
  BY <1>2
<1>6. q = [p EXCEPT !.currentId = d, !.draft = text, !.side = side, !.misled = misled]
  BY <1>1, <1>3, <1>4, <1>5 DEF adopt, Page
<1> HIDE DEF q, s
<1>7. /\ q \in Page /\ SameSearch(p, q)
      /\ q.currentId = d /\ q.draft = text /\ q.side = side /\ q.misled = misled
      /\ q.editor = p.editor /\ q.menu = p.menu /\ q.builtIn = p.builtIn /\ q.status = p.status
      /\ q.centerMode = p.centerMode /\ q.activeView = p.activeView /\ q.rail = p.rail
      /\ q.sideOpen = p.sideOpen /\ q.bottomOpen = p.bottomOpen /\ q.fullscreen = p.fullscreen
      /\ q.mind = p.mind /\ q.strayed = p.strayed /\ q.attached = p.attached
  <2>1. q \in Page
    BY <1>1, <1>6 DEF Page
  <2>2. SameSearch(p, q)
    BY <1>1, <1>6 DEF Page, SameSearch
  <2>3. /\ q.currentId = d /\ q.draft = text /\ q.side = side /\ q.misled = misled
        /\ q.editor = p.editor /\ q.menu = p.menu /\ q.builtIn = p.builtIn /\ q.status = p.status
        /\ q.centerMode = p.centerMode /\ q.activeView = p.activeView /\ q.rail = p.rail
        /\ q.sideOpen = p.sideOpen /\ q.bottomOpen = p.bottomOpen /\ q.fullscreen = p.fullscreen
        /\ q.mind = p.mind /\ q.strayed = p.strayed /\ q.attached = p.attached
    BY <1>1, <1>6 DEF Page
  <2> QED BY <2>1, <2>2, <2>3
<1>8. /\ Searching(q)
      /\ q.fullscreen => ~q.searchOpen
      /\ q.activeView = MINDMAP_VIEW => q.centerMode = "mindmap"
      /\ q.currentId \notin q.strayed => q.draft.of = q.currentId
  BY <1>5, <1>7 DEF Sound, Ready, Searching, SameSearch
<1>9. ~q.misled => ~p.misled /\ locked(q, ds) = locked(p, docs)
  BY <1>2, <1>4, <1>7 DEF locked, currentLocked
<1>10. Centred(q) /\ EditorTold(q, ds) /\ FrameTold(q)
  <2>1. Centred(q)
    BY <1>7 DEF Sound, Centred
  <2>2. EditorTold(q, ds)
    BY <1>7, <1>9 DEF Sound, EditorTold
  <2>3. FrameTold(q)
    BY <1>3, <1>7, <1>9 DEF Sound, ChildrenTold, FrameTold
  <2> QED BY <2>1, <2>2, <2>3
<1>11. q.attached /\ ~q.misled => /\ q.menu.readOnly = locked(q, ds)
                                 /\ q.menu.builtIn = q.builtIn /\ q.menu.fullscreen = q.fullscreen
  BY <1>7, <1>9 DEF Sound, ChildrenTold
<1>12. CASE q.editor = None \/ q.builtIn \/ q.editor.text = ds[d].text
  <2>1. r = q
    BY <1>12 DEF reloadLibrary, q
  <2>2. ~q.mind => value(q) = value(p)
    BY <1>7, <1>10 DEF Centred, value, Page
  <2>3. Ready(q)
    BY <1>5, <1>7, <1>8, <1>12 DEF Ready, Searching, value
  <2>4. CounterTold(q)
    BY <1>7, <2>2 DEF Sound, CounterTold
  <2>5. ChildrenTold(q, ds)
    <3>1. SUFFICES ASSUME q.attached, ~q.misled PROVE
                   /\ ~q.mind /\ q.side # None => q.side = SideOf(q)
                   /\ ~q.mind /\ q.status # None => q.status = StatusOf(q, ds)
      BY <1>10, <1>11 DEF ChildrenTold, FrameTold
    <3>2. ASSUME ~q.mind, q.side # None PROVE q.side = SideOf(q)
      <4>1. p.side # None /\ p.side = SideOf(p) /\ q.side = [p.side EXCEPT !.current = d]
        BY <1>3, <1>7, <1>9, <3>1, <3>2 DEF Sound, ChildrenTold, s
      <4> QED BY <1>7, <2>2, <3>2, <4>1 DEF SideOf
    <3>3. ASSUME ~q.mind, q.status # None PROVE q.status = StatusOf(q, ds)
      <4>1. p.status = StatusOf(p, docs)
        BY <1>7, <1>9, <3>1, <3>3 DEF Sound, ChildrenTold
      <4> QED BY <1>7, <1>9, <2>2, <3>1, <3>3, <4>1 DEF StatusOf
    <3> QED BY <3>2, <3>3
  <2> QED BY <1>7, <1>10, <2>1, <2>3, <2>4, <2>5 DEF Sound, KeptBy, KeptAt
<1>13. CASE ~(q.editor = None \/ q.builtIn \/ q.editor.text = ds[d].text)
  <2> DEFINE c == setDocument(q, ds, text)
             f == formReset(c)
  <2>1. r = pushLiveUpdates(f, ds)
    BY <1>5, <1>13 DEF reloadLibrary, q
  <2>2. /\ Changed(q, c, ds) /\ c.editor # None /\ c.editor.text = text
        /\ c.editor.readOnly = q.editor.readOnly /\ c.editor.look = q.editor.look
    BY <1>7, <1>8, <1>13, SetDocument
  <2> HIDE DEF c
  <2>3. /\ f \in Page /\ Alike(c, f) /\ SamePanels(c, f) /\ SameMenu(c, f)
        /\ f.editor = c.editor /\ f.draft = c.draft
        /\ ~f.searchOpen /\ f.menu.count = None
    BY <2>2, FormReset DEF Changed
  <2> HIDE DEF f, r
  <2>4. /\ r \in Page /\ Alike(f, r) /\ SameSearch(f, r) /\ PanelsTold(f, r, ds)
        /\ r.editor = f.editor /\ r.draft = f.draft /\ r.menu = f.menu
    BY <2>1, <2>3, Push
  <2>5. /\ Alike(q, r) /\ value(r) = text /\ r.draft = text /\ r.editor = c.editor
        /\ SameMenu(q, r) /\ r.menu.count = None /\ ~r.searchOpen
    BY <1>13, <2>2, <2>3, <2>4 DEF Alike, Changed, value, SameMenu, SameSearch
  <2>6. locked(r, ds) = locked(q, ds)
    BY <2>5 DEF Alike, locked, currentLocked
  <2>7. Ready(r)
    BY <1>7, <1>8, <2>4, <2>5 DEF Ready, Alike
  <2>8. Centred(r) /\ EditorTold(r, ds) /\ CounterTold(r)
    BY <1>10, <1>13, <2>2, <2>5, <2>6 DEF Centred, EditorTold, CounterTold, Alike
  <2>9. /\ r.side = None <=> q.side = None
        /\ r.status = None <=> q.status = None
        /\ r.side # None => r.side = SideOf(r)
        /\ r.status # None => r.status = StatusOf(r, ds)
    BY <2>2, <2>3, <2>4 DEF Changed, PanelsTold, SamePanels
  <2>10. ChildrenTold(r, ds)
    BY <1>10, <1>11, <2>5, <2>6, <2>9 DEF ChildrenTold, FrameTold, Alike, SameMenu
  <2>11. r.strayed = p.strayed /\ r.currentId = d /\ r.editor.look = p.editor.look /\ p.editor # None
    BY <1>7, <1>13, <2>2, <2>5 DEF Alike
  <2>12. KeptAt(p, r, ds, d)
    BY <2>7, <2>8, <2>10, <2>11 DEF Sound, KeptBy, KeptAt
  <2> QED BY <2>12 DEF r
<1> QED BY <1>12, <1>13
-----------------------------------------------------------------------------
(* Every step of the workbench *)

\* What is stored: of each document that has not strayed, a text of its own.
Shelved(ds, strayed) ==
    /\ ds \in [Docs -> Status \cup {None}]
    /\ \A d \in Docs \ strayed : ds[d] # None => ds[d].text.of = d

PageTold == Sound(page, docs) /\ Shelved(docs, page.strayed) /\ docs[page.currentId] # None

WorkTold ==
    /\ PageTold
    /\ locks \subseteq [doc : Docs, value : BOOLEAN] /\ opens \subseteq Docs
    /\ acts \in 0 .. MaxActs /\ pulls \in 0 .. MaxPulls

\* What a step makes of the page and of storage.
WorkKept(ds) ==
    /\ KeptAt(page, page', ds, page'.currentId)
    /\ Shelved(ds, page'.strayed) /\ ds[page'.currentId] # None

LEMMA OnPage ==
    ASSUME WorkTold
    PROVE  /\ page \in Page /\ page.currentId \in Docs /\ docs[page.currentId] \in Status
           /\ docs \in [Docs -> Status \cup {None}] /\ page.strayed \in SUBSET Docs
           /\ page.menu \in Menu
<1>1. page \in Page /\ page.currentId \in Docs /\ page.strayed \in SUBSET Docs /\ page.menu \in Menu
  BY DEF WorkTold, PageTold, Sound, Ready, Page
<1> QED BY <1>1 DEF WorkTold, PageTold, Shelved

\* A handler of the page stores nothing.
LEMMA HandlerKeeps ==
    ASSUME WorkTold, KeptBy(page, page', docs)
    PROVE  WorkKept(docs)
BY OnPage DEF WorkTold, PageTold, WorkKept, KeptBy, KeptAt, Shelved

\* The draft is flushed to its document; nothing else is stored.
LEMMA Flushed ==
    ASSUME WorkTold
    PROVE  LET f == flushSave(page, docs)
           IN  /\ Shelved(f, page.strayed)
               /\ \A d \in Docs : /\ f[d] = None <=> docs[d] = None
                                  /\ docs[d] # None => f[d].readOnly = docs[d].readOnly
<1> DEFINE f == flushSave(page, docs)
           c == page.currentId
<1>1. /\ page \in Page /\ c \in Docs /\ docs[c] \in Status
      /\ docs \in [Docs -> Status \cup {None}]
  BY OnPage
<1>2. CASE page.builtIn
  <2>1. f = docs
    BY <1>2 DEF flushSave
  <2> QED BY <1>1, <2>1 DEF WorkTold, PageTold
<1>3. CASE ~page.builtIn
  <2> DEFINE record == [docs[c] EXCEPT !.text = value(page)]
  <2>1. value(page) \in Text
    BY <1>1, ValueTyped
  <2>2. record \in Status /\ record.readOnly = docs[c].readOnly /\ record.text = value(page)
    BY <1>1, <2>1 DEF Status
  <2>3. f = [docs EXCEPT ![c] = record]
    BY <1>3 DEF flushSave
  <2>4. c \notin page.strayed => value(page).of = c
    BY <1>3 DEF WorkTold, PageTold, Sound, Ready
  <2> HIDE DEF record, f
  <2>5. /\ f \in [Docs -> Status \cup {None}] /\ f[c] = record
        /\ \A d \in Docs \ {c} : f[d] = docs[d]
    BY <1>1, <2>2, <2>3
  <2>6. Shelved(f, page.strayed)
    BY <2>2, <2>4, <2>5 DEF WorkTold, PageTold, Shelved
  <2>7. record # None /\ docs[c] # None
    BY <1>1, <2>2, NoneIsNothing
  <2> QED BY <2>2, <2>5, <2>6, <2>7 DEF f
<1> QED BY <1>2, <1>3

\* The page reads of storage only whether its document is locked.
LEMMA SoundElsewhere ==
    ASSUME NEW p, NEW ds, NEW es, Sound(p, ds), locked(p, es) = locked(p, ds)
    PROVE  Sound(p, es)
BY DEF Sound, EditorTold, ChildrenTold, StatusOf

LEMMA FlushKeeps ==
    ASSUME WorkTold, page' = page
    PROVE  WorkKept(flushSave(page, docs))
<1> DEFINE f == flushSave(page, docs)
<1>1. /\ Shelved(f, page.strayed)
      /\ \A d \in Docs : /\ f[d] = None <=> docs[d] = None
                         /\ docs[d] # None => f[d].readOnly = docs[d].readOnly
  BY Flushed
<1>2. page.currentId \in Docs /\ docs[page.currentId] # None
  BY OnPage DEF WorkTold, PageTold
<1> HIDE DEF f
<1>3. locked(page, f) = locked(page, docs)
  BY <1>1, <1>2 DEF locked, currentLocked
<1>4. Sound(page, f)
  BY <1>3, SoundElsewhere DEF WorkTold, PageTold
<1> QED BY <1>1, <1>2, <1>4 DEF WorkKept, KeptAt, f

\* Whatever the user does.
LEMMA UserKeeps ==
    ASSUME WorkTold, Looking, User
    PROVE  WorkKept(docs')
<1>0. /\ Sound(page, docs) /\ page \in Page /\ page.menu \in Menu
      /\ page.builtIn \in BOOLEAN
  BY OnPage DEF WorkTold, PageTold, Page
<1>1. ASSUME NEW p, Act(p), KeptBy(page, p, docs) PROVE WorkKept(docs')
  BY <1>1, HandlerKeeps DEF Act
<1>2. ASSUME NEW id \in View \cup {MINDMAP_VIEW}, SwitchView(id) PROVE WorkKept(docs')
  BY <1>0, <1>1, <1>2, ViewSwitched DEF SwitchView
<1>3. CASE ToggleSide
  BY <1>0, <1>1, <1>3, Toggled DEF ToggleSide
<1>4. CASE ToggleStatus
  BY <1>0, <1>1, <1>4, Toggled DEF ToggleStatus
<1>5. CASE EntersFullscreen \/ LeavesFullscreen
  BY <1>0, <1>1, <1>5, FullscreenSet DEF EntersFullscreen, LeavesFullscreen
<1>6. CASE openSearch
  BY <1>0, <1>1, <1>6, SearchOpens DEF openSearch
<1>7. CASE ToggleSearch
  BY <1>0, <1>1, <1>7, FormToggled DEF ToggleSearch
<1>8. CASE OutsideClick
  BY <1>0, <1>1, <1>8, FormToggled DEF OutsideClick
<1>9. CASE closeSearch
  BY <1>0, <1>1, <1>9, SearchCleared DEF closeSearch
<1>10. ASSUME NEW spec \in Query, Searches(spec) PROVE WorkKept(docs')
  BY <1>0, <1>1, <1>10, SearchedSound DEF Searches, Chrome
<1>11. CASE Type
  BY <1>0, <1>1, <1>11, EditedSound DEF Type, CanChange
<1>12. CASE Replaces
  <2> DEFINE p == [page EXCEPT !.searchOpen = TRUE, !.searchSpec = page.menu.query]
             e == Edited(p)
  <2>1. page.menu.query \in Query /\ ~page.fullscreen /\ Act(counted(e, page.menu.query)) /\ CanChange
    BY <1>0, <1>12 DEF Replaces, Chrome, Menu
  <2>2. p \in Page /\ Sound(p, docs) /\ KeptBy(page, p, docs) /\ p.editor = page.editor
    BY <1>0, <2>1, SearchSet
  <2>3. p.searchOpen /\ p.searchSpec = page.menu.query /\ page.menu.query # None
    BY <1>0, <2>1, NoneIsNothing DEF Page
  <2> HIDE DEF p
  <2>4. KeptBy(p, e, docs) /\ e.editor # None /\ SameSearch(p, e)
    BY <2>1, <2>2, EditedSound DEF CanChange
  <2> HIDE DEF e
  <2>5. Sound(e, docs) /\ e.searchOpen /\ e.searchSpec # None
    BY <2>3, <2>4 DEF KeptBy, KeptAt, SameSearch
  <2>6. KeptBy(e, counted(e, page.menu.query), docs)
    BY <2>1, <2>4, <2>5, CountedSound
  <2>7. KeptBy(page, counted(e, page.menu.query), docs)
    BY <2>2, <2>4, <2>6, KeptChain
  <2> QED BY <1>1, <2>1, <2>7
<1>13. CASE undo
  BY <1>0, <1>1, <1>13, UndoneSound DEF undo
<1>14. CASE EditMap
  BY <1>0, <1>1, <1>14, DraftEdited DEF EditMap
<1>15. CASE JumpFromMap
  BY <1>0, <1>1, <1>15, Toggled DEF JumpFromMap
<1>16. CASE openBuiltin
  BY <1>0, <1>1, <1>16, Toggled, OpeningSet DEF openBuiltin
<1>17. CASE closeBuiltin
  BY <1>0, <1>1, <1>17, GuideCloses DEF closeBuiltin
<1>18. ASSUME NEW to \in BOOLEAN, AskLock(to) PROVE WorkKept(docs')
  <2>1. KeptBy(page, page', docs) /\ docs' = docs
    BY <1>0, <1>18 DEF AskLock, KeptBy, KeptAt
  <2> QED BY <2>1, HandlerKeeps
<1>19. ASSUME NEW d \in Stored(docs), switchDocument(d) PROVE WorkKept(docs')
  BY <1>19, FlushKeeps DEF switchDocument
<1>20. ASSUME NEW change \in Change, ChangeSetting(change) PROVE WorkKept(docs')
  <2>1. CASE change.key # "filesSort"
    <3>1. KeptBy(page, page', docs) /\ docs' = docs
      BY <1>0, <1>20, <2>1 DEF ChangeSetting, KeptBy, KeptAt
    <3> QED BY <3>1, HandlerKeeps
  <2>2. CASE change.key = "filesSort"
    <3>1. change.value \in FilesSort
      BY <2>2 DEF Change
    <3>2. docs' = docs /\ page' = requestEditor([page EXCEPT !.filesSort = change.value])
      BY <1>20, <2>2 DEF ChangeSetting
    <3>3. KeptBy(page, page', docs)
      BY <1>0, <3>1, <3>2, Toggled
    <3> QED BY <3>2, <3>3, HandlerKeeps
  <2> QED BY <2>1, <2>2
<1>21. CASE ColorSchemeFlips
  BY <1>0, <1>1, <1>21, Toggled DEF ColorSchemeFlips
<1> QED BY <1>2, <1>3, <1>4, <1>5, <1>6, <1>7, <1>8, <1>9, <1>10, <1>11, <1>12, <1>13, <1>14,
           <1>15, <1>16, <1>17, <1>18, <1>19, <1>20, <1>21 DEF User

\* A sync run: the draft is flushed, a record replaced or deleted, the library
\* reloaded.
LEMMA PullKeeps ==
    ASSUME WorkTold, NEW d \in Docs, Pull(d)
    PROVE  WorkKept(docs')
<1> DEFINE f == flushSave(page, docs)
<1>1. /\ Shelved(f, page.strayed)
      /\ \A i \in Docs : /\ f[i] = None <=> docs[i] = None
                         /\ docs[i] # None => f[i].readOnly = docs[i].readOnly
  BY Flushed
<1>2. f[d] \in Status /\ f \in [Docs -> Status \cup {None}]
  BY <1>1 DEF Pull, Shelved
<1>3. Shelved(docs', page.strayed)
  <2>1. CASE f[d].text.n < MaxVersion /\ docs' = [f EXCEPT ![d].text.n = @ + 1, ![d].readOnly = FALSE]
    <3> DEFINE text == [f[d].text EXCEPT !.n = @ + 1]
               record == [f[d] EXCEPT !.text = text, !.readOnly = FALSE]
    <3>1. f[d].text \in Text
      BY <1>2 DEF Status
    <3>2. text \in Text /\ text.of = f[d].text.of
      BY <2>1, <3>1, TextTyped
    <3>3. docs' = [f EXCEPT ![d] = record]
      BY <1>2, <2>1
    <3> HIDE DEF text
    <3>4. record \in Status /\ record.text = text
      BY <1>2, <3>2 DEF Status
    <3> HIDE DEF record, f
    <3>5. /\ docs' \in [Docs -> Status \cup {None}] /\ docs'[d] = record
          /\ \A i \in Docs \ {d} : docs'[i] = f[i]
      BY <1>2, <3>3, <3>4
    <3>6. d \notin page.strayed => record.text.of = d
      BY <1>1, <1>2, <3>2, <3>4, NoneIsNothing DEF Shelved
    <3> QED BY <1>1, <3>5, <3>6 DEF Shelved
  <2>2. CASE docs' = [f EXCEPT ![d] = None]
    <3> HIDE DEF f
    <3>1. /\ docs' \in [Docs -> Status \cup {None}] /\ docs'[d] = None
          /\ \A i \in Docs \ {d} : docs'[i] = f[i]
      BY <1>2, <2>2
    <3> QED BY <1>1, <3>1 DEF Shelved
  <2> QED BY <2>1, <2>2 DEF Pull
<1>4. PICK next \in Stored(docs') : page' = reloadLibrary(page, docs', next)
  BY DEF Pull
<1>5. /\ next \in Docs /\ docs'[next] # None /\ docs'[next] \in Status
      /\ next \notin page.strayed => docs'[next].text.of = next
  BY <1>3, <1>4 DEF Stored, Shelved
<1>6. KeptAt(page, page', docs', next)
  BY <1>4, <1>5, Reloaded DEF WorkTold, PageTold
<1> QED BY <1>3, <1>5, <1>6 DEF WorkKept, KeptAt, Shelved

\* Every answer but that of the settings.
LEMMA AnswersKeep ==
    ASSUME WorkTold, Looking, Answers, ~SettingsAnswer
    PROVE  WorkKept(docs')
<1>0. /\ Sound(page, docs) /\ page \in Page /\ docs \in [Docs -> Status \cup {None}]
  BY OnPage DEF WorkTold, PageTold
<1>1. ASSUME docs' = docs, KeptBy(page, page', docs) PROVE WorkKept(docs')
  BY <1>1, HandlerKeeps
<1>2. ASSUME docs' = docs, page' = page PROVE WorkKept(docs')
  BY <1>0, <1>1, <1>2 DEF KeptBy, KeptAt
<1>3. CASE Attach
  BY <1>0, <1>1, <1>3, Attached DEF Attach, Answer
<1>4. CASE GuideOpens
  <2> DEFINE p == [page EXCEPT !.opening = FALSE]
  <2>1. KeptBy(page, p, docs) /\ p.editor = page.editor /\ docs' = docs
    BY <1>0, <1>4, OpeningSet DEF GuideOpens, Answer
  <2>2. CASE p.editor = None
    BY <1>1, <1>4, <2>1, <2>2 DEF GuideOpens, Answer
  <2>3. CASE p.editor # None
    <3> DEFINE q == [p EXCEPT !.draft = p.editor.text, !.builtIn = TRUE,
                              !.strayed = Strays(p, p.builtIn)]
               r == refreshChrome([setDocument(q, docs, TheGuide)
                                      EXCEPT !.editor.readOnly = TRUE], docs)
    <3>1. page' = r
      BY <1>4, <2>3 DEF GuideOpens, Answer
    <3> HIDE DEF p
    <3>2. KeptBy(p, r, docs)
      BY <2>1, <2>3, GuideShown DEF KeptBy, KeptAt
    <3> HIDE DEF r
    <3>3. KeptBy(page, r, docs)
      BY <2>1, <3>2, KeptChain
    <3> QED BY <1>1, <2>1, <3>1, <3>3
  <2> QED BY <2>2, <2>3
<1>5. CASE GuideFails
  BY <1>0, <1>1, <1>5, OpeningSet DEF GuideFails, Answer
<1>6. ASSUME NEW l \in locks, LockAnswers(l) PROVE WorkKept(docs')
  <2>1. /\ l.doc \in Docs /\ l.value \in BOOLEAN /\ docs[l.doc] # None
        /\ docs' = [docs EXCEPT ![l.doc].readOnly = l.value]
    BY <1>6 DEF WorkTold, PageTold, LockAnswers
  <2>2. KeptBy(page, page', docs')
    BY <1>0, <1>6, <2>1, LockShown DEF LockAnswers
  <2> DEFINE record == [docs[l.doc] EXCEPT !.readOnly = l.value]
  <2>3. docs[l.doc] \in Status
    BY <1>0, <2>1
  <2>4. record \in Status /\ record.text = docs[l.doc].text /\ docs' = [docs EXCEPT ![l.doc] = record]
    BY <2>1, <2>3 DEF Status
  <2> HIDE DEF record
  <2>5. /\ docs' \in [Docs -> Status \cup {None}] /\ docs'[l.doc] = record /\ record # None
        /\ \A i \in Docs \ {l.doc} : docs'[i] = docs[i]
    BY <1>0, <2>1, <2>4, NoneIsNothing
  <2>6. Shelved(docs', page.strayed)
    BY <2>1, <2>4, <2>5 DEF WorkTold, PageTold, Shelved
  <2>7. page.currentId \in Docs /\ docs'[page.currentId] # None
    BY <2>5, OnPage DEF WorkTold, PageTold
  <2> QED BY <2>2, <2>6, <2>7 DEF WorkKept, KeptBy, KeptAt, Shelved
<1>7. ASSUME NEW l \in locks, LockFails(l) PROVE WorkKept(docs')
  BY <1>2, <1>7 DEF LockFails
<1>8. ASSUME NEW d \in Docs, DocumentOpens(d) PROVE WorkKept(docs')
  <2>1. docs[d] \in Status /\ docs[d] # None /\ docs' = docs /\ page' = applyResult(page, d)
    BY <1>0, <1>8 DEF DocumentOpens
  <2>2. KeptAt(page, page', docs, d)
    BY <1>0, <2>1, ResultApplied DEF WorkTold, PageTold, Shelved
  <2> QED BY <2>1, <2>2 DEF WorkTold, PageTold, WorkKept, KeptAt, Shelved
<1>9. ASSUME NEW d \in Docs, OpeningFails(d) PROVE WorkKept(docs')
  BY <1>2, <1>9 DEF OpeningFails
<1>10. ASSUME NEW d \in Docs, Pull(d) PROVE WorkKept(docs')
  BY <1>10, PullKeeps
<1> QED BY <1>3, <1>4, <1>5, <1>6, <1>7, <1>8, <1>9, <1>10 DEF Answers
-----------------------------------------------------------------------------
(* The settings on show *)

\* As long as no request was lost, the applier has what is stored, and the theme
\* read last, if it was read, is the stored one; with none to be read, the shell
\* has it.
ShownOrToCome ==
    lost = 0 =>
        /\ settings = stored /\ fontSize = stored.fontSize
        /\ themeWrite = <<>> => shell = stored.theme
        /\ \A n \in 1 .. Len(themeWrite) :
              n = Len(themeWrite) /\ themeWrite[n] # None => themeWrite[n] = stored.theme

LookTold ==
    lost = 0 /\ page.editor # None => page.editor.look = lookOf(settings, fontSize)

LEMMA LookTyped ==
    ASSUME NEW record \in Settings \cup {None}, NEW size \in FontSize
    PROVE  lookOf(record, size) \in Look
<1>1. (IF record = None THEN None ELSE record.theme) \in Theme \cup {None}
  BY DEF Settings
<1> QED BY <1>1 DEF lookOf, Look

\* Each read of the theme in turn.
LEMMA ThemeStep ==
    ASSUME PrefsTypeOK, NEW n \in DOMAIN themeWrite,
           ThemeReads(n) \/ applyStoredTheme(n) \/ ThemeFails(n)
    PROVE  /\ themeWrite' \in Seq(Theme \cup {None}) /\ Len(themeWrite') <= Len(themeWrite)
           /\ shell' \in Theme /\ lost' \in 0 .. MaxLost
           /\ ShownOrToCome => ShownOrToCome'
<1>1. /\ themeWrite \in Seq(Theme \cup {None}) /\ n = 1 /\ themeWrite # <<>>
      /\ stored \in Settings /\ stored.theme \in Theme /\ shell \in Theme
      /\ lost \in Nat /\ lost <= MaxLost /\ MaxLost \in Nat
  BY PreferencesBounds DEF PrefsTypeOK, ThemeReads, applyStoredTheme, ThemeFails, ThemeTurn, Settings
<1>2. /\ Len(themeWrite) \in Nat /\ Len(themeWrite) # 0
      /\ \A i \in 1 .. Len(themeWrite) : themeWrite[i] \in Theme \cup {None}
  BY <1>1, ElementOfSeq
<1>3. /\ ThemeDone(1) \in Seq(Theme \cup {None}) /\ Len(ThemeDone(1)) = Len(themeWrite) - 1
      /\ \A i \in 1 .. Len(ThemeDone(1)) : ThemeDone(1)[i] = themeWrite[i + 1]
  BY <1>1, AnsweredFirst DEF ThemeDone
<1>4. CASE ThemeReads(n)
  <2>1. /\ themeWrite' = [themeWrite EXCEPT ![1] = stored.theme]
        /\ stored' = stored /\ settings' = settings /\ fontSize' = fontSize
        /\ shell' = shell /\ lost' = lost
    BY <1>1, <1>4 DEF ThemeReads
  <2>2. /\ themeWrite' \in Seq(Theme \cup {None}) /\ Len(themeWrite') = Len(themeWrite)
        /\ themeWrite'[1] = stored.theme /\ themeWrite' # <<>>
        /\ \A i \in 1 .. Len(themeWrite) : i # 1 => themeWrite'[i] = themeWrite[i]
    BY <1>1, <1>2, <2>1
  <2>3. ASSUME ShownOrToCome, lost' = 0, NEW i \in 1 .. Len(themeWrite'),
               i = Len(themeWrite'), themeWrite'[i] # None
        PROVE  themeWrite'[i] = stored'.theme
    BY <2>1, <2>2, <2>3 DEF ShownOrToCome
  <2>4. ShownOrToCome => ShownOrToCome'
    BY <2>1, <2>2, <2>3 DEF ShownOrToCome
  <2> QED BY <1>1, <1>2, <2>1, <2>2, <2>4
<1>5. CASE applyStoredTheme(n)
  <2>1. /\ themeWrite' = ThemeDone(1) /\ shell' = themeWrite[1] /\ themeWrite[1] # None
        /\ stored' = stored /\ settings' = settings /\ fontSize' = fontSize /\ lost' = lost
    BY <1>1, <1>5 DEF applyStoredTheme
  <2>2. shell' \in Theme
    BY <1>2, <2>1
  <2>3. ASSUME ShownOrToCome, lost' = 0, NEW i \in 1 .. Len(themeWrite'),
               i = Len(themeWrite'), themeWrite'[i] # None
        PROVE  themeWrite'[i] = stored'.theme
    <3>1. i + 1 = Len(themeWrite) /\ i + 1 \in 1 .. Len(themeWrite) /\ themeWrite'[i] = themeWrite[i + 1]
      BY <1>2, <1>3, <2>1, <2>3
    <3> QED BY <2>1, <2>3, <3>1 DEF ShownOrToCome
  <2>4. ASSUME ShownOrToCome, lost' = 0, themeWrite' = <<>> PROVE shell' = stored'.theme
    <3>1. Len(themeWrite) = 1
      BY <1>2, <1>3, <2>1, <2>4
    <3>2. 1 \in 1 .. Len(themeWrite)
      BY <3>1
    <3> QED BY <2>1, <2>4, <3>1, <3>2 DEF ShownOrToCome
  <2>5. ShownOrToCome => ShownOrToCome'
    BY <2>1, <2>3, <2>4 DEF ShownOrToCome
  <2> QED BY <1>1, <1>2, <1>3, <2>1, <2>2, <2>5
<1>6. CASE ThemeFails(n)
  <2>1. themeWrite' = ThemeDone(1) /\ shell' = shell /\ lost < MaxLost /\ lost' = lost + 1
    BY <1>1, <1>6 DEF ThemeFails, RequestLost
  <2>2. lost' # 0 /\ lost' \in 0 .. MaxLost
    BY <1>1, <2>1
  <2> QED BY <1>1, <1>2, <1>3, <2>1, <2>2 DEF ShownOrToCome
<1> QED BY <1>4, <1>5, <1>6

\* A write is followed by a read of the theme.
LEMMA WriteShown ==
    ASSUME PrefsTypeOK, WInv, NEW n \in DOMAIN writeChain, SaveWrites(n)
    PROVE  /\ themeWrite' \in Seq(Theme \cup {None}) /\ Len(themeWrite') = Len(themeWrite) + 1
           /\ settings' \in Settings /\ n = 1
           /\ ShownOrToCome => ShownOrToCome'
           /\ lost = 0 /\ ShownOrToCome /\ writeChain[1].change.key = "filesSort" =>
                 lookOf(settings', fontSize') = lookOf(settings, fontSize)
<1> DEFINE change == writeChain[n].change
<1>1. /\ n = 1 /\ stored' \in Settings
      /\ stored' = [stored EXCEPT ![change.key] =
                       IF change.key = "fontSize" THEN fontSize + change.value ELSE change.value]
  BY WritesWhatWasAsked
<1>2. /\ settings' = stored' /\ shell' = shell /\ lost' = lost
      /\ fontSize' = IF change.key = "filesSort" THEN fontSize ELSE stored'.fontSize
      /\ themeWrite' = Append(themeWrite, None)
  BY DEF SaveWrites
<1>3. themeWrite \in Seq(Theme \cup {None}) /\ stored \in Settings
  BY DEF PrefsTypeOK
<1>4. /\ themeWrite' \in Seq(Theme \cup {None}) /\ Len(themeWrite') = Len(themeWrite) + 1
      /\ themeWrite'[Len(themeWrite')] = None /\ themeWrite' # <<>>
  BY <1>2, <1>3
<1>5. change.key = "filesSort" => stored'.fontSize = stored.fontSize /\ stored'.theme = stored.theme
  BY <1>1, <1>3 DEF Settings
<1>6. ShownOrToCome => ShownOrToCome'
  BY <1>2, <1>4, <1>5 DEF ShownOrToCome
<1>7. ASSUME lost = 0, ShownOrToCome, change.key = "filesSort"
      PROVE  lookOf(settings', fontSize') = lookOf(settings, fontSize)
  <2>1. settings' # None /\ settings # None
    BY <1>1, <1>2, <1>3, <1>7, NoneIsNoSetting DEF ShownOrToCome
  <2> QED BY <1>2, <1>5, <1>7, <2>1 DEF ShownOrToCome, lookOf
<1> QED BY <1>1, <1>2, <1>4, <1>6, <1>7

LEMMA PrefsKept ==
    ASSUME PrefsTypeOK, WInv, [Next]_vars
    PROVE  PrefsTypeOK' /\ (ShownOrToCome => ShownOrToCome')
<1>1. WInv'
  BY NextKeepsWInv
<1>2. /\ stored' \in Settings /\ fontSize' \in FontSize /\ writeChain' \in Seq(Link)
  BY <1>1 DEF WInv, RecordsTyped
<1>3. CASE UNCHANGED prefs
  BY <1>3 DEF prefs, PrefsTypeOK, ShownOrToCome
<1>4. ASSUME NEW change \in Change, Apply(change)
      PROVE  PrefsTypeOK' /\ (ShownOrToCome => ShownOrToCome')
  <2>1. asked' \in 0 .. MaxChanges
    BY <1>4, PreferencesBounds DEF PrefsTypeOK, Apply
  <2> QED BY <1>2, <1>4, <2>1 DEF PrefsTypeOK, ShownOrToCome, Apply, Link
<1>5. ASSUME NEW n \in DOMAIN writeChain, SaveReads(n)
      PROVE  PrefsTypeOK' /\ (ShownOrToCome => ShownOrToCome')
  BY <1>2, <1>5 DEF PrefsTypeOK, ShownOrToCome, SaveReads, Link
<1>6. ASSUME NEW n \in DOMAIN writeChain, SaveWrites(n)
      PROVE  PrefsTypeOK' /\ (ShownOrToCome => ShownOrToCome')
  <2>1. shell' = shell /\ asked' = asked /\ lost' = lost
    BY <1>6 DEF SaveWrites
  <2> QED BY <1>2, <1>6, <2>1, WriteShown DEF PrefsTypeOK, Link
<1>7. ASSUME NEW n \in DOMAIN writeChain, SaveFails(n)
      PROVE  PrefsTypeOK' /\ (ShownOrToCome => ShownOrToCome')
  <2>1. /\ lost < MaxLost /\ lost' = lost + 1 /\ settings' = settings /\ shell' = shell
        /\ themeWrite' = themeWrite /\ asked' = asked
    BY <1>7 DEF SaveFails, RequestLost
  <2>2. lost' \in 0 .. MaxLost /\ lost' # 0
    BY <2>1, PreferencesBounds DEF PrefsTypeOK
  <2> QED BY <1>2, <2>1, <2>2 DEF PrefsTypeOK, ShownOrToCome, Link
<1>8. ASSUME NEW n \in DOMAIN themeWrite, ThemeReads(n) \/ applyStoredTheme(n) \/ ThemeFails(n)
      PROVE  PrefsTypeOK' /\ (ShownOrToCome => ShownOrToCome')
  <2>1. settings' = settings /\ asked' = asked
    BY <1>8 DEF ThemeReads, applyStoredTheme, ThemeFails
  <2> QED BY <1>2, <1>8, <2>1, ThemeStep DEF PrefsTypeOK, Link
<1> QED BY <1>3, <1>4, <1>5, <1>6, <1>7, <1>8, PageOrSettings DEF PrefsAnswer

\* The answer of the settings remounts the editor, or leaves the page alone.
LEMMA SettingsKeep ==
    ASSUME WorkTold, PrefsTypeOK, WInv, SettingsAnswer
    PROVE  PageTold' /\ (ShownOrToCome /\ LookTold => LookTold')
<1> DEFINE look == lookOf(settings', fontSize')
           wrote == Len(themeWrite') > Len(themeWrite) /\ writeChain[1].change.key # "filesSort"
<1>1. /\ PrefsAnswer /\ docs' = docs
      /\ page' = IF wrote THEN remounted(page, docs, look) ELSE page
  BY DEF SettingsAnswer
<1>2. Sound(page, docs) /\ Ready(page)
  BY DEF WorkTold, PageTold, Sound
<1>3. [Next]_vars
  BY DEF Next, Answers
<1>4. look \in Look
  <2>1. settings' \in Settings \cup {None} /\ fontSize' \in FontSize
    BY <1>3, PrefsKept DEF PrefsTypeOK
  <2> QED BY <2>1, LookTyped
<1>5. CASE wrote
  <2>1. page' = remounted(page, docs, look)
    BY <1>1, <1>5
  <2>2. /\ Sound(page', docs) /\ page.strayed \subseteq page'.strayed
        /\ page'.currentId = page.currentId
        /\ page'.editor # None => page'.editor.look = look
    <3> HIDE DEF look
    <3> QED BY <1>2, <1>4, <2>1, RemountSound
  <2> QED BY <1>1, <2>2 DEF WorkTold, PageTold, Shelved, LookTold
<1>6. CASE ~wrote
  <2>1. page' = page
    BY <1>1, <1>6
  <2>2. PageTold'
    BY <1>1, <2>1 DEF WorkTold, PageTold
  <2>3. ASSUME ShownOrToCome, lost' = 0
        PROVE  lost = 0 /\ lookOf(settings', fontSize') = lookOf(settings, fontSize)
    <3>0. lost \in Nat /\ Len(themeWrite) \in Nat
      BY DEF PrefsTypeOK
    <3>1. ASSUME NEW n \in DOMAIN writeChain, SaveReads(n) PROVE lost = 0 /\ settings' = settings /\ fontSize' = fontSize
      BY <2>3, <3>1 DEF SaveReads
    <3>2. ASSUME NEW n \in DOMAIN writeChain, SaveWrites(n)
          PROVE  lost = 0 /\ lookOf(settings', fontSize') = lookOf(settings, fontSize)
      <4>1. /\ Len(themeWrite') = Len(themeWrite) + 1 /\ lost' = lost
            /\ lost = 0 /\ ShownOrToCome /\ writeChain[1].change.key = "filesSort" =>
                  lookOf(settings', fontSize') = lookOf(settings, fontSize)
        BY <3>2, WriteShown DEF SaveWrites
      <4>2. writeChain[1].change.key = "filesSort"
        BY <1>6, <3>0, <4>1
      <4> QED BY <2>3, <4>1, <4>2
    <3>3. ASSUME NEW n \in DOMAIN writeChain, SaveFails(n) PROVE FALSE
      BY <2>3, <3>0, <3>3 DEF SaveFails, RequestLost
    <3>4. ASSUME NEW n \in DOMAIN themeWrite, ThemeReads(n) \/ applyStoredTheme(n)
          PROVE  lost = 0 /\ settings' = settings /\ fontSize' = fontSize
      BY <2>3, <3>4 DEF ThemeReads, applyStoredTheme
    <3>5. ASSUME NEW n \in DOMAIN themeWrite, ThemeFails(n) PROVE FALSE
      BY <2>3, <3>0, <3>5 DEF ThemeFails, RequestLost
    <3> QED BY <1>1, <3>1, <3>2, <3>3, <3>4, <3>5 DEF PrefsAnswer
  <2>4. ShownOrToCome /\ LookTold => LookTold'
    BY <2>1, <2>3 DEF LookTold
  <2> QED BY <2>2, <2>4
<1> QED BY <1>5, <1>6

\* The requests under way and the counters of the bounds.
LEMMA BoundsKept ==
    ASSUME WorkTold, [Next]_vars
    PROVE  /\ locks' \subseteq [doc : Docs, value : BOOLEAN] /\ opens' \subseteq Docs
           /\ acts' \in 0 .. MaxActs /\ pulls' \in 0 .. MaxPulls
<1>1. /\ acts \in Nat /\ acts <= MaxActs /\ MaxActs \in Nat
      /\ pulls \in Nat /\ pulls <= MaxPulls /\ MaxPulls \in Nat
      /\ locks \subseteq [doc : Docs, value : BOOLEAN] /\ opens \subseteq Docs
      /\ page.currentId \in Docs
  BY WorkbenchBounds, OnPage DEF WorkTold
<1>2. CASE User
  <2>1. acts' = acts + 1 /\ acts < MaxActs /\ pulls' = pulls
    BY <1>2 DEF User, Acts, Act, SwitchView, ToggleSide, ToggleStatus, EntersFullscreen, LeavesFullscreen,
              openSearch, ToggleSearch, OutsideClick, closeSearch, Searches, Type, Replaces, undo,
              EditMap, JumpFromMap, openBuiltin, closeBuiltin, AskLock, switchDocument,
              ChangeSetting, ColorSchemeFlips
  <2>2. \/ locks' = locks
        \/ \E to \in BOOLEAN : locks' = locks \cup {[doc |-> page.currentId, value |-> to]}
    BY <1>2 DEF User, Acts, Act, SwitchView, ToggleSide, ToggleStatus, EntersFullscreen, LeavesFullscreen,
              openSearch, ToggleSearch, OutsideClick, closeSearch, Searches, Type, Replaces, undo,
              EditMap, JumpFromMap, openBuiltin, closeBuiltin, AskLock, switchDocument,
              ChangeSetting, ColorSchemeFlips
  <2>3. opens' = opens \/ \E d \in Docs : opens' = opens \cup {d}
    BY <1>2 DEF User, Acts, Act, SwitchView, ToggleSide, ToggleStatus, EntersFullscreen, LeavesFullscreen,
              openSearch, ToggleSearch, OutsideClick, closeSearch, Searches, Type, Replaces, undo,
              EditMap, JumpFromMap, openBuiltin, closeBuiltin, AskLock, switchDocument,
              ChangeSetting, ColorSchemeFlips, Stored
  <2> QED BY <1>1, <2>1, <2>2, <2>3
<1>3. CASE Answers
  <2>1. /\ acts' = acts /\ locks' \subseteq locks /\ opens' \subseteq opens
        /\ pulls' = pulls \/ (pulls < MaxPulls /\ pulls' = pulls + 1)
    BY <1>3 DEF Answers, Answer, Attach, GuideOpens, GuideFails, SettingsAnswer, LockAnswers,
                LockFails, DocumentOpens, OpeningFails, Pull
  <2> QED BY <1>1, <2>1
<1>4. CASE UNCHANGED vars
  BY <1>1, <1>4 DEF vars
<1> QED BY <1>2, <1>3, <1>4 DEF Next

WorkInv == PrefsTypeOK /\ WInv /\ ShownOrToCome /\ LookTold /\ WorkTold

\* The menu bar of which the first render knows nothing yet is replaced when the
\* children are attached.
LEMMA MenuReplaced ==
    ASSUME NEW p \in Page, NEW ds
    PROVE  attachChildren([p EXCEPT !.menu = None], ds) = attachChildren(p, ds)
<1> DEFINE q == [p EXCEPT !.menu = None]
<1>1. /\ q.activeView = p.activeView /\ q.centerMode = p.centerMode /\ q.currentId = p.currentId
      /\ q.editor = p.editor /\ q.draft = p.draft /\ q.builtIn = p.builtIn
      /\ q.fullscreen = p.fullscreen /\ q.sideOpen = p.sideOpen /\ q.bottomOpen = p.bottomOpen
  BY DEF Page
<1>2. ASSUME NEW m, NEW rail, NEW side, NEW status
      PROVE  [q EXCEPT !.menu = m, !.rail = rail, !.side = side, !.status = status, !.attached = TRUE]
             = [p EXCEPT !.menu = m, !.rail = rail, !.side = side, !.status = status, !.attached = TRUE]
  BY DEF Page
<1> HIDE DEF q
<1>3. /\ value(q) = value(p) /\ locked(q, ds) = locked(p, ds)
  BY <1>1 DEF value, locked, currentLocked
<1>4. SideOf(q) = SideOf(p) /\ StatusOf(q, ds) = StatusOf(p, ds)
  BY <1>1, <1>3 DEF SideOf, StatusOf
<1>5. attachChildren(q, ds) = attachChildren(p, ds)
  BY <1>1, <1>2, <1>3, <1>4 DEF attachChildren
<1> QED BY <1>5 DEF q

\* The page of the first render, with yes and no for the truth values: the provers
\* compare such records only if they take these for values like any other.
FirstPage(d, text, sort, menu, yes, no) ==
    [centerMode |-> "editor", activeView |-> FILES_VIEW, sideOpen |-> yes,
     bottomOpen |-> yes, fullscreen |-> no, currentId |-> d, draft |-> text,
     builtIn |-> no, opening |-> no, pendingBuiltin |-> no,
     searchOpen |-> no, searchSpec |-> None, filesSort |-> sort,
     editor |-> None, mind |-> no, menu |-> menu, rail |-> FILES_VIEW,
     side |-> None, status |-> None, attached |-> no, strayed |-> {}, misled |-> no]

LEMMA FirstMenu ==
    ASSUME NEW d, NEW text, NEW sort, NEW menu
    PROVE  [FirstPage(d, text, sort, menu, TRUE, FALSE) EXCEPT !.menu = None]
           = FirstPage(d, text, sort, None, TRUE, FALSE)
<1>1. ASSUME NEW yes, NEW no
      PROVE  [FirstPage(d, text, sort, menu, yes, no) EXCEPT !.menu = None]
             = FirstPage(d, text, sort, None, yes, no)
  BY DEF FirstPage
<1>2. PICK yes, no : yes = TRUE /\ no = FALSE
  OBVIOUS
<1>3. [FirstPage(d, text, sort, menu, yes, no) EXCEPT !.menu = None]
      = FirstPage(d, text, sort, None, yes, no)
  BY <1>1
<1> QED BY <1>2, <1>3

LEMMA InitPage ==
    ASSUME Init
    PROVE  PageTold /\ LookTold
<1> DEFINE look == lookOf(settings, fontSize)
           first(d, sort, menu) == FirstPage(d, docs[d].text, sort, menu, TRUE, FALSE)
           blank == [open |-> FALSE, shown |-> FALSE, query |-> "blank", count |-> None,
                     readOnly |-> FALSE, builtIn |-> FALSE, fullscreen |-> FALSE]
<1>1. PICK d \in Docs, sort \in IF settings = None THEN FilesSort ELSE {settings.filesSort} :
         page = attachChildren(mountEditor(first(d, sort, None), docs, look), docs)
  BY DEF Init, FirstPage
<1>2. sort \in FilesSort
  BY DEF Init, PrefsInit, Settings
<1>3. /\ docs \in [Docs -> Status \cup {None}]
      /\ \A i \in Docs : docs[i] \in Status /\ docs[i].text.of = i /\ docs[i] # None
  <2>1. \A i \in Docs : [of |-> i, n |-> 0] \in Text
    BY WorkbenchBounds DEF Text
  <2>2. \A i \in Docs : [text |-> [of |-> i, n |-> 0], readOnly |-> FALSE] \in Status
    BY <2>1 DEF Status
  <2> QED BY <2>2, NoneIsNothing DEF Init
<1>4. look \in Look
  <2>1. settings \in Settings \cup {None} /\ fontSize \in FontSize
    BY SizesKnown DEF Init, PrefsInit, Settings
  <2> QED BY <2>1, LookTyped
<1>5. blank \in Menu /\ blank.count = None
  BY DEF Menu, Query
<1>6. PICK menu \in Menu : menu = blank /\ menu.count = None
  BY <1>5
<1> HIDE DEF look, blank
<1> DEFINE p == first(d, sort, menu)
<1>7. /\ p \in Page /\ p.editor = None /\ p.draft = docs[d].text /\ p.currentId = d
      /\ p.strayed = {} /\ p.centerMode = "editor" /\ p.mind = FALSE /\ p.attached = FALSE
      /\ p.activeView = FILES_VIEW /\ p.fullscreen = FALSE /\ p.searchOpen = FALSE
      /\ p.menu.count = None
  <2>1. docs[d].text \in Text /\ FILES_VIEW \in View
    BY <1>3, ViewsKnown DEF Status
  <2>2. p \in Page
    BY <1>2, <2>1 DEF Page, FirstPage
  <2> QED BY <1>6, <2>2 DEF FirstPage
<1>8. FILES_VIEW # MINDMAP_VIEW
  BY ViewsKnown
<1>9. [p EXCEPT !.menu = None] = first(d, sort, None)
  BY FirstMenu
<1> HIDE DEF first
<1>10. Ready(p)
  BY <1>3, <1>7, <1>8 DEF Ready, value
<1> HIDE DEF p
<1> DEFINE m == mountEditor(p, docs, look)
<1>11. /\ Ready(m) /\ m.editor # None /\ m.editor.look = look
       /\ m.editor.readOnly = locked(m, docs)
       /\ m.strayed = p.strayed /\ m.currentId = p.currentId
       /\ m.centerMode = p.centerMode /\ m.mind = p.mind
       /\ m.attached = p.attached /\ m.misled = p.misled
  BY <1>4, <1>7, <1>10, MountReady
<1>12. mountEditor([p EXCEPT !.menu = None], docs, look) = [m EXCEPT !.menu = None]
  <2> DEFINE n == [p EXCEPT !.menu = None]
  <2>1. /\ n.builtIn = p.builtIn /\ n.draft = p.draft /\ n.opening = p.opening
        /\ n.pendingBuiltin = p.pendingBuiltin /\ n.currentId = p.currentId
    BY <1>7 DEF Page
  <2>2. ASSUME NEW e, NEW waits
        PROVE  [n EXCEPT !.editor = e, !.opening = waits, !.pendingBuiltin = FALSE]
               = [[p EXCEPT !.editor = e, !.opening = waits, !.pendingBuiltin = FALSE] EXCEPT !.menu = None]
    BY <1>7 DEF Page
  <2> HIDE DEF n
  <2>3. locked(n, docs) = locked(p, docs)
    BY <2>1 DEF locked, currentLocked
  <2>4. mountEditor(n, docs, look) = [m EXCEPT !.menu = None]
    BY <2>1, <2>2, <2>3 DEF mountEditor
  <2> QED BY <2>4 DEF n
<1> HIDE DEF m
<1>13. Sound(m, docs)
  BY <1>7, <1>11 DEF Sound, Centred, EditorTold, ChildrenTold, CounterTold
<1>14. page = attachChildren(m, docs)
  <2>1. m \in Page
    BY <1>11 DEF Ready
  <2>2. page = attachChildren(mountEditor([p EXCEPT !.menu = None], docs, look), docs)
    BY <1>1, <1>9
  <2> QED BY <1>12, <2>1, <2>2, MenuReplaced
<1>15. KeptBy(m, page, docs)
  BY <1>13, <1>14, Attached
<1>16. Sound(page, docs) /\ page.currentId = d
  BY <1>7, <1>11, <1>15 DEF KeptBy, KeptAt
<1>17. LookTold
  BY <1>11, <1>15 DEF KeptBy, KeptAt, LookTold, look
<1>18. Shelved(docs, page.strayed)
  BY <1>3 DEF Shelved
<1> QED BY <1>3, <1>16, <1>17, <1>18 DEF PageTold

\* The page the workbench starts with, and its settings.
LEMMA InitWorkInv == Init => WorkInv
<1> SUFFICES ASSUME Init PROVE WorkInv
  OBVIOUS
<1>1. WInv
  BY InitWInv
<1>2. PrefsTypeOK /\ ShownOrToCome
  <2>1. /\ stored \in Settings /\ settings \in Settings \cup {None} /\ fontSize \in FontSize
        /\ lost \in 0 .. MaxLost
    BY SizesKnown, PreferencesBounds DEF Init, PrefsInit, Settings
  <2>2. /\ writeChain = <<>> /\ themeWrite = <<>> /\ shell = stored.theme /\ asked = 0
        /\ lost = 0 => settings = stored /\ fontSize = stored.fontSize
    BY DEF Init, PrefsInit
  <2>3. shell \in Theme /\ asked \in 0 .. MaxChanges
    BY <2>1, <2>2, PreferencesBounds DEF Settings
  <2> QED BY <2>1, <2>2, <2>3 DEF PrefsTypeOK, ShownOrToCome
<1>3. WorkTold
  <2>1. MaxActs \in Nat /\ MaxPulls \in Nat
    BY WorkbenchBounds
  <2>2. locks = {} /\ opens = {} /\ acts = 0 /\ pulls = 0
    BY DEF Init
  <2> QED BY InitPage, <2>1, <2>2 DEF WorkTold
<1> QED BY <1>1, <1>2, <1>3, InitPage DEF WorkInv

LEMMA NextKeepsWorkInv == WorkInv /\ [Next]_vars => WorkInv'
<1> SUFFICES ASSUME WorkInv, [Next]_vars PROVE WorkInv'
  OBVIOUS
<1>1. PrefsTypeOK' /\ WInv' /\ ShownOrToCome'
  BY PrefsKept, NextKeepsWInv DEF WorkInv
<1>2. Looking
  BY LookTyped DEF WorkInv, PrefsTypeOK, Looking
<1>3. ASSUME WorkKept(docs') PROVE PageTold'
  BY <1>3 DEF WorkKept, KeptAt, PageTold
<1>4. ASSUME WorkKept(docs'), settings' = settings, fontSize' = fontSize, lost' = lost
      PROVE  LookTold'
  BY <1>4 DEF WorkInv, WorkKept, KeptAt, LookTold
<1>5. PageTold' /\ LookTold'
  <2>1. CASE User
    <3>1. WorkKept(docs')
      BY <1>2, <2>1, UserKeeps DEF WorkInv
    <3>2. settings' = settings /\ fontSize' = fontSize /\ lost' = lost
      BY <2>1 DEF User, Act, SwitchView, ToggleSide, ToggleStatus, EntersFullscreen, LeavesFullscreen,
              openSearch, ToggleSearch, OutsideClick, closeSearch, Searches, Type, Replaces, undo,
              EditMap, JumpFromMap, openBuiltin, closeBuiltin, AskLock, switchDocument,
              ChangeSetting, ColorSchemeFlips, Apply, prefs
    <3> QED BY <1>3, <1>4, <3>1, <3>2
  <2>2. CASE SettingsAnswer
    BY <2>2, SettingsKeep DEF WorkInv
  <2>3. CASE Answers /\ ~SettingsAnswer
    <3>1. WorkKept(docs')
      BY <1>2, <2>3, AnswersKeep DEF WorkInv
    <3>2. settings' = settings /\ fontSize' = fontSize /\ lost' = lost
      BY <2>3 DEF Answers, Answer, Attach, GuideOpens, GuideFails, LockAnswers,
                  LockFails, DocumentOpens, OpeningFails, Pull, prefs
    <3> QED BY <1>3, <1>4, <3>1, <3>2
  <2>4. CASE UNCHANGED vars
    BY <2>4 DEF vars, prefs, WorkInv, WorkTold, PageTold, LookTold
  <2> QED BY <2>1, <2>2, <2>3, <2>4 DEF Next
<1>6. WorkTold'
  BY <1>5, BoundsKept DEF WorkInv, WorkTold
<1> QED BY <1>1, <1>5, <1>6 DEF WorkInv

LEMMA WorkInvariant == Spec => []WorkInv
BY InitWorkInv, NextKeepsWorkInv, PTL DEF Spec

LEMMA WorkImplies == WorkInv => TypeOK /\ PageTellsTruth /\ NothingForeign
<1> SUFFICES ASSUME WorkInv PROVE TypeOK /\ PageTellsTruth /\ NothingForeign
  OBVIOUS
<1>1. Sound(page, docs) /\ Ready(page) /\ page \in Page /\ page.currentId \in Stored(docs)
      /\ docs \in [Docs -> Status \cup {None}]
  BY OnPage DEF WorkInv, WorkTold, PageTold, Sound, Stored
<1>2. TypeOK
  BY <1>1 DEF WorkInv, WorkTold, TypeOK, Status
<1>3. OneWriter
  BY <1>1 DEF OneWriter, Sound, Ready, Centred
<1>4. ChildrenAgree
  BY <1>1 DEF ChildrenAgree, Sound, ChildrenTold, EditorTold
<1>5. CounterAgrees
  BY <1>1 DEF CounterAgrees, Sound, CounterTold
<1>6. LooksAgree
  BY DEF WorkInv, LooksAgree, LookTold, SettingsAreShown, ShownOrToCome
<1>7. NothingForeign
  BY <1>1 DEF NothingForeign, Stored, WorkInv, WorkTold, PageTold, Shelved, Ready
<1> QED BY <1>2, <1>3, <1>4, <1>5, <1>6, <1>7 DEF PageTellsTruth

\* Type correctness of the page, its children, storage and the settings.
THEOREM WorkbenchTyped == Spec => []TypeOK
BY WorkInvariant, WorkImplies, PTL

\* Whatever handlers and answers came in between, the children that are there show
\* the page as it is: its lock, guide, view, document and text, the counter of its
\* search, and the settings (home.js, attachChildren, refreshChrome).
THEOREM PageStaysTrue == Spec => []PageTellsTruth
BY WorkInvariant, WorkImplies, PTL

\* No draft, no mounted editor and no stored document holds the text of another,
\* but for the documents that strayed by the two known ways.
THEOREM NothingComesForeign == Spec => []NothingForeign
BY WorkInvariant, WorkImplies, PTL
=============================================================================
