# Parsinegar: formal specification

Parsinegar is a browser application for writing Persian Markdown. It keeps
its documents in browser storage and synchronises them, on request, with a git
or gitlab repository. This directory holds TLA+ specifications of the program,
TLC configurations that check them on small instances, and proofs for TLAPS.
Paths below are relative to the repository.

## The system

| Part | State it keeps | Operations | What makes it hard |
|---|---|---|---|
| `pey.sync` (`src/plugins/sync`) | stored: one backend (`sync_backends`), `sync_state` = snapshot, scope, last error, time; in memory: the context of a running round | `configureBackend`, `removeBackend`, `getStatus`, `hasPendingChanges`, `syncNow`, `resolveConflict` | many awaited requests per round; other devices write at any moment; a request fails after it took effect; the tab closes; conflicts are answered later, on a fresh plan; `sync_state` is read and then written whole |
| git and gitlab adapters (`src/plugins/sync/adapters`) | none between calls | `open`, `listFiles`, `readFile`, `writeFile`, `deleteFile` | a call is several HTTP requests; each has its own timer; a request given up may still be served |
| `pey.documents` (`src/plugins/documents`) | `documents` and `folders` collections | save, create, rename, move, lock, delete of documents; create, rename, delete of folders | every check (title taken, folder exists) is a read that is awaited before the write; a folder is deleted record by record |
| home page controllers (`src/ui/pages/home`) | current document, draft, autosave timer, armed deletions; for sync: busy flag, conflict queue, dirty flag; for the map: the tree and its id tables | open, switch, save, delete in two steps, import; run, resolve, put off; edits of the map | callbacks and debounced saves between awaits of one another |
| the page itself (`home.js`) and its children | which view, panel and search are open, the guide, the editor with its history | render, remount, refresh of single children | a render throws all children away and mounts them in two waves; most changes reach each child by a call of its own |
| `pey.settings`, `settings-applier.js` | one settings record; the applier's copy, the theme on the shell | read, save, apply | the record is read and written whole, several changes under way |
| editor (`src/ui/components/editor`) | text, lock, the cell being edited | list commands, renumbering, table cells | commands compute offsets on one version of the text and use them on another |
| `pey.filesystem` | nothing but handles the user picked | pick, read | two ways to read a folder give two kinds of paths |
| `pey.export`, app shell, dialogs | none | conversion to files; loading; rendering | pure conversions |

The parts interact so: the page calls the documents service and the sync
service through the plugin registry; both write the same browser storage, one
record per call, with no transaction. `sync-controller.js` flushes the draft of
the editor, calls `syncNow`, reloads the library, shows a modal prompt for the
conflicts of the report and calls `resolveConflict` once per answer. `syncNow`
collects the records, lists the remote through an adapter, reads what the
revision shortcut does not cover, plans with the pure `planSync`, applies, and
stores a new snapshot if nothing was left to ask. The repository is shared with
other devices, which run the same program, or git.

What each part must guarantee:

* planner: a three-way merge. It overwrites or deletes only a side that did
  not move, and asks when both moved.
* round: whatever happens between its requests, no version of a document that
  exists only here is lost, no version another device wrote is replaced unseen,
  and interrupted rounds are completed by later ones.
* resolution: an answer touches its own record, stays answered, and the two
  sides end up the same.
* adapters: a change reaches only the version it names, at most once, and every
  call comes back.
* documents and library: every document stays in the tree, siblings have
  different names, a deletion takes what was confirmed and nothing else, what is
  imported or pulled lands where it belongs.
* controllers: keystrokes reach the document they were typed in, and the sync
  button and its dot tell the truth.
* page: every child shows what the page holds; a setting is changed alone.
* mind map and list commands: the text says what the map shows; nothing is lost
  and the numbers count.

## Modules

| Module | Models | State and actions |
|---|---|---|
| `SyncPlan` | `sync-engine.js`: `planSync`, `snapshotDiff`; `hasPendingChanges` | operators only. `Pushes`, `Pulls`, `DropsLocal`, `Asks` are the branches for a path with a local record, `Arrives`, `DropsRemote`, `AsksGone` those for a remote file alone |
| `SyncPlanning` | one call of `planSync` | `snapshot`, `local`, `remote` are any input, `plan` the result |
| `SyncRound` | `syncNow` with `sync-round.js`, `sync-remote.js`, `sync-collect.js`, the snapshot in `sync-state.js`, the adapters as calls | one action per awaited call or write: `Collect`, `List`, `HashFile`, `Plan`, `Collide`, `Push`, `ReadBack`, `Pull`, `DeleteRemote`, `DeleteLocal`, `FinalizeClean`, `FinalizeAsking`; `…Refused` and `…Unanswered` for a changed file and a lost answer; `Fail`, `Reload`; the user's `Create`, `Edit`, `Move`, `Delete`; `ForeignWrite`, `ForeignDelete` |
| `SyncResolve` | `resolveConflict` and the prompt of `sync-controller.js`, over `SyncRound` | `AskUser`, `Resolve`, `Later`; `FindConflict`, `NoConflict`; `Keep…` for "mine", `TakeFile`, `PinTheirs`, `TakeDeletion` for "theirs"; `ResolvedLast`, `ResolvedOne`, `ResolveFail` |
| `SyncController` | `sync-controller.js`, the sync view's buttons, and everything of `sync-service.js` that writes `sync_backends` and `sync_state` | one document, so a plan is one decision; `calls` holds the operations under way in slots. The user begins them (`configureBackend`, `removeBackend`, `savePreference`, `beginNow`, `sendMessage`, `resolveConflict`, `later`, `Edit`), each as far as the rendered buttons allow; one action per awaited request runs one on, down to the refresh at its end and the chain of dirty checks (`turns`) |
| `FileStore` | what `adapters/README.md` asks of a backend | abstract: `Begin`, `Observe`, `Intend`, `Apply`, `Refuse`, `ApplyLate`, `Succeed`, `Mismatch`, `FailWith` |
| `RemoteAdapter` | `git-adapter.js`, `gitlab-adapter.js`, `shared.js` | a call is one request after another: `Begin`, the server's `Serve` and `TurnAway`, `HeadersArrive`, and what the adapter does with the reply (`open`, `collectDir`, `collectPage`, `readOne`, `assertUnchanged`, `Written`, `Deleted`, `failIfResponseDoes`, `TimesOut`); `ServeLate` for a request given up, `Foreign` for other devices, `Vanish` for a repository that is renamed, deleted or closed to this device, and comes back |
| `DocumentSession` | one tab: `document-controller.js` and the document part of `home.js`, over `documents-service.js`; a sync run as seen from the page | the page is `currentId`, `docTitle`, `draft`, `timer`, `editor`, `builtIn`; storage is `docs`; `calls` holds the operations under way. The user and the timer start them (`switchDocument`, `createDocument`, `renameDocument`, `Rewrite` for lock and move, `confirmDelete`, `runNow`, `FireTimer`) or change the page at once (`Type`, `openBuiltin`, `closeBuiltin`, `applySetting`, `mountEditor`); one action per awaited answer runs an operation on |
| `Library` | the folder half of `documents-service.js`, the operations of `document-controller.js` that use it, `disk-import.js`, `sync-paths.js` and the filing of a pulled record in `sync-remote.js` | an operation is a script of the controller (`task`) that awaits one call of the service after another (`call`), each a chain of storage requests: create, rename and delete of folders, create, move, delete and switch of documents, both confirmations, import of a file and of a folder, pull. `Fail` and `FailResolve` refuse a request, `Reload` closes the tab |
| `OrderedLists` | `computeNumbers` of `list-continue.js`, used by editor and map | operators only; `Follows` is the reference definition of a counted list |
| `MindmapEdit` | `mindmap.js`, `mindmap-edit.js` | operators only: which lines open an item and how deep (`Nesting`, `Depths`), and one operator per edit, on the raw indents |
| `MindMap` | `mindmap-host.js`, `mindmap-adapter.js` and the wiring of `home.js` | `text` is the draft, `shown` the library's tree, `pendingFresh` the table of fresh ids; one action per gesture, `refresh`, `healFonts`, `applyLayout`, `boot`, `ensureInstance`, `reloadLibrary` |
| `Preferences` | `settings-service.js`, `settings-applier.js`, the theme subscription of `main.js` | `stored`, the applier's `settings`, `fontSize` and `writeChain`, the `shell` and its chain of reads |
| `Workbench` | `home.js` with menu bar, rail, side panel and status bar, over `Preferences` | `page` is one record, and a handler a function from page to page, so that handlers compose as they do in the code; an action applies one and, where the code does, a page render: the editor or map is mounted with it, the other children by `attachChildren` a step later |
| `ListEdit`, `TableEdit` | `list-continue.js`, `toggle-mark.js`, `task-list.js`; `table-view.js` | operators only: the list commands on lines; the rows of a table as their tokens, and what the code takes for a cell of them |
| `Editor` | `markdown-view.js` with the above | `lines`, `grid`, the lock `locked`, `wired` (whether the cells shown were drawn editable), `cell` (the one being edited, with its source range), `stop` (the cursor in the table's source) |
| `MC…` | small instances | constants, symmetry, views |
| `…_proofs` | theorems and the lemmas they rest on | |

`SyncRound` and `SyncResolve` extend `SyncPlan`; the plan is computed by the same
operators that `SyncPlanning` checks on every input. The round sees an adapter
as a listing, a read and a conditional change that may be refused or whose answer may be
lost; that the two adapters are that is the refinement from `RemoteAdapter` to
`FileStore`. `SyncController` has what neither has: two operations at once, and
more than one repository. `Workbench` leaves to `DocumentSession` what is stored
and when, and to `MindMap` what an edit of the map does; `Library` leaves to
`DocumentSession` what is typed.

A definition whose name ends in `Bug` is the definition after it with one
plausible mistake. No specification uses one; `PROJECT.json` pairs each with a
property that fails when it takes the other's place, which shows that the
property says something about that line of code.

### What is abstracted

* A record is the path it travels to and its content. That two records may travel to one
  path is the switch `SharedPaths`; what sanitizing does to folder names is in `Library`.
* A hash is the content it was taken of. The FNV-1a hash has 32 bits, and a
  collision (an edit the sync does not notice) is outside the model.
* A revision is a git blob sha, hence also a name of the content. Two files
  with one content have one revision, as in git: a file changed to and fro
  between two steps looks unchanged. Gitlab's lock is the file's last commit, a
  number of its own (`RemoteAdapter`).
* The remote list of the app's one Markdown collection carries no record id.
* `Leave` forgets the context of a round; in the code it becomes garbage.
* Messages, counts in the report, times and events are not modelled.
* Pushes are applied in any order among themselves, and so are pulls and
  deletions; the code's order is the one of the listing, one of those. The
  four phases keep their order. `ReadBack` of gitlab is its own step, because
  another device may write before it.
* In `DocumentSession` a title is a number (1 is "untitled", *k* its *k*-th
  variant) and a text one of a few values. An operation sits in a slot and waits
  for one request; the answers of different slots come in any order. The list of
  documents and the list of folders, asked for one after the other, are one
  request. The sync run is reduced to what it does to storage: it pulls texts
  and new documents, of any title, then deletes, then the page reloads unless the
  run failed. Storage does not fail, and the page stays connected.
* In `Library` a name is a base and a counter, a text the disk file it was read
  of and its version; the dialog shows what the last page render gave it.
* Of two conflicts with one id, `resolveConflict` finds the first; which one is
  first depends on the order of paths and is left open.
* In `ListEdit` and `MindMap` a line is its indent, markers and topic; what the
  Markdown parser takes for an item is modelled from how the code relies on it.
  In `MindMap` the indent is the raw blank text, a sequence of tabs and pairs of
  spaces, since the edits cut and append characters while the parser counts columns;
  in `ListEdit` it is a number of tabs. A topic is plain text.
  Where the editor compares offsets, every outcome that some lengths of lines
  give is possible. In `TableEdit` a row is a sequence of words, pipes, backslashes and
  spaces: the parser ends cells at the pipes that no backslash escapes, and the
  code cuts its own ranges from what the parser says.
* In `RemoteAdapter` a repository that is gone answers every request for its
  files with a 404, as one without files does; the adapters do not tell the two
  apart. `SyncRound` meets it as `ForeignDelete` of every file, and its
  return as `ForeignWrite` of the same contents.
* In `Workbench` a text is a version of the text of one document or the guide's;
  the theme and the size stand for the settings the editor is made with, the
  order of the files for those it is not.

## Runs

| Run | Question | Bounds |
|---|---|---|
| `planning` | Is the plan a three-way merge, and where does the dirty dot agree with it? | every store of 3 records over 2 paths and 2 contents without a collision, every listing, every snapshot of at most 2 entries, also of vanished records and with unknown hashes: 1.2 million states. The call ends, so deadlock is not checked |
| `round` | Do rounds keep every version? | 3 records (two may take one path), 2 paths, 2 contents, both backends, any two edits between rounds, any two changes by other devices at any moment, one failure |
| `resolve` | Is an answered conflict settled, and which versions can be lost, whatever others write? | both backends, one edit, two changes elsewhere at any moment, one failure; the histories are compared only as the unions the properties look at |
| `resolve_live` | Do rounds, and answers, bring the sides together? | both backends, one edit and one change elsewhere at any moment, one failure; of four initial states that differ only in names, one |
| `session` | Does every text reach its own document, and no other? | 2 ids, 2 titles, 2 texts and the guide, pulls of either title, 2 operations at once, any 6 acts of a calm user and of other devices, or 4 with a hasty one. A session may stop anywhere, so deadlock is not checked |
| `controller` | Do dot, buttons and modals tell the truth, whatever overlaps? | 2 repositories, 2 versions of one document, 2 operations at once, any 6 acts of a calm user and of other devices, or 3 with another, failing requests at any step; storage may refuse the deletion of the state: 4 million states |
| `adapter` | Do both adapters implement the file store, and does every call come back? | 2 files, one in a directory, one to a page, 2 texts, any 2 calls one after the other; of commits, goings and comings of the repository 2 in all |
| `library` | Does every document keep its place, and does a deletion take what it names? | stores with nested folders, with the result of a former import by picker and by file input, and with a name the remote cannot hold; 2 operations at once, any 2 operations, one failure or closed tab for a calm user, one change of the disk |
| `mindmap` | Is every edit of the map the same edit of the text? | every list document of 2 or 3 lines, indented by tabs or by pairs of spaces, with two gestures, and of 4 lines, or 3 with empty topics and tasks, or with spaces that make no level, with one; 5 topics; drags of one or several nodes; rebuilds, pulls and font loads in between: 340,040 states |
| `workbench` | Does the page show what it holds? | 2 documents, the guide, 2 views and the map, any 3 acts and 2 sync runs, 2 changed settings, one request for them that fails: 3 million states |
| `editor` | Do list and table commands change only what they should? | every document of 3 lines of nine shapes, two commands; a table of 2 by 2, padded, unpadded, or with escaped pipes, four actions; a word, a pipe or a backslash typed at a time, in cells of at most 5 tokens; opened locked or not |
| `edits` | see *Disagreements* | as small as it needs |

All decisions of the planner concern one path, its record, its file and its
entry; the only link between paths is a record that moves from one to the other.
Two paths therefore show a move, a swap and a take-over, a third record the
document that is created where another one left, and two contents are enough
for "same as the base" and "different"; a conflict with three different contents
has the initial content absent or an unknown hash instead. Two changes elsewhere
are what it takes to change a file between the listing and the read of it and to
change it again before the write. `MaxEdits`, `MaxForeign` and `MaxFailures` are
the only bounds on behaviours; rounds may repeat for ever.

In `session` two documents are what it takes to save into the wrong one, two
texts to tell a document's own text from another's or a new one from an old
one, two slots for two requests to cross, and four acts cover, for example:
type, switch, type, run the sync. The *manner* of the user is a constant of
`session`, `controller` and `library`: a *calm* user waits until an operation has
ended (and, in the session, opens no guide); a *hasty* one does anything at any
time; a *fickle* one, in the controller, also removes the repository meanwhile.
Properties that hold only for one of them say so, since the code makes no attempt to order
overlapping operations.

In `controller` two repositories are what it takes to mix them up, one document
is enough because a plan decides path by path, and two operations show every
pair that may overlap. In `adapter` the page size of one puts a page boundary
between the two files, and the directory a request between them on git; two
calls let a late request of the first meet the second. In `library` three
levels (root, folder, folder in it) show a parent that goes before its child.
In `mindmap` four lines hold every way three nodes can hang below a root, and two
gestures let the first leave stale ids to the second; a pair of spaces is the
level of the program's own template (`home.js:42`), and makes none below a number. In `editor` three lines
give a run a start, a middle and an end, or two runs and what separates them.

The sync runs start from any store and any repository with no snapshot, the state
after a backend was configured; snapshots come about by clean rounds and
answers. Deadlock is checked in `round`, `edits`, `editor` and the runs of `SyncResolve`;
elsewhere the bounds end every behaviour.

### Fairness

`RFairSpec` has weak fairness of the steps of a round and of an answer: a request ends within 30
seconds (the adapters abort it), each step awaits the one before, and a user who
wants to be synchronised presses the button again. No fairness is assumed of the
user's edits, of other devices, or of failures, which are bounded in number. A
conflict which is shown again and again is assumed to be some time
answered "theirs". "Mine" alone is not enough: keep-mine of a record deleted
here throws (`sync-round.js:271`).

`Spec` of `RemoteAdapter` has weak fairness of the timer of each request (the
two values of `turn` tell one request's timer from the next one's, so that the
fairness of one is not spent on another) and of what the adapter does with a reply that
is there. Nothing is assumed of the network or the server, except that a body
follows its headers: the timer is cleared when `fetch` resolves, and
`response.json()` is awaited without one.

### What the properties say

* `PlanIsThreeWayMerge`, `TakeoverPushesOrAsks`: the planner against a reference
  definition, path by path. `PendingMatchesPlan`: while the remote is as the last
  clean round left it, the dirty dot shows what the next round would do, but for
  `Unseen`: a path taken over from another record with the very text it was
  synced with.
* `NoLocalVersionLost`: a step of the sync never removes or replaces a local
  record whose content was not, at its path, in the repository at some time.
* `RemoteOverwriteKnown`: it never replaces or deletes a remote file that differs
  from the base, but for two named cases: the path was taken over by another
  record, or the file was planned with another content than it was listed with
  (it changed between the listing and the read, or the hash is that of a
  revision gitlab read back).
* `BaseWasShared`: the snapshot holds only versions both sides had.
* `RevNamesHash` (git): the revision shortcut may stand in for a read.
* `Settles`: interrupted rounds, lost answers and half-applied plans leave nothing
  apart for good, but where a question is open, and but for a `Mispinned` path: the
  snapshot pins the revision of another device's version with the hash of this
  device's text, so that no round reads the file, until it or the record changes.
  That takes a write into a round, a resolution or an open prompt (`crossed`).
* `OnlyAnsweredVersionLost`: of the versions that were never in the repository the
  sync takes away only one that was answered "theirs", or one at a path whose file
  an answer about another record has deleted (`freed`). It holds as long as no other
  device has written from the start of the round that asks to the last answer
  (`crossed`); `OnlyNamedVersionsLost` is what holds whoever writes: a version is
  lost by an answer, or because the last answer advanced the snapshot over its
  planned push (`unsent`).
* `AnswerSticks`: the next round does not ask about an answered path, whatever
  others have written since. Excepted are `Shadowed`, an entry of a vanished record
  that comes before the pinned one, and `CameBack`, a file whose deletion was
  accepted and that is there again. `AnswersSettle`: rounds and answers bring
  the sides together, but at a `Mispinned` path.
* `DotTellsTruth`: when all is quiet, a green dot, or a button switched off
  because all is clean, means that nothing of this device is waiting to be sent.
* `ViewSettles`: when all is quiet, the controller is not busy, no button is
  disabled by a status read too early, and the modal is the one of its state.
* `RunsLoseNothing`: a run takes a version away only if the repository it is
  connected to has held it, or the user has accepted its deletion there, also
  after the repository was changed.
* `Contract`: `RemoteAdapter` implements `FileStore`, under the mapping that
  takes a request to the effect it asks for and the replies to what the call has seen.
  The files of the store are those this device can see: a repository that is gone
  is one whose files have all been deleted, for a 404 tells the adapters no more.
  `CallsEnd`: every call comes back.
* `OwnText`: however operations, autosaves and sync runs overlap, storage holds in
  a document only a text that was typed in it, made with it or pulled into it
  (or the guide). It relies on a save reading id, title and text at one moment,
  and on a switch unmounting the old editor before it adopts the new record.
* `KeptTyping`: whenever all is quiet, storage holds exactly what was last typed,
  made, pulled or deleted: no flush is missing and no save comes too late. What a
  document with a namesake had refused is not expected there (`Refused`).
* `TitlesUnique`: two documents come to share a title only when one of them is new
  and comes in by a sync run; nothing the page does makes namesakes, also not next
  to such a pair.
* `NothingVanishes`: no operation takes a document out of the tree the files
  view draws, unless a folder's deletion overlapped it.
* `FolderNamesUnique`: siblings have different names, unless two operations that
  make or rename folders overlapped.
* `DeletionIsExact`: the dialog's first Yes deletes what the dialog names, and a
  folder's deletion takes the folder, everything below it and nothing else.
* `ArrivalsKeepTheirPlace`: an import gives each file of the disk its document,
  with its text, in the folder of its directory (with the file input, of its
  directory below a second folder of the root's name), and moves nothing that was
  there; a pulled edit leaves its document where it is. Excepted is a store in which
  overlapping makers of folders have left two siblings of one name: a pulled edit
  then files its document into either. (The bound of the run is too small to reach that;
  it was met when the property was to be proved, and TLC shows it with four operations.)
* `EditsAreTheMaps`: while the ids stand for their lines, the document after an
  edit parses to the tree the map shows. Excepted are a drag of several nodes, which
  changes the map alone, and what is put below a node of a list indented by
  spaces. `EditsKeepTheList`: on whatever line an edit falls, the document loses
  no other line and stays counted; indented by tabs, it still maps.
* `PageTellsTruth`: the centre has one writer, every child shows the page's
  state, the search counter is that of the text on show, the editor looks as the
  settings say. `NothingForeign`: no text of another document or of the guide
  comes into a document, but in two ways that are known. `NoSettingReverts`: a
  write of the whole record changes the one setting it was asked to change.
* `EditsStayInPlace`: list commands lose, double and reorder no text, nothing is
  written under the lock, and an edited cell changes no other row. In its own row
  it changes its slot alone, to what was typed, as long as backslashes and pipes
  are `Separable`: no typed backslash escapes a pipe or what follows the cell, and the
  cell does not end in an escaped pipe.
  `RunsStayNumbered`: nesting and pasting keep a counted list counted.

`TypeOK` of each module also says what belongs together: a request exists exactly
during a call, a drawn cell's source range still holds what the cell showed, the
map's tree is a tree.

### Disagreements between the code and its documents

`edits` is a run TLC refutes with a short trace: an edit made while a round runs
becomes part of the snapshot without having been pushed; the next change
elsewhere is pulled over it (`sync-state.js:155`; "data is never lost",
`src/plugins/sync/docs/requirements.md:11`).

The others were found while modelling; the model has the step, and the property
next to it says under which condition it holds nevertheless. Sync:

* A record leaves a path, another moves to it, another device writes the path:
  the push goes over it without looking at the hash (`sync-engine.js:222`;
  `docs/userGuide.md:42`). Exception `TakenOver` of `RemoteOverwriteKnown`.
* A document is deleted and another one with the same text takes its path: the dot
  is green, for `snapshotDiff` compares hashes alone (`sync-engine.js:117`), while
  `planSync` pushes or asks (line 222); the comment at line 80 says the diff "is exactly
  the local pending set". This is `Unseen`.
* Gitlab's read-back after a write may find what another device wrote meanwhile
  (`gitlab-adapter.js:345`), and that revision is pinned with the hash of this device's
  text: the shortcut of the next rounds (`sync-round.js:69`) never reads the file, and
  the two versions stay apart, unseen, until one of them changes again. The last
  answer of a prompt does the same to a file whose pull or push it skips (next point).
  This is `Mispinned`.
* The last answer advances the whole snapshot although its plan also held pushes
  and pulls, which a resolution does not apply (`sync-service.js:209`; its comment
  takes the number of conflicts for all there is). Two conflicts are open, another
  device deletes the file of one, so that this one is now a push, and the user
  answers the other: the record counts as synced, and the next round,
  which finds no file for it, deletes it, though it was never in the repository. A pull
  that is skipped so stays unseen until the file changes again. TLC gives the trace when
  `OnlyAnsweredVersionLost` is checked without `~crossed`.
* A repository that was renamed, deleted or closed to the device answers 404, which
  both adapters take for an empty listing (`git-adapter.js:123`,
  `gitlab-adapter.js:240`), a missing file or a deletion that is done. The comment at
  `gitlab-adapter.js:242` trusts that `open()` has looked at the project, but `syncNow` never
  calls it: the round lists an empty repository without an error, and deletes the
  documents here that did not change since the last sync.
* A round that stops to ask has deleted the file a moved record left and keeps
  the old snapshot. When the answer is put off and the record moved back,
  the next round takes that deletion for another device's (`sync-round.js:234`).
  Keep-mine deletes the file at the record's former path even when another
  record was moved there and pushed since (`sync-round.js:279`); that one is
  deleted here a round later. In both cases the version was in the
  repository once, so the properties above let it go. Not so when the record
  at the former path is itself asked about: with its file gone its question has
  become a push, which the last answer then advances the snapshot over, and a
  round later a version that was never in the repository is deleted. It takes
  four records, three paths and five edits to get there, more than the run has; an
  attempt at the proof met it. It is the exception `freed` of
  `OnlyAnsweredVersionLost`.
* Two records moved onto paths whose former records were deleted are asked about
  for ever: the pinned entries come after the older ones, which the planner reads
  first (`sync-state.js:205`). This is `Shadowed`.
* A removal that overlaps a run or an answer, or whose second deletion fails,
  leaves a snapshot behind for the next repository (`sync-service.js:104`; FR-4).
* The timer of a request is cleared at its headers; a body that never ends hangs
  the operation, though `shared.js:4` says that none does. `CallsEnd` assumes it ends.
* A stale deletion is a network failure on git and a mismatch on gitlab.
* Taking the other side of a conflict whose other side is a deletion keeps the
  record and drops its entry (`sync-round.js:306`), but the last answer then writes
  the entry of every record anew (`sync-state.js:154`): the next run finds the file
  gone and the record unmoved, and deletes it. The model's `held` counts this as
  the user's choice.

Documents and library:

* An autosave pending when the guide is opened stores the guide in the user's
  document (`home.js:148`, against `home.js:913`); what is typed during a sync
  run is replaced by the reload at its end (`home.js:1054`, against
  `sync-controller.js:270`). `OwnText` excepts the guide, `KeptTyping` the user
  who does not wait.
* A second Yes while the first is awaited deletes the open document
  (`document-controller.js:412`). `DeletionIsExact` is about the first.
* A folder deletion that fails half-way leaves subfolders without a parent,
  whose documents no view shows; one that races a creation, move or pull does the
  same to those. A rename racing a deletion brings the folder back.
* `resolveFolderId` takes a failed read for a missing folder and files the
  document at the root.
* A pull takes the title from the file's name and asks nobody
  (`sync-remote.js:138`; `docs/reference.md:146` promises unique titles). From then on
  every autosave of either namesake is refused, which is only logged
  (`document-controller.js:152`): what is typed in them is lost at the next switch or
  reload. `TitlesUnique` names the pull, `KeptTyping` gives such a document up
  (`Refused`). A pull also drops the lock, the date and the origin of the record
  (`docs/reference.md:141`). A folder whose name the remote cannot hold is doubled by
  the first pull below it.
* In a browser without a directory picker a folder is imported one level deeper, into
  a second folder of its own name: the paths of the file input begin with the
  picked folder (`disk-import.js:88`), under which the page has already made a folder
  of that name. `docs/userGuide.md:38` promises "the same nesting", in both browsers
  alike; `Directory` says which folder it is.

Page, map and editor:

* The search toggle of the menu bar neither renders nor, when it closes, tells
  the page (`menu-bar.js:265`, against `menu-bar.md:30`); a page render loses the
  open form; the counter is stale while the guide is shown.
* Undo after a reload or after the guide brings back the text that was replaced
  (`home.js:1051`), and a render while the guide is open parks it as the draft;
  the answer of a lock may reach another document or the guide (`home.js:999`).
  These are `strayed` and `misled`.
* The status bar's counts are stale while the map is shown.
* An edit of the map appends a tab to the raw indent of a line
  (`mindmap-edit.js:174`, 203, 262, 355). In a list indented by two spaces, as is
  the program's own template (`home.js:42`), a tab reaches deeper than a level: a new
  child of the root comes to hang below the last deep node, while the map
  shows it under the root; below a number, whose text starts further in, a
  line may stop being an item, and with it the document a map. `EditsAreTheMaps`
  excepts these (`PutsBelow`).
* A drag of several nodes at once is no operation the adapter can describe
  (`mindmap-adapter.js:157`): the text stays, the map has moved already (`DragsSeveral`).
* The map's ids are stale after most edits that shift lines, and an edit the host
  vetoes leaves the map apart from the text; the next one then falls on another
  node's line, though `docs/decisions.md:68` says that no write ever falls on a
  line that is not proven. `EditsAreTheMaps` assumes fresh ids.
* The renumbering after an edit takes offsets of the old text into the new one
  (`list-continue.js:386`): deleting the first line of a list need not restart it
  at 1 (`CHANGELOG.md:100`), and may renumber another list.
* `escapeCellText` puts a backslash before every pipe, also one that has one
  (`table-view.js:392`): `\|`, typed or edited again, becomes `\\|`, a bare pipe; the
  cell splits, and a split header ends the table. `cellContentEnd` takes a pipe off the
  end of a cell also when it is escaped (line 377), so the edit leaves it behind, and a
  backslash typed at the end of a cell without padding joins it with the next. The
  comment at line 386 says that pipes are escaped so that the grid survives; it
  does when they are `Separable`. A table drawn under the lock stays read-only after it
  (line 447), and a lock that falls during an edit drops what was typed (line 484).
* "Pressing the same shortcut twice restores the original text"
  (`toggle-mark.js:3`) fails for tasks, for `*` bullets and for `##` headings.

## Proofs

TLAPS checks these for every set of ids, paths and contents, every order of the
storage and every bound.

* `SyncPlanning_proofs`: `PlanningTyped`, `PlanningMerges`, `TakeoversPushOrAsk`,
  `PendingIsPlanned`. `PlanningTyped` is proved and not in a run: the plans of the runs
  `round` and `resolve` have their type checked there. The invariant `IInv` says that
  the inputs keep their type, have no collision, and that `plan`, once there, is
  their plan; the properties are consequences of the definitions. `PendingIsPlanned`
  assumes only that the remote did not move, and names the takeovers the dot does
  not see. `SyncPlan_proofs` gives the lemmas: the first snapshot entry of a path
  exists (`SnapAtFound`, from the well-foundedness of the naturals), the plan is
  typed, and what each kind of item stands for.
* `SyncRound_proofs`: `RoundTyped` holds of `Spec` as it is. Type correctness is
  not inductive alone: a push writes `mine[item.id]`, which is a record only
  because the plan was made of `mine`, so `TInv` adds `PushesMine`.
* `SnapshotIsShared` (`BaseWasShared`) and `LocalVersionsKept`
  (`NoLocalVersionLost`) assume `EditsDuringRound = FALSE`. The run `edits` shows that they fail
  without it. Their invariant `SInv` adds to `TInv` that what the remote holds
  and what the round read was published, that the store is still what the round
  collected until it writes to it, that what the plan deletes locally was
  published, and that every record not yet published is planned for: it is
  pushed, pulled over with the same content, or asked about. From that, a clean
  end leaves no unpublished record, and the new snapshot is shared. `SInv` is
  `SInvIn(published)`, and `SInvIn` is proved to be kept for any set of known
  versions that only grows, for the sake of the resolutions.
* There also `RevisionsNameHashes` (`RevNamesHash`), on git and with
  `EditsDuringRound = FALSE`. Hash and revision meet only at the end of a round, so
  `RInv` adds to `SInv`, for git, that a path has one snapshot entry (the shortcut
  takes the last, the planner the first), that the hash a file is planned with is
  that of its newest known revision, that every record agrees with that revision
  or has an item of the plan before it, and that pulls and pushes meet at no path.
  On gitlab the property is excepted, for the revision is read back.
* `SyncRound_proofs` also has `OverwritesKnown` (`RemoteOverwriteKnown`), with edits
  during the round as well. A write is let through while the file has the known
  revision; `OInv` adds to `TInv` that this is the revision of the listed content
  until the round itself writes the path, and that it writes a path once.
* There, for resolutions, `ResolveTyped` (`RTypeOK`), `NamedVersionsLost`
  (`OnlyNamedVersionsLost`), with `EditsDuringRound = FALSE`, and `AnswersStick`
  (`AnswerSticks`), which assumes nothing. `QInv` adds to the types that a prompt,
  a conflict and a step of an answer go together (`Prompted`). For the lost versions
  `LInv` is the argument of the round with a larger set of known versions: those published,
  those given up and those taken for synced unsent; while an answer is applied, the
  records still open are planned for (`OpenIn`). For the answers, `AInv` says that a record has
  one entry (`OneEntryPerId`), that what was read was listed or is the base
  (`ReadOrBase`), and, from the pinning to the end, that the pinned entry comes
  after all others and agrees with file and record (`Answered`); a file that was not
  read is one whose revision some other entry has. The entries kept when one is pinned are
  a recursive function; what the proof needs of it (`EntriesButUnfolds` and what
  follows) comes from the least counterexample, not from induction.
* There also `AnsweredVersionsLost` (`OnlyAnsweredVersionLost`), with
  `EditsDuringRound = FALSE`, as long as nobody has `crossed`; without that it is false, by
  the trace above. What `OnlyNamedVersionsLost` leaves open is that the last answer skips no
  push but of a version that may go (`Excused`: published, answered "theirs", or at a path
  in `freed`). A plan pushes each record that differs from its file and is not asked
  about, so `EInv` follows which records those are, from the round that stops to the last
  answer. At the end of the round each record is as its file or asked about (`Applying`).
  While the prompt is open it is one of these, or had its file deleted by an answer
  (`Prompting`): so the plan of an answer pushes only versions that may go. While that
  answer is applied the other records stay so, and the plan still lists those that are
  asked about (`Resolving`), and its own record comes to agree with its file or is
  let go (`AnswerGiven`). Two facts carry it. What an answer pins or drops changes the
  first entry of a path only where that was the record's own, because the kept
  entries keep their order (`EntriesButInOrder`, `FirstStays`), so it starts or
  ends no other question. And a pinned revision is that of the pinned content, on gitlab
  too when nobody writes in between (`NamesHash`), so a round knows every file as it
  is (`Undisturbed`).
* `SyncController_proofs`: `ControllerTyped`, `PageSettles` (`ViewSettles`),
  `DotIsTrue` (`DotTellsTruth`) and `RunsAreSafe` (`RunsLoseNothing`), for any
  number of repositories, versions and operations under way. They share `TInv`:
  types, at which step an operation of which kind can be (`Fits`), and that the
  chain of checks is what its slots say. The first two promise something of moments
  at which all is quiet, so their invariants say who will yet bring it about:
  `VInv` who lets go of the busy flag (`BusyEnds`), of a busy status (`StatusEnds`) and
  of a modal (`ModalEnds`); `DInv` whose refresh tells what is stored (`SavedTold`),
  that a stored state goes with a repository (`SyncedTo`), and that what a check
  has read too early is read again (`StaleFollowed`, `PendingTold`). `HInv`, for
  runs, follows a base from the request that reads it to the one that writes it:
  that of a calm user is a version its repository has held (`BaseHeld`, with
  `Forgets` for the moment of a removal), so is what a call has in hand
  (`CallsHeld`), and no other operation is under way beside it (`OneAtATime`). TLC
  checked each of these before it was proved; it showed that the property was
  false as first stated, for the answer to a deletion named above, once the
  calm user had more acts than the run allowed then.
* `RemoteAdapter_proofs`: `AdapterTyped`, and `AdapterContract` (`Contract`), the
  refinement. `AInv` adds to the types that a request fits the call it belongs to, that a
  change is asked for once (`ChangesOnce`), that the lock a change names is of the version
  the call means to replace (`LocksHold`), that a reply not yet read tells what its request
  found (`RepliesTell`), and what a listing has still to see (`PagesToCome`, `DirsToCome`). The
  mapping takes a served read to `Observe`, a served change to `Apply` or `Refuse`, a late
  one to `ApplyLate` or `DropLate`; a late request of which an equal one is still on
  its way is a step of another device or a stutter, and `Vanish` is another device's
  change of all files at once. That GitLab's pages miss no
  file rests on the least path not yet seen, a minimum of a set of naturals: it
  comes from the well-foundedness of `<`. Assumed of the constants: paths are finitely
  many positive naturals, in the order GitLab lists them, a page holds at least one
  (`PathsOrdered`), and the markers are no data (`SentinelsApart`, `NoneIsNothing`).
* `DocumentSession_proofs`: `SessionTyped` and `OwnTextKept`, with no assumption but
  those of the module, for any number of documents, texts and operations at
  once. `OwnText` speaks of storage only; its invariant `OInv` follows each text
  on its way there: the text a save carries, the record an operation fetched, the
  list the reload read, the draft and the mounted editor each hold a text of the
  document whose id they go with. It is kept because texts had (`texts`) only
  grow, which lets one lemma (`CallKept`) carry every waiting operation over every
  step.
* There also `TypingKept` (`KeptTyping`) and `TitlesStayUnique` (`TitlesUnique`). Of a calm
  user one operation is under way at a time and the guide is closed, so `CalmInv` can say,
  step by step (`CalmCall`), where the latest text of every document is: stored,
  carried by that operation, or in the editor with the timer set (a save that a namesake
  refuses gives it up); that a new title it is about to write is still free; and that
  the list it goes on with is still what is stored.
* `Workbench_proofs`: `WorkbenchTyped`, `PageStaysTrue` (`PageTellsTruth`),
  `NothingComesForeign` (`NothingForeign`) and `WritesRevertNothing`
  (`NoSettingReverts`), for the whole workbench. For the last, `WInv` says that only
  the first of the chain of writes has read the record, and that what it has read
  is still stored; with writes that do not take turns it fails. For the others
  `WorkInv` adds, of the page: a ready page whose text is the open document's
  (`Ready`), the editor or the map in the centre (`Centred`), an editor that knows
  the lock (`EditorTold`), children and counter that agree with the page
  (`ChildrenTold`, `CounterTold`); and of storage that a document which has not strayed
  holds a text of its own (`Shelved`). Each handler is a function from
  page to page, so each has a lemma that it takes such pages to such pages
  (`Alike` and `Changed` say what most of them leave alone), and an action
  is a composition of them. The invariant had to be stronger than the properties
  in three places: the editor knows the lock even while the other children are not
  there, a count is there only while a search is, and the theme read last is the
  stored one.

* `Library_proofs`: `LibraryTyped`, `SiblingsDiffer` (`FolderNamesUnique`),
  `DocumentsStay` (`NothingVanishes`) and `DeletionsExact` (`DeletionIsExact`), for
  trees of any size and any number of operations at once. Assumed of the constants:
  names and sentinels are what they are taken for, and the page is opened on a store the
  program has written (`StartsKnown`). What is above and below a folder is computed round by
  round (`Reach`); that it is the least set closed under the links (`ReachLeast`) is
  proved without induction, by the least round at which the claim would fail, and
  by counting: a round that adds something follows a link no earlier one could. From it,
  walking up and walking down agree (`BelowIsAbove`). `Typed` is the type invariant, with what each call
  and script carries at which step; `Recorded` says that any two operations under
  way are among the `overlaps`, which is how the exceptions of the properties enter
  the proofs. `NamesApart` adds that who is about to write a folder has seen its
  name free and that a pull knows every folder. `Homes` adds that every document is
  in a folder that stands or in the root, that who is about to file one has found
  such a place, and that a deletion that drops folders has everything below them and
  every document in them in hand. `Dialog` says that what is shown is what is armed,
  unless it was just answered, and that one deletion is armed at a time; `Clearances` that what is
  left of the tree a deletion found is what it has still to delete.

Only model-checked: `ArrivalsKeepTheirPlace` of `Library` (the import compares the
tree it leaves with paths, a recursive function); the properties of `MindMap` and
`Editor`, whose operators are recursive functions and folds over lists and lines (what
those compute for every input needs induction over data); and the liveness
properties (`Settles`, `AnswersSettle`, `CallsEnd`): fairness is out of the prover's
reach, and so is ENABLED.

The assumptions on constants are named where they are declared, and TLC
evaluates each in the runs.

## Not modelled, and why

* Export: a pure conversion of texts and one download; it writes nothing the
  program reads again. The filesystem service keeps drafts of disk files in storage, which
  no part of the page reads or writes; what its two ways of reading a folder give is
  in `Library`.
* The decorations, previews, folding and search of the editor, inline marks,
  the default commands of CodeMirror: views of a third-party editor's state.
  Typing inside a line concerns no list or table command.
* Layout, zoom and selection of the map; drag widths, scrolling and focus of the page.
* The application shell loads plugins once in a fixed order; dialogs are open or not.
* Other tabs of the same browser, which share its storage.
* External packages (plugin runtime, storage, CodeMirror, the mind map library).

Worth doing next: `DocumentSession` composed with `SyncRound` in place of its
abstract run (what a failed run leaves in the editor); a property of one document
under overlapping writers; a property that nothing disappears here which nobody
deleted, with the two exceptions above; a proof of `ArrivalsKeepTheirPlace` as far as
it needs no induction over data.

## Running

    tlc -config MCSyncRound.cfg MCSyncRound
    tlapm SyncRound_proofs.tla

`PROJECT.json` lists the runs with their expected outcome, the hazards with the
properties that watch them, and for every definition the lines it models.
