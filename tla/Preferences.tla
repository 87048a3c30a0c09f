---------------------------- MODULE Preferences ----------------------------
(***************************************************************************)
(* The settings: the service that keeps them in one stored record, the     *)
(* applier through which the page changes them, and the entry point that   *)
(* puts the stored theme on the shell whenever a record was written.       *)
(*                                                                         *)
(* The applier runs its writes one after the other, and so does the entry  *)
(* point its reads.  A write is a read of the whole record and a write of  *)
(* it; each is a storage request that may fail.  Of the settings, theme    *)
(* and fontSize stand for those the mounted editor is made with, filesSort *)
(* for those it is not.                                                    *)
(***************************************************************************)
EXTENDS Integers, Sequences

CONSTANTS
    Theme, FilesSort,
    FONT_SIZE_MIN, FONT_SIZE_MAX, FONT_SIZE_DEFAULT,
    None,
    MaxChanges,         \* bound: settings changed
    MaxLost             \* bound: failed storage requests

FontSize == FONT_SIZE_MIN .. FONT_SIZE_MAX
Settings == [theme : Theme, fontSize : FontSize, filesSort : FilesSort]
\* What the user asks for: a step of the size, or a value of another field.
Change == [key : {"theme"}, value : Theme] \cup [key : {"fontSize"}, value : {-1, 1}]
          \cup [key : {"filesSort"}, value : FilesSort]

ASSUME SizesKnown ==
    /\ FONT_SIZE_MIN \in Int /\ FONT_SIZE_MAX \in Int /\ FONT_SIZE_DEFAULT \in FontSize
ASSUME NoneIsNoSetting == None \notin Settings \cup Theme
ASSUME PreferencesBounds == MaxChanges \in Nat /\ MaxLost \in Nat

VARIABLES
    stored,     \* storage: the record, as sanitizeSettings returns it
    settings,   \* the applier: the record it read or wrote last
    fontSize,   \* the applier: the size the editor is mounted with
    writeChain, \* the applier: changes not yet answered, [change, patch, read];
                \* patch and read are None until the change has its turn
    shell,      \* the theme on the shell
    themeWrite, \* reads of the theme under way: what each will answer, None
                \* while it is not yet asked
    asked,      \* bound: changes so far
    lost        \* bound: requests that failed so far

prefs == <<stored, settings, fontSize, writeChain, shell, themeWrite, asked, lost>>

\* The theme is on the shell; the record was loaded, or could not be read and the
\* fallbacks stay.
PrefsInit ==
    /\ stored \in Settings /\ shell = stored.theme
    /\ \/ settings = stored /\ fontSize = stored.fontSize /\ lost = 0
       \/ settings = None /\ fontSize = FONT_SIZE_DEFAULT /\ lost = 1 /\ MaxLost > 0
    /\ writeChain = <<>> /\ themeWrite = <<>> /\ asked = 0
-----------------------------------------------------------------------------
(* The applier *)

\* applyChange, applyStep, saveFilesSort and the like.
Apply(change) ==
    /\ asked < MaxChanges /\ asked' = asked + 1
    /\ writeChain' = Append(writeChain, [change |-> change, patch |-> None, read |-> None])
    /\ UNCHANGED <<stored, settings, fontSize, shell, themeWrite, lost>>

\* Changes are written as they come, not in turn.
TurnBug(n) == n \in DOMAIN writeChain
Turn(n) == n = 1 /\ writeChain # <<>>

\* The size is known only when the change has its turn.
patchOf(change) ==
    IF change.key = "fontSize" THEN [key |-> "fontSize", value |-> fontSize + change.value]
    ELSE change

\* A size is not checked.
validatePatchBug(patch) == TRUE
validatePatch(patch) == patch.key = "fontSize" => patch.value \in FontSize
Patched(record, patch) == [record EXCEPT ![patch.key] = patch.value]

Answered(n) == SubSeq(writeChain, 1, n - 1) \o SubSeq(writeChain, n + 1, Len(writeChain))
RequestLost == lost < MaxLost /\ lost' = lost + 1

\* saveSettings: the patch is checked, and the record read.
SaveReads(n) ==
    /\ Turn(n) /\ writeChain[n].read = None
    /\ LET patch == patchOf(writeChain[n].change)
       IN  writeChain' = IF ~validatePatch(patch) THEN Answered(n)
                         ELSE [writeChain EXCEPT ![n].patch = patch, ![n].read = stored]
    /\ UNCHANGED <<stored, settings, fontSize, shell, themeWrite, asked, lost>>

\* Written, published, and taken over by the applier.
SaveWrites(n) ==
    /\ Turn(n) /\ writeChain[n].read # None
    /\ LET next == Patched(writeChain[n].read, writeChain[n].patch)
       IN  /\ stored' = next /\ settings' = next
           /\ fontSize' = IF writeChain[n].change.key = "filesSort" THEN fontSize ELSE next.fontSize
    /\ writeChain' = Answered(n)
    /\ themeWrite' = Append(themeWrite, None)
    /\ UNCHANGED <<shell, asked, lost>>

SaveFails(n) ==
    /\ Turn(n) /\ RequestLost /\ writeChain' = Answered(n)
    /\ UNCHANGED <<stored, settings, fontSize, shell, themeWrite, asked>>
-----------------------------------------------------------------------------
(* The entry point *)

ThemeTurn(n) == n = 1 /\ themeWrite # <<>>

ThemeDone(n) == SubSeq(themeWrite, 1, n - 1) \o SubSeq(themeWrite, n + 1, Len(themeWrite))

ThemeReads(n) ==
    /\ ThemeTurn(n) /\ themeWrite[n] = None
    /\ themeWrite' = [themeWrite EXCEPT ![n] = stored.theme]
    /\ UNCHANGED <<stored, settings, fontSize, writeChain, shell, asked, lost>>
applyStoredTheme(n) ==
    /\ ThemeTurn(n) /\ themeWrite[n] # None
    /\ shell' = themeWrite[n] /\ themeWrite' = ThemeDone(n)
    /\ UNCHANGED <<stored, settings, fontSize, writeChain, asked, lost>>
ThemeFails(n) ==
    /\ ThemeTurn(n) /\ RequestLost /\ themeWrite' = ThemeDone(n)
    /\ UNCHANGED <<stored, settings, fontSize, writeChain, shell, asked>>

PrefsAnswer ==
    \/ \E n \in DOMAIN writeChain : SaveReads(n) \/ SaveWrites(n) \/ SaveFails(n)
    \/ \E n \in DOMAIN themeWrite : ThemeReads(n) \/ applyStoredTheme(n) \/ ThemeFails(n)
-----------------------------------------------------------------------------
PrefsTypeOK ==
    /\ stored \in Settings /\ settings \in Settings \cup {None} /\ fontSize \in FontSize
    /\ writeChain \in Seq([change : Change, patch : Change \cup {None} \cup
                              [key : {"fontSize"}, value : FontSize],
                           read : Settings \cup {None}])
    /\ shell \in Theme /\ themeWrite \in Seq(Theme \cup {None})
    /\ asked \in 0 .. MaxChanges /\ lost \in 0 .. MaxLost

\* A write changes the one setting it was asked to change and reverts no other,
\* though it writes the whole record it read before; a step moves the size the
\* user saw by one: "Rapid writes serialize ... instead of racing on stale
\* reads" (settings-applier.js).
NoSettingReverts ==
    [][stored' # stored =>
         \E n \in DOMAIN writeChain :
            LET change == writeChain[n].change IN
            /\ stored' = [stored EXCEPT ![change.key] =
                             IF change.key = "fontSize" THEN fontSize + change.value
                             ELSE change.value]
            /\ writeChain' = Answered(n)]_prefs

\* When all is answered and no read was lost, the shell and the editor show the
\* stored settings.
SettingsAreShown ==
    writeChain = <<>> /\ themeWrite = <<>> /\ lost = 0 =>
        /\ settings = stored /\ shell = stored.theme /\ fontSize = stored.fontSize
=============================================================================
