----------------------------- MODULE MCLibrary -----------------------------
(* Small instances of Library. *)
EXTENDS Library, TLC

CONSTANTS t1, t2, a, b, untidy, f1, f2

MCTasks == {t1, t2}
MCBase == {a, b, untidy}
MCClean == [x \in MCBase |-> IF x = untidy THEN b ELSE x]
MCFile == {f1, f2}
MCDir == (f1 :> <<>>) @@ (f2 :> <<b>>)
MCName == (f1 :> a) @@ (f2 :> b)
MCForeign == {<<a, b>>}

Doc(title, folder) == [title |-> Plain(title), folder |-> folder, origin |-> None, text |-> <<None, 0>>]
Folder(name, parent) == [name |-> Plain(name), parent |-> parent]
\* Nested folders with a document in the inner one; the disk folder, imported
\* before, with the picker or without; a folder with a name that the remote
\* cannot hold.
Nested(m) ==
    [manner |-> m, picker |-> TRUE,
     folders |-> (1 :> Folder(a, Root)) @@ (2 :> Folder(b, 1)),
     docs |-> (3 :> Doc(a, 2)) @@ (4 :> Doc(b, Root))]
FirstFile == [Doc(a, 1) EXCEPT !.origin = f1, !.text = <<f1, 0>>]
SecondFile == [Doc(b, 2) EXCEPT !.origin = f2, !.text = <<f2, 0>>]
ImportedBefore(m) ==
    [manner |-> m, picker |-> TRUE,
     folders |-> (1 :> Folder(a, Root)) @@ (2 :> Folder(b, 1)),
     docs |-> (3 :> FirstFile) @@ (4 :> SecondFile)]
ImportedByInput ==
    [manner |-> "calm", picker |-> FALSE,
     folders |-> (1 :> Folder(a, Root)) @@ (2 :> Folder(a, 1)),
     docs |-> (3 :> [FirstFile EXCEPT !.folder = 2])]
OddName(m) ==
    [manner |-> m, picker |-> TRUE,
     folders |-> (1 :> Folder(untidy, Root)), docs |-> (2 :> Doc(b, 1))]
MCStart == {Nested(m) : m \in Manner} \cup {ImportedBefore(m) : m \in Manner}
           \cup {OddName("calm"), ImportedByInput}

MCMaxOps == [calm |-> 2, hasty |-> 2]
MCMaxFails == [calm |-> 1, hasty |-> 0]

Symmetry == Permutations(MCTasks)
=============================================================================
