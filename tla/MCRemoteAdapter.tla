--------------------------- MODULE MCRemoteAdapter ---------------------------
\* Two files, one of them in a directory, listed one to a page.
EXTENDS RemoteAdapter, TLC
CONSTANTS t1, t2, folder
MCDirOf == 1 :> None @@ 2 :> folder
=============================================================================
