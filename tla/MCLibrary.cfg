SPECIFICATION Spec
CONSTANTS
    t1 = t1
    t2 = t2
    a = a
    b = b
    untidy = untidy
    f1 = f1
    f2 = f2
    None = None
    Root = Root
    Tasks <- MCTasks
    Base <- MCBase
    sanitizePathSegment <- MCClean
    NewFolder = b
    NewTitle = a
    File <- MCFile
    Dir <- MCDir
    Name <- MCName
    DiskRoot = a
    Foreign <- MCForeign
    Start <- MCStart
    MaxOps <- MCMaxOps
    MaxFails <- MCMaxFails
    MaxDisk = 1
SYMMETRY Symmetry
INVARIANTS
    TypeOK
    FolderNamesUnique
PROPERTIES
    NothingVanishes
    DeletionIsExact
    ArrivalsKeepTheirPlace
CHECK_DEADLOCK FALSE
