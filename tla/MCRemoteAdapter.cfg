CONSTANTS
    Paths = {1, 2}
    None = None
    Unseen = Unseen
    t1 = t1
    t2 = t2
    folder = folder
    DirOf <- MCDirOf
    Texts = {t1, t2}
    PageSize = 1
    MaxCalls = 2
    MaxCommits = 2
SPECIFICATION Spec
INVARIANT TypeOK
PROPERTIES Contract CallsEnd
CHECK_DEADLOCK FALSE
