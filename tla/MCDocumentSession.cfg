SPECIFICATION Spec
CONSTANTS
    d1 = d1
    d2 = d2
    s1 = s1
    s2 = s2
    blank = blank
    sample = sample
    guide = guide
    Ids <- MCIds
    MaxTitle = 2
    Texts <- MCTexts
    Blank = blank
    Sample = sample
    Guide = guide
    None = None
    Slots <- MCSlots
    Manners = {"calm", "hasty"}
    MaxActs <- MCMaxActs
SYMMETRY Symmetry
CHECK_DEADLOCK FALSE
INVARIANTS
    TypeOK
    OwnText
    KeptTyping

    
