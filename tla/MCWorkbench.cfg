CONSTANTS
    d1 = d1
    d2 = d2
    guide = guide
    light = light
    device = device
    updated = updated
    title = title
    None = None
    Docs = {d1, d2}
    Guide = guide
    View = {"files", "outline"}
    Theme = {light, device}
    Flips = {device}
    FilesSort = {updated, title}
    FONT_SIZE_MIN = 16
    FONT_SIZE_MAX = 17
    FONT_SIZE_DEFAULT = 16
    MaxVersion = 2
    MaxActs = 3
    MaxPulls = 2
    MaxChanges = 2
    MaxLost = 1
SPECIFICATION Spec
SYMMETRY Interchangeable
CHECK_DEADLOCK FALSE
INVARIANTS
    TypeOK
    PageTellsTruth
    NothingForeign
PROPERTY
    NoSettingReverts
