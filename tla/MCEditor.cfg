CONSTANTS
    x1 = x1
    x2 = x2
    x3 = x3
    pasted = pasted
    w1 = w1
    w2 = w2
    None = None
    Pipe = Pipe
    Slash = Slash
    Space = Space
    Word = w1
    Texts <- MCTexts
    Starts <- MCStarts
    Clipboard <- MCClipboard
    Columns = 2
    MaxLines = 6
    MaxIndent = 2
    MaxHead = 4
    MaxCell = 5
SPECIFICATION Spec
INVARIANTS
    TypeOK
PROPERTIES
    EditsStayInPlace
    RunsStayNumbered
