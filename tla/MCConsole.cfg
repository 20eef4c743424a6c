\* Two text rows over four lines of history: the ring wraps and pages overlap.
\* Replies of five bytes in tokens of two.
SPECIFICATION MCSpec
CONSTANTS
    Width = 3
    Rows = 2
    HistoryLines = 4
    Chars = {"x", "y", " "}
    Blank = " "
    Texts <- MCTexts
    StatusLines <- MCStatusLines
    Bytes <- MCBytes
    PieceBytes = 2
    ReplyBytes = 5
INVARIANTS
    ScreenShowsHistory
    TextIsFaithful
PROPERTY
    OldLinesStay
CHECK_DEADLOCK FALSE
