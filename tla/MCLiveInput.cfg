\* Every sequence of seven keys, with paging in between; a line has at most two
\* characters and ends before the edge of the screen.
SPECIFICATION LiveSpec
CONSTANTS
    Width = 4
    Rows = 2
    HistoryLines = 3
    Chars = {"x", "y", ">", " "}
    Blank = " "
    Texts <- MCTexts
    StatusLines <- MCStatusLines
    Capacity = 2
    MaxIndex = 4
    Printable = {"x", "y"}
    MaxTyped = 7
    PromptText <- MCPromptText
INVARIANTS
    OneVerdictPerLine
    EchoIsBuffer
    RowShowsLine
CHECK_DEADLOCK FALSE
