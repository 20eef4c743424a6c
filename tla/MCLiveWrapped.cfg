\* Lines that reach the next row.
SPECIFICATION LiveSpec
CONSTANTS
    Width = 4
    Rows = 2
    HistoryLines = 3
    Chars = {"x", ">", " "}
    Blank = " "
    Texts <- MCTexts
    StatusLines <- MCStatusLines
    Capacity = 4
    MaxIndex = 5
    Printable = {"x"}
    MaxTyped = 6
    PromptText <- MCPromptText
INVARIANT
    CursorMarksInput
CHECK_DEADLOCK FALSE
