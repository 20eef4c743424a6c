------------------------------- MODULE Console -------------------------------
(***************************************************************************)
(* The console of the model REPL: the scrollback ring of                   *)
(* console_history.rs, the wrapping and scroll counting of status_bar.rs,  *)
(* and the output path of main.rs (console_output_utf16, paging, redraw,   *)
(* the status row above the text), written onto the firmware's text        *)
(* screen.  The program keeps its own idea of what the screen shows and    *)
(* never reads the screen back.                                            *)
(*                                                                         *)
(* A unit is a character or one of BS, CR, LF.  Every character takes one  *)
(* cell, as the program counts it; firmware that draws some of them two    *)
(* cells wide is outside this model.  Cells that were never written are    *)
(* Blank.  The firmware screen has one column more than the text is laid   *)
(* out for, and one row more, for the status.                              *)
(***************************************************************************)
EXTENDS Integers, SequencesExt

CONSTANTS
    Width,         \* columns of text (columns - 1 in configure)
    Rows,          \* rows of text (rows - 1)
    HistoryLines,  \* HISTORY_LINES
    Chars,         \* printable characters, Blank among them
    Blank,
    Texts,         \* sequences of units passed to console_output_utf16
    StatusLines    \* contents of the status row

BS == "BS"
CR == "CR"
LF == "LF"

Columns == 0 .. Width - 1
Lines == 0 .. HistoryLines - 1
BlankLine == [c \in Columns |-> Blank]

\* The ring holds 2048 lines, more than any text mode has rows; configure does not
\* compare the two.
ASSUME GeometryAssumption ==
    /\ Width \in Nat \ {0} /\ Rows \in Nat \ {0} /\ HistoryLines \in Nat
    /\ Rows <= HistoryLines
ASSUME CharsAssumption == Blank \in Chars /\ Chars \cap {BS, CR, LF} = {}
\* Inside a text LF comes after CR only: render_console_text and every record see
\* to it.  It is the first unit of a text when a token ended in CR (see Continues).
ASSUME TextsAssumption ==
    \A text \in Texts : /\ text \in Seq(Chars \cup {BS, CR, LF})
                        /\ \A i \in 2 .. Len(text) : text[i] = LF => text[i - 1] = CR
\* render_status_ascii fills the row, and writes no control characters.
ASSUME StatusAssumption == StatusLines \subseteq [Columns -> Chars]

VARIABLES
    hist,    \* ConsoleHistory
    screen,  \* the firmware's text screen
    status   \* STATUS_ROW

consoleVars == <<hist, screen, status>>

NewHistory == [cells       |-> [l \in Lines |-> BlankLine],
               lengths     |-> [l \in Lines |-> 0],
               head        |-> 0,
               count       |-> 1,
               column      |-> 0,
               view_offset |-> 0]

-----------------------------------------------------------------------------
(* ConsoleHistory.                                                          *)

\* Mutant: the fill reaches into the line behind the new one.
AdvanceLineFillsTwo(h) ==
    LET next == (h.head + 1) % HistoryLines
    IN  [h EXCEPT !.head = next,
                  !.count = IF h.count < HistoryLines THEN h.count + 1 ELSE h.count,
                  !.cells = [l \in Lines |-> IF l \in {next, (next + 1) % HistoryLines}
                                             THEN BlankLine ELSE h.cells[l]],
                  !.lengths[next] = 0,
                  !.column = 0]

advance_line(h) ==
    LET next == (h.head + 1) % HistoryLines
    IN  [h EXCEPT !.head = next,
                  !.count = IF h.count < HistoryLines THEN h.count + 1 ELSE h.count,
                  !.cells[next] = BlankLine,
                  !.lengths[next] = 0,
                  !.column = 0]

HistoryPut(h, unit) ==
    CASE unit = BS -> [h EXCEPT !.column = IF @ = 0 THEN 0 ELSE @ - 1]
      [] unit = CR -> [h EXCEPT !.column = 0]
      [] unit = LF -> advance_line(h)
      [] OTHER ->
            LET put == [h EXCEPT !.cells[h.head][h.column] = unit,
                                 !.lengths[h.head] = IF @ > h.column THEN @ ELSE h.column + 1,
                                 !.column = @ + 1]
            IN  IF put.column = Width THEN advance_line(put) ELSE put

\* write
HistoryWrite(h, units) ==
    LET after[i \in 0 .. Len(units)] ==
            IF i = 0 THEN h ELSE HistoryPut(after[i - 1], units[i])
    IN  after[Len(units)]

ViewportEnd(h) == IF h.count > h.view_offset THEN h.count - h.view_offset ELSE 0
ViewportStart(h) == IF ViewportEnd(h) > Rows THEN ViewportEnd(h) - Rows ELSE 0
viewport_len(h) == ViewportEnd(h) - ViewportStart(h)

\* The ring index of the logical line, 0 being the oldest one kept.
Physical(h, logical) ==
    LET oldest == (h.head + HistoryLines + 1 - h.count) % HistoryLines
    IN  (oldest + logical) % HistoryLines

viewport_line(h, row) ==
    LET line == Physical(h, ViewportStart(h) + row)
    IN  [c \in Columns |-> IF c < h.lengths[line] THEN h.cells[line][c] ELSE Blank]

viewport_cursor(h) ==
    LET last == viewport_len(h) - 1
        length == h.lengths[Physical(h, ViewportStart(h) + last)]
    IN  [column |-> IF h.view_offset = 0 THEN h.column
                    ELSE IF length < Width - 1 THEN length ELSE Width - 1,
         row |-> last]

PageUpOffset(h) ==
    LET maximum == IF h.count > Rows THEN h.count - Rows ELSE 0
    IN  IF h.view_offset + Rows < maximum THEN h.view_offset + Rows ELSE maximum

PageDownOffset(h) == IF h.view_offset > Rows THEN h.view_offset - Rows ELSE 0

-----------------------------------------------------------------------------
(* The firmware's screen (EFI_SIMPLE_TEXT_OUTPUT_PROTOCOL).                 *)

ScreenRows == 0 .. Rows
ScreenLine == [c \in 0 .. Width |-> Blank]
ClearScreen == [cells |-> [r \in ScreenRows |-> ScreenLine], column |-> 0, row |-> 0]
SetCursor(s, column, row) == [s EXCEPT !.column = column, !.row = row]

\* The cursor goes down one row; on the last one everything moves up instead,
\* the status row included.
LineDown(s) ==
    IF s.row < Rows
    THEN [s EXCEPT !.row = @ + 1]
    ELSE [s EXCEPT !.cells = [r \in ScreenRows |->
                                 IF r < Rows THEN s.cells[r + 1] ELSE ScreenLine]]

ScreenPut(s, unit) ==
    CASE unit = BS -> [s EXCEPT !.column = IF @ = 0 THEN 0 ELSE @ - 1]
      [] unit = CR -> [s EXCEPT !.column = 0]
      [] unit = LF -> LineDown(s)
      [] OTHER ->
            LET put == [s EXCEPT !.cells[s.row][s.column] = unit]
            IN  IF s.column < Width
                THEN [put EXCEPT !.column = @ + 1]
                ELSE LineDown([put EXCEPT !.column = 0])

OutputString(s, units) ==
    LET after[i \in 0 .. Len(units)] ==
            IF i = 0 THEN s ELSE ScreenPut(after[i - 1], units[i])
    IN  after[Len(units)]

-----------------------------------------------------------------------------
(* status_bar.rs and main.rs.                                               *)

\* Mutant: the last row is taken to have one below it.
CountScrollLate(at, unit) ==
    LET down(p) == IF p.row < Rows
                   THEN [p EXCEPT !.row = @ + 1]
                   ELSE [p EXCEPT !.scrolls = @ + 1]
    IN  CASE unit = BS -> [at EXCEPT !.column = IF @ = 0 THEN 0 ELSE @ - 1]
          [] unit = CR -> [at EXCEPT !.column = 0]
          [] unit = LF -> down(at)
          [] OTHER -> IF at.column + 1 < Width
                      THEN [at EXCEPT !.column = @ + 1]
                      ELSE down([at EXCEPT !.column = 0])

\* native_scrolls_for_output, one unit.
CountScroll(at, unit) ==
    LET down(p) == IF p.row + 1 < Rows
                   THEN [p EXCEPT !.row = @ + 1]
                   ELSE [p EXCEPT !.scrolls = @ + 1]
    IN  CASE unit = BS -> [at EXCEPT !.column = IF @ = 0 THEN 0 ELSE @ - 1]
          [] unit = CR -> [at EXCEPT !.column = 0]
          [] unit = LF -> down(at)
          [] OTHER -> IF at.column + 1 < Width
                      THEN [at EXCEPT !.column = @ + 1]
                      ELSE down([at EXCEPT !.column = 0])

native_scrolls_for_output(units, column, row) ==
    LET after[i \in 0 .. Len(units)] ==
            IF i = 0 THEN [column |-> column, row |-> row, scrolls |-> 0]
            ELSE CountScroll(after[i - 1], units[i])
    IN  after[Len(units)].scrolls

\* write_content_with_wrap, one unit: a character that fills the line is
\* followed by CR LF.  The runs of units it hands to OutputString do not matter.
WrapUnit(done, unit) ==
    LET put == ScreenPut(done.screen, unit)
    IN  CASE unit = BS -> [screen |-> put, column |-> IF done.column = 0 THEN 0 ELSE done.column - 1]
          [] unit = CR -> [screen |-> put, column |-> 0]
          [] unit = LF -> [screen |-> put, column |-> done.column]
          [] OTHER -> IF done.column + 1 < Width
                      THEN [screen |-> put, column |-> done.column + 1]
                      ELSE [screen |-> ScreenPut(ScreenPut(put, CR), LF), column |-> 0]

write_content_with_wrap(s, units, column) ==
    LET after[i \in 0 .. Len(units)] ==
            IF i = 0 THEN [screen |-> s, column |-> column]
            ELSE WrapUnit(after[i - 1], units[i])
    IN  after[Len(units)].screen

\* render_status_row leaves the cursor where it was.
PaintStatus(s, line) ==
    SetCursor(OutputString(SetCursor(s, 0, 0), [c \in 1 .. Width |-> line[c - 1]]),
              s.column, s.row)

redraw_console_history(h) ==
    LET cursor == viewport_cursor(h)
        drawn == [cells |-> [r \in ScreenRows |->
                               IF r \in 1 .. viewport_len(h)
                               THEN [c \in 0 .. Width |->
                                        IF c < Width THEN viewport_line(h, r - 1)[c] ELSE Blank]
                               ELSE ScreenLine],
                  column |-> cursor.column,
                  row |-> cursor.row + 1]
    IN  PaintStatus(drawn, status)

-----------------------------------------------------------------------------
(* Actions.                                                                 *)

\* initialize_model_status
ConsoleInit ==
    /\ hist = NewHistory
    /\ status \in StatusLines
    /\ screen = SetCursor(PaintStatus(ClearScreen, status), 0, 1)

\* console_output_utf16: back to the bottom, then history and screen.
Write(units) ==
    LET bottom  == [hist EXCEPT !.view_offset = 0]
        shown   == IF hist.view_offset # 0 THEN redraw_console_history(bottom) ELSE screen
        cursor  == viewport_cursor(bottom)
        written == write_content_with_wrap(SetCursor(shown, cursor.column, cursor.row + 1),
                                           units, cursor.column)
    IN  /\ hist' = HistoryWrite(bottom, units)
        /\ screen' = IF native_scrolls_for_output(units, cursor.column, cursor.row) = 0
                     THEN written ELSE PaintStatus(written, status)
        /\ UNCHANGED status

\* scroll_console_page
Page(up) ==
    LET offset == IF up THEN PageUpOffset(hist) ELSE PageDownOffset(hist)
    IN  /\ offset # hist.view_offset
        /\ hist' = [hist EXCEPT !.view_offset = offset]
        /\ screen' = redraw_console_history(hist')
        /\ UNCHANGED status

\* reset_console_history, for /new
ResetConsole ==
    /\ hist' = NewHistory
    /\ screen' = redraw_console_history(NewHistory)
    /\ UNCHANGED status

\* render_status_ascii
RenderStatus(line) ==
    /\ status' = line
    /\ screen' = PaintStatus(screen, line)
    /\ UNCHANGED hist

\* render_console_text puts CR in front of an LF unless the text before ended in CR.
\* That leaves the cursor in the first column, which is all that is asked here.
Continues(units) == units # << >> /\ units[1] = LF => hist.column = 0

ConsoleNext ==
    \/ \E units \in Texts : Continues(units) /\ Write(units)
    \/ \E up \in BOOLEAN : Page(up)
    \/ ResetConsole
    \/ \E line \in StatusLines : RenderStatus(line)

ConsoleSpec == ConsoleInit /\ [][ConsoleNext]_consoleVars

-----------------------------------------------------------------------------
(* Properties.                                                              *)

\* What the firmware shows is what the program believes it shows: the status
\* in the first row, below it the viewport of the scrollback, and the cursor
\* where the next character goes, although output is written incrementally,
\* the firmware scrolls by itself and the ring overwrites its oldest line.
ScreenShowsHistory ==
    /\ \A c \in Columns : screen.cells[0][c] = status[c]
    /\ \A row \in 0 .. Rows - 1, c \in Columns :
          screen.cells[row + 1][c] =
              IF row < viewport_len(hist) THEN viewport_line(hist, row)[c] ELSE Blank
    /\ screen.column = viewport_cursor(hist).column
    /\ screen.row = viewport_cursor(hist).row + 1

\* The lines kept, oldest first.
Kept(h) == [i \in 1 .. h.count |->
              [length |-> h.lengths[Physical(h, i - 1)], cells |-> h.cells[Physical(h, i - 1)]]]

\* new is old with lines added behind it.
LinesStay(old, new) ==
    LET added   == (new.head - old.head) % HistoryLines
        all     == old.count + added
        dropped == IF all > HistoryLines THEN all - HistoryLines ELSE 0
    IN  /\ new.count = all - dropped
        /\ IsPrefix(SubSeq(Kept(old), dropped + 1, old.count - 1), Kept(new))

\* Output changes the newest line and adds lines behind it (fewer than the
\* ring has); of the lines above it exactly as many are dropped, oldest first,
\* as do not fit any more, and the others stay as they were.
OldLinesStay == [][hist' = NewHistory \/ LinesStay(hist, hist')]_consoleVars
=============================================================================
