------------------------------ MODULE LiveInput ------------------------------
(***************************************************************************)
(* The line editor in front of the console: what the user sees of the line *)
(* that is being typed (the Output of model_repl.rs).                      *)
(***************************************************************************)
EXTENDS Console, EditorKeys

CONSTANT PromptText   \* what emit_prompt_ready leaves in front of the input

ASSUME LiveAssumption ==
    PromptText \in Seq(Chars) \ {<< >>} /\ Printable \subseteq Chars

liveVars == <<consoleVars, editorVars>>

\* Mutant: erasing only moves the cursor.
ShownMoves(call) ==
    CASE call.call = "live_ascii" -> call.line
      [] call.call = "erase_last" -> <<BS>>
      [] call.call \in {"accepted", "rejected"} -> <<CR, LF>>
      [] call.call = "prompt" -> PromptText

\* The units each call on the Output writes to the console; the reply to an
\* accepted line is left out.
Shown(call) ==
    CASE call.call = "live_ascii" -> call.line
      [] call.call = "erase_last" -> <<BS, Blank, BS>>
      [] call.call \in {"accepted", "rejected"} -> <<CR, LF>>
      [] call.call = "prompt" -> PromptText

LiveInit ==
    /\ EditorInit
    /\ status \in StatusLines
    /\ hist = HistoryWrite(NewHistory, PromptText)
    /\ screen = PaintStatus(write_content_with_wrap(SetCursor(ClearScreen, 0, 1), PromptText, 0),
                            status)

TypeKey(key) ==
    /\ ProcessKey(key)
    /\ LET made  == process_key(editor, key).calls
           units == FlattenSeq([i \in 1 .. Len(made) |-> Shown(made[i])])
       IN  IF units # << >> THEN Write(units) ELSE UNCHANGED consoleVars

LiveNext ==
    \/ \E key \in Keys : TypeKey(key)
    \/ \E up \in BOOLEAN : Page(up) /\ UNCHANGED editorVars

LiveSpec == LiveInit /\ [][LiveNext]_liveVars

-----------------------------------------------------------------------------

\* The cursor stands where the next character of the line belongs: behind the
\* prompt and the characters of the buffer, wrapped at the width of the text.
CursorMarksInput ==
    ~overflow /\ ~editor.discard /\ hist.view_offset = 0 =>
        screen.column = (Len(PromptText) + Len(editor.buffer)) % Width

\* The row of the cursor shows the prompt and the buffer and nothing else, and the
\* cursor stands behind them: an erased character is gone from the screen as it is
\* from the line.
RowShowsLine ==
    ~overflow /\ ~editor.discard /\ hist.view_offset = 0 =>
        LET text == PromptText \o editor.buffer
        IN  /\ screen.column = Len(text)
            /\ \A c \in Columns :
                  screen.cells[screen.row][c] = IF c < Len(text) THEN text[c + 1] ELSE Blank
=============================================================================
