------------------------------ MODULE MCConsole ------------------------------
(***************************************************************************)
(* The way of a reply to the screen, on small instances: output that       *)
(* fills, wraps, erases and ends lines, and the text of tokens cut         *)
(* anywhere.  The console knows nothing of bytes and the decoder nothing of *)
(* the screen, so a behaviour moves only one of them.                      *)
(***************************************************************************)
EXTENDS Console, TokenText

\* The last two are the text of a token that ends in CR and of the one behind it.
MCTexts == {<<"x">>, <<BS, " ", BS>>, <<CR, LF>>, <<"y", "y", "x", CR>>, <<LF, "y">>}
MCStatusLines == {[c \in Columns |-> "x"], [c \in Columns |-> IF c = 0 THEN "y" ELSE " "]}

\* NUL, both line ends, the edges of every row of the table of well-formed
\* sequences, and bytes that occur in none.
MCBytes == {0, 10, 13, 128, 143, 144, 159, 160, 191, 193, 194, 224, 225, 237, 240, 241, 244, 245}

VARIABLE moves   \* the part that moves: "console" or "text"

MCInit ==
    /\ ConsoleInit /\ TextInit /\ moves \in {"console", "text"}
    /\ moves = "text" => status = CHOOSE line \in StatusLines : TRUE

MCNext ==
    \/ moves = "console" /\ ConsoleNext /\ UNCHANGED <<textVars, moves>>
    \/ moves = "text" /\ TextNext /\ UNCHANGED <<consoleVars, moves>>

MCSpec == MCInit /\ [][MCNext]_<<consoleVars, textVars, moves>>
=============================================================================
