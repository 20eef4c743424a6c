------------------------------- MODULE Editor -------------------------------
(***************************************************************************)
(* The line editor (editor.rs): one call of process_key per key stroke,    *)
(* with the calls it makes on its Output.                                  *)
(*                                                                         *)
(* A key is a printable character, CR, LF, BS or something the editor      *)
(* ignores.  The buffer is the used part of the array.                     *)
(***************************************************************************)
EXTENDS Integers, Sequences

CONSTANTS
    Capacity,   \* LINE_CAPACITY
    MaxIndex,   \* u64::MAX, the last prompt index
    Printable   \* printable characters

Enter == {"CR", "LF"}
Keys == Printable \cup Enter \cup {"BS", "ignored"}

ASSUME EditorAssumption ==
    /\ Capacity \in Nat
    /\ MaxIndex \in Nat \ {0}
    /\ Printable \cap (Enter \cup {"BS", "ignored", "none"}) = {}

VARIABLES
    editor,    \* Editor
    overflow   \* process_key returned PromptIndexOverflow

NewEditor == [buffer |-> << >>, prompt_index |-> 1, discard |-> FALSE, pending |-> "none"]

Result(e, made, flow) == [editor |-> e, calls |-> made, overflow |-> flow]

CallPrompt(index) == [call |-> "prompt", index |-> index, line |-> << >>]
CallAccepted(index, line) == [call |-> "accepted", index |-> index, line |-> line]
CallRejected(index) == [call |-> "rejected", index |-> index, line |-> << >>]
CallLive(key) == [call |-> "live_ascii", index |-> 0, line |-> <<key>>]
CallErase == [call |-> "erase_last", index |-> 0, line |-> << >>]

\* The second key of CR LF or LF CR belongs to the line end before it.
Paired(pending, key) ==
    \/ pending = "CR" /\ key = "LF"
    \/ pending = "LF" /\ key = "CR"

\* Mutant: the line is rejected again when it ends.
EndDiscardRejects(e, key) ==
    IF key \notin Enter
    THEN Result(e, << >>, FALSE)
    ELSE LET ended == [e EXCEPT !.discard = FALSE, !.pending = key]
         IN  IF e.prompt_index = MaxIndex
             THEN Result(ended, << >>, TRUE)
             ELSE Result([ended EXCEPT !.prompt_index = @ + 1],
                         <<CallRejected(e.prompt_index), CallPrompt(e.prompt_index + 1)>>, FALSE)

\* The end of a line that was too long.
EndDiscard(e, key) ==
    IF key \notin Enter
    THEN Result(e, << >>, FALSE)
    ELSE LET ended == [e EXCEPT !.discard = FALSE, !.pending = key]
         IN  IF e.prompt_index = MaxIndex
             THEN Result(ended, << >>, TRUE)
             ELSE Result([ended EXCEPT !.prompt_index = @ + 1],
                         <<CallPrompt(e.prompt_index + 1)>>, FALSE)

EndLine(e, key) ==
    LET cleared == [e EXCEPT !.buffer = << >>]
    IN  IF e.prompt_index = MaxIndex
        THEN Result(cleared, << >>, TRUE)
        ELSE Result([cleared EXCEPT !.prompt_index = @ + 1, !.pending = key],
                    <<CallAccepted(e.prompt_index, e.buffer), CallPrompt(e.prompt_index + 1)>>,
                    FALSE)

Backspace(e) ==
    IF e.buffer = << >>
    THEN Result(e, << >>, FALSE)
    ELSE Result([e EXCEPT !.buffer = SubSeq(@, 1, Len(@) - 1)], <<CallErase>>, FALSE)

\* Mutant: the echo reads the buffer one place too early.
InsertEchoesPrevious(e, key) ==
    IF Len(e.buffer) < Capacity
    THEN Result([e EXCEPT !.buffer = Append(@, key)],
                <<CallLive(IF e.buffer = << >> THEN key ELSE e.buffer[Len(e.buffer)])>>, FALSE)
    ELSE LET cleared == [e EXCEPT !.buffer = << >>]
         IN  IF e.prompt_index = MaxIndex
             THEN Result(cleared, << >>, TRUE)
             ELSE Result([cleared EXCEPT !.discard = TRUE],
                         <<CallRejected(e.prompt_index)>>, FALSE)

\* One character more than fits discards the whole line.
Insert(e, key) ==
    IF Len(e.buffer) < Capacity
    THEN Result([e EXCEPT !.buffer = Append(@, key)], <<CallLive(key)>>, FALSE)
    ELSE LET cleared == [e EXCEPT !.buffer = << >>]
         IN  IF e.prompt_index = MaxIndex
             THEN Result(cleared, << >>, TRUE)
             ELSE Result([cleared EXCEPT !.discard = TRUE],
                         <<CallRejected(e.prompt_index)>>, FALSE)

process_key(before, key) ==
    LET e == [before EXCEPT !.pending = "none"]
    IN  CASE Paired(before.pending, key) -> Result(e, << >>, FALSE)
          [] ~Paired(before.pending, key) /\ e.discard -> EndDiscard(e, key)
          [] ~Paired(before.pending, key) /\ ~e.discard /\ key \in Enter -> EndLine(e, key)
          [] ~e.discard /\ key = "BS" -> Backspace(e)
          [] ~e.discard /\ key \in Printable -> Insert(e, key)
          [] OTHER -> Result(e, << >>, FALSE)
=============================================================================
