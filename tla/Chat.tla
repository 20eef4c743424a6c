-------------------------------- MODULE Chat --------------------------------
(***************************************************************************)
(* What the REPL promises its user about the conversation: a turn either   *)
(* adds the question and a complete reply to the history, or leaves the    *)
(* history alone; history is dropped only on request or when a question no *)
(* longer fits behind it.                                                  *)
(***************************************************************************)
EXTENDS Integers, Sequences

CONSTANTS Context, Reserve, SystemMessage, UserOpen, UserClose, UserTexts,
          EosToken, EndOfText

VARIABLES history, question, phase

chatVars == <<history, question, phase>>

\* The tokens of a question asked after this history.
Asked(past, text) ==
    (IF past = << >> THEN SystemMessage ELSE past) \o UserOpen \o text \o UserClose

Fits(past, text) == Len(Asked(past, text)) < Context

\* after continues before with a reply that holds one stop token, at its end.
Answers(before, after) ==
    /\ Len(after) \in Len(before) + 1 .. Len(before) + Reserve
    /\ SubSeq(after, 1, Len(before)) = before
    /\ \A i \in Len(before) + 1 .. Len(after) - 1 : after[i] \notin {EosToken, EndOfText}
    /\ after[Len(after)] = EosToken

Init == history = << >> /\ question = << >> /\ phase = "idle"

Ask ==
    /\ phase = "idle"
    /\ phase' = "asked"
    /\ question' \in UserTexts
    /\ UNCHANGED history

\* Only a question that does not fit behind the history but fits alone.
Forget ==
    /\ phase = "asked"
    /\ history # << >>
    /\ ~Fits(history, question)
    /\ Fits(<< >>, question)
    /\ history' = << >>
    /\ UNCHANGED <<question, phase>>

Answer ==
    /\ phase = "asked"
    /\ Fits(history, question)
    /\ Answers(Asked(history, question), history')
    /\ phase' = "answered"
    /\ UNCHANGED question

\* The turn is over, with or without an answer.
End ==
    /\ phase # "idle"
    /\ phase' = "idle"
    /\ question' = << >>
    /\ UNCHANGED history

New ==
    /\ phase = "idle"
    /\ history' = << >>
    /\ UNCHANGED <<question, phase>>

Next == Ask \/ Forget \/ Answer \/ End \/ New

Spec == Init /\ [][Next]_chatVars
=============================================================================
