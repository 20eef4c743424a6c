----------------------------- MODULE MCLiveInput -----------------------------
(* A one-character prompt.                                                  *)
EXTENDS LiveInput

MCPromptText == <<">">>
MCTexts == {<<"x">>}
MCStatusLines == {[c \in Columns |-> " "]}
=============================================================================
