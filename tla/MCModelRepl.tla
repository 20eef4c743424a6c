----------------------------- MODULE MCModelRepl -----------------------------
(* One-token template parts; the user's lines and the reply share tokens.   *)
EXTENDS ModelRepl

CONSTANTS sys, usr, asst, a, b, end, eot

MCSystemMessage == <<sys>>
MCUserOpen == <<usr>>
MCUserClose == <<asst>>
MCUserTexts == {<< >>, <<a>>, <<a, b, a, b, a, b, a, b>>}
=============================================================================
