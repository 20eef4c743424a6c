--------------------------- MODULE MCEngineClient ---------------------------
(* Every prompt of bounded length over two tokens, and one invalid token.   *)
EXTENDS EngineClient

CONSTANTS a, eos, bad, MaxPrompt

MCPrompts == UNION {[1 .. n -> {a, eos}] : n \in 0 .. MaxPrompt} \cup {<<a, bad>>}
=============================================================================
