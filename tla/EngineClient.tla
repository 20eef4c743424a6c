---------------------------- MODULE EngineClient ----------------------------
(***************************************************************************)
(* A client that calls InferenceEngine in any order and with any           *)
(* arguments, valid or not, as the unit tests of inference.rs do.          *)
(***************************************************************************)
EXTENDS InferenceEngine

CONSTANTS
    InputTokens, \* token ids the client passes, valid or not
    Prompts,     \* the sequences of them it passes
    Prefixes,    \* prefix lengths it passes
    Reserves     \* generation reserves it passes

ASSUME ArgumentsAssumption ==
    /\ Prompts \subseteq Seq(InputTokens)
    /\ Prefixes \subseteq Nat
    /\ Reserves \subseteq Nat

ClientInit == engine = NewEngine

Prefill(tokens, reserve) ==
    \E outcome \in prefill(engine, tokens, reserve) : engine' = outcome.engine

PrefillWithPrefix(tokens, count, reserve) ==
    \E outcome \in prefill_with_prefix(engine, tokens, count, reserve) :
        engine' = outcome.engine

AppendPrefill(tokens, reserve) ==
    \E outcome \in append_prefill(engine, tokens, reserve) : engine' = outcome.engine

Decode(token, require_previous_greedy) ==
    \E outcome \in decode_inner(engine, token, require_previous_greedy) :
        engine' = outcome.engine

Reset == engine' = reset_state(engine)

ResetToPrefix == engine' = reset_to_prefix(engine)

ClientNext ==
    \/ \E prompt \in Prompts, reserve \in Reserves :
          \/ Prefill(prompt, reserve)
          \/ AppendPrefill(prompt, reserve)
          \/ \E count \in Prefixes : PrefillWithPrefix(prompt, count, reserve)
    \/ \E token \in InputTokens, greedy \in BOOLEAN : Decode(token, greedy)
    \/ Reset
    \/ ResetToPrefix

ClientSpec == ClientInit /\ [][ClientNext]_engine

=============================================================================
