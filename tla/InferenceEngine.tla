--------------------------- MODULE InferenceEngine ---------------------------
(***************************************************************************)
(* The token interface of InferenceEngine (promptboot-core, inference.rs): *)
(* prefill, prefill_with_prefix, append_prefill, decode, decode_selected,  *)
(* reset and reset_to_prefix over the KV cache and the retained prefix.    *)
(*                                                                         *)
(* One position of the KV cache holds the token that was evaluated there.  *)
(* What the forward pass computes is abstracted: it may fail at any token  *)
(* and it may select any token.  A call is an operator from the engine     *)
(* before it to the set of its outcomes, so that callers (ModelRepl) can   *)
(* run several calls in one step.                                          *)
(***************************************************************************)
EXTENDS Integers, Sequences

CONSTANTS
    Context,     \* CONTEXT_LIMIT: positions of the KV cache
    MaxTokens,   \* MAX_TOKENS: longest prefix that can be retained
    Vocab,       \* token ids below VOCAB_COUNT
    EosToken,    \* config().eos
    Selectable   \* tokens the argmax may select

ASSUME ContextAssumption == Context \in Nat \ {0}
ASSUME MaxTokensAssumption == MaxTokens \in Nat
ASSUME VocabAssumption == EosToken \in Vocab /\ Selectable \subseteq Vocab

VARIABLE engine

NoToken == "none"   \* a position never written, or no token selected
Torn == "torn"      \* a position some of whose layers were written

Positions == 0 .. Context - 1

EngineStates == {"RESET", "READY", "EOS", "FAULTED"}

\* InferenceEngine::build
NewEngine == [state    |-> "RESET",
              position |-> 0,
              reserve  |-> 0,
              emitted  |-> 0,
              selected |-> NoToken,
              prefix   |-> << >>,
              kv       |-> [i \in Positions |-> NoToken]]

Ok(e) == [ok |-> TRUE, engine |-> e]
Refused(e) == [ok |-> FALSE, engine |-> e]

-----------------------------------------------------------------------------
(* Resets.                                                                  *)

reset_state(e) == [NewEngine EXCEPT !.kv = e.kv]

\* Keeps the retained prefix when the state is one it can be trusted in.
PrefixUsable(e) ==
    /\ e.prefix # << >>
    /\ \/ e.state = "RESET" /\ e.position = Len(e.prefix)
       \/ e.state \in {"READY", "EOS"} /\ e.position \in Len(e.prefix) .. Context

reset_to_prefix(e) ==
    IF PrefixUsable(e)
    THEN [reset_state(e) EXCEPT !.position = Len(e.prefix), !.prefix = e.prefix]
    ELSE reset_state(e)

-----------------------------------------------------------------------------
(* Evaluation of tokens.                                                    *)

fault(e) == [e EXCEPT !.state = "FAULTED", !.prefix = << >>]

\* Mutated form of Evaluated: the position moves on before the write.
EvaluatedAfterAdvance(e, tokens, n) ==
    [e EXCEPT !.position = e.position + n,
              !.kv = [i \in Positions |->
                         IF i \in e.position + 1 .. e.position + n
                         THEN tokens[i - e.position]
                         ELSE e.kv[i]]]

\* The first n of the tokens evaluated: each is written to the KV cache at the
\* position it is evaluated at, and the position moves on.
Evaluated(e, tokens, n) ==
    [e EXCEPT !.position = e.position + n,
              !.kv = [i \in Positions |->
                         IF i \in e.position .. e.position + n - 1
                         THEN tokens[i - e.position + 1]
                         ELSE e.kv[i]]]

\* evaluate fails at one of the tokens, before or after part of its keys and
\* values are written; the position stays at that token.
EvaluationFaults(e, tokens) ==
    UNION {{fault(Evaluated(e, tokens, n)),
            fault([Evaluated(e, tokens, n) EXCEPT !.kv[e.position + n] = Torn])} :
                n \in 0 .. Len(tokens) - 1}

\* publish_step: a non-finite logit, or the argmax of the logits.
Published(e) ==
    {Refused(fault(e))} \cup
    {Ok([e EXCEPT !.selected = token,
                  !.state = IF token = EosToken THEN "EOS" ELSE "READY"]) :
        token \in Selectable}

prefill_inner(e, tokens, reserve, append) ==
    IF \/ reserve \notin 1 .. Context
       \/ tokens = << >>
       \/ ~append /\ Len(tokens) >= Context
       \/ e.position + Len(tokens) + reserve > Context
       \/ \E i \in 1 .. Len(tokens) : tokens[i] \notin Vocab
    THEN {Refused(e)}
    ELSE LET begun == [e EXCEPT !.reserve = reserve, !.emitted = 0]
             done  == [Evaluated(begun, tokens, Len(tokens)) EXCEPT !.emitted = 1]
         IN  {Refused(f) : f \in EvaluationFaults(begun, tokens)} \cup Published(done)

prefill(e, tokens, reserve) ==
    IF e.state # "RESET"
    THEN {Refused(e)}
    ELSE prefill_inner(e, tokens, reserve, FALSE)

append_prefill(e, tokens, reserve) ==
    IF e.state \notin {"READY", "EOS"}
    THEN {Refused(e)}
    ELSE prefill_inner(e, tokens, reserve, TRUE)

\* The retained prefix is the beginning of this prompt, ready to be continued.
PrefixMatches(e, tokens, count) ==
    /\ e.state = "RESET"
    /\ e.position = Len(e.prefix)
    /\ count = Len(e.prefix)
    /\ e.prefix = SubSeq(tokens, 1, count)

\* Mutated form of prefill_with_prefix: another prefix is not cleared first.
PrefillWithoutClearing(e, tokens, count, reserve) ==
    IF count = 0 \/ count >= Len(tokens) \/ count > MaxTokens
    THEN {Refused(reset_state(e))}
    ELSE {IF outcome.ok
          THEN Ok([outcome.engine EXCEPT !.prefix = SubSeq(tokens, 1, count)])
          ELSE outcome : outcome \in prefill(e, tokens, reserve)}

prefill_with_prefix(e, tokens, count, reserve) ==
    CASE count = 0 \/ count >= Len(tokens) \/ count > MaxTokens ->
            {Refused(reset_state(e))}
      [] OTHER ->
            CASE e.prefix # << >> /\ PrefixMatches(e, tokens, count) ->
                    prefill_inner(e, SubSeq(tokens, count + 1, Len(tokens)), reserve, TRUE)
              [] e.prefix # << >> /\ e.state # "RESET" ->
                    {Refused(reset_state(e))}
              [] OTHER ->
                    LET start == IF e.prefix # << >> THEN reset_state(e) ELSE e
                    IN  {IF outcome.ok
                         THEN Ok([outcome.engine EXCEPT !.prefix = SubSeq(tokens, 1, count)])
                         ELSE outcome : outcome \in prefill(start, tokens, reserve)}

\* Mutated form of decode_inner: the budget admits one prediction more.
DecodeOneMore(e, token, require_previous_greedy) ==
    IF \/ e.state \in {"FAULTED", "RESET"}
       \/ require_previous_greedy /\ (e.state = "EOS" \/ token # e.selected)
       \/ token \notin Vocab
       \/ e.emitted > e.reserve
       \/ e.position >= Context
    THEN {Refused(e)}
    ELSE Published([Evaluated(e, <<token>>, 1) EXCEPT !.emitted = e.emitted + 1])

\* decode requires the previous greedy selection, decode_selected does not.
decode_inner(e, token, require_previous_greedy) ==
    IF \/ e.state \in {"FAULTED", "RESET"}
       \/ require_previous_greedy /\ (e.state = "EOS" \/ token # e.selected)
       \/ token \notin Vocab
       \/ e.emitted >= e.reserve
       \/ e.position >= Context
    THEN {Refused(e)}
    ELSE {Refused(f) : f \in EvaluationFaults(e, <<token>>)} \cup
         Published([Evaluated(e, <<token>>, 1) EXCEPT !.emitted = e.emitted + 1])

-----------------------------------------------------------------------------
(* Properties.                                                              *)

Tokens == Vocab \cup {NoToken, Torn}

Engines == [state    : EngineStates,
            position : 0 .. Context,
            reserve  : 0 .. Context,
            emitted  : 0 .. Context,
            selected : Vocab \cup {NoToken},
            prefix   : Seq(Vocab),
            kv       : [Positions -> Tokens]]

\* The engine's fields keep their ranges: position and budget never run past
\* CONTEXT_LIMIT, and no cache position holds an id the checks should refuse.
EngineTypeOK == engine \in Engines

\* The retained prefix is what the KV cache really holds in front of the
\* position: no refusal, fault, reset or overwritten position in between lets
\* prefill_with_prefix continue on other tokens than the ones it compares.
PrefixBacked ==
    engine.prefix # << >> =>
        /\ engine.state # "FAULTED"
        /\ Len(engine.prefix) <= engine.position
        /\ \A i \in 1 .. Len(engine.prefix) : engine.kv[i - 1] = engine.prefix[i]

\* While the engine can decode, the predictions still allowed fit behind the
\* position: decode is stopped by its budget, never by the end of the cache
\* (the position >= CONTEXT_LIMIT error is unreachable).
BudgetFits ==
    engine.state \in {"READY", "EOS"} =>
        /\ engine.emitted \in 1 .. engine.reserve
        /\ engine.position + (engine.reserve - engine.emitted) < Context

\* Every position in front of the current one was completely evaluated, unless
\* the engine faulted: nothing attends to a torn or unwritten key.
NoHoles ==
    engine.state # "FAULTED" =>
        \A i \in 0 .. engine.position - 1 : engine.kv[i] \in Vocab
=============================================================================
