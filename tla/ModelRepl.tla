------------------------------ MODULE ModelRepl ------------------------------
(***************************************************************************)
(* The conversation controller of the model REPL (model_repl.rs) with the  *)
(* history rules of promptboot-core (lib.rs), the conversation template of *)
(* the tokenizer and the commit of repl_contract.rs, on top of             *)
(* InferenceEngine.                                                        *)
(*                                                                         *)
(* The controller is one thread; a step runs it from one point where the   *)
(* outside world can intervene (a key, a failing device, a failing         *)
(* evaluation) to the next.  committed[..committed_len] and the used part  *)
(* of working are the sequences committed and working; fill(0) empties     *)
(* them.  Text is abstracted: a token is text that completes its UTF-8     *)
(* sequence, text that does not, or a stop token.                          *)
(***************************************************************************)
EXTENDS InferenceEngine

CONSTANTS
    Reserve,     \* GENERATION_RESERVE
    EndOfText,   \* END_OF_TEXT, the second stop token (EosToken is IM_END)
    SystemMessage, \* tokens of the template's system message
    UserOpen,    \* tokens between a finished message and the user's text
    UserClose,   \* tokens between the user's text and the reply
    UserTexts,   \* token sequences of the lines the user enters
    Sampled,     \* tokens the sampler may draw
    StatusEvery, \* tokens between two renderings of the status row (4)
    IoFaults     \* whether console, record, key and timer calls may fail: FALSE, TRUE or both

ASSUME ReserveAssumption == Reserve \in Nat \ {0} /\ StatusEvery \in Nat \ {0}
ASSUME TemplateAssumption ==
    /\ SystemMessage \in Seq(Vocab) \ {<< >>}
    /\ UserOpen \in Seq(Vocab) \ {<< >>}
    /\ UserClose \in Seq(Vocab) \ {<< >>}
    /\ UserTexts \subseteq Seq(Vocab)
    /\ Len(SystemMessage) + Len(UserOpen) <= MaxTokens
ASSUME SampledAssumption == Sampled \subseteq Vocab /\ EndOfText \in Vocab
ASSUME IoFaultsAssumption == IoFaults \subseteq BOOLEAN

VARIABLES
    committed,      \* tokens of the conversation so far
    cached_len,     \* how many of them the engine's KV cache still holds
    history_turns,  \* turns committed since the history was last empty
    working,        \* tokens of the turn under way
    pc,             \* where the controller is
    turn,           \* locals of accepted_turn and generate
    ioFaults        \* whether those calls may fail in this session

historyVars == <<committed, history_turns>>
replVars == <<engine, historyVars, cached_len, working, pc, turn, ioFaults>>

IM_END == EosToken
StopTokens == {IM_END, EndOfText}
PROMPT_LIMIT == Context - 1
Prefix == SystemMessage \o UserOpen

\* No turn: the values the locals start from.  error is "none", the code of a
\* recoverable error, or "FATAL" for one that ends the REPL.
NoTurn == [user |-> << >>, prompt_count |-> 0, append |-> FALSE, start |-> 0,
           limit |-> 0, generated |-> 0, previous |-> NoToken,
           incomplete |-> FALSE, committed |-> FALSE, interrupted |-> FALSE,
           error |-> "none", reported |-> FALSE]

ReplInit ==
    /\ engine = NewEngine
    /\ committed = << >>
    /\ cached_len = 0
    /\ history_turns = 0
    /\ working = << >>
    /\ pc = "idle"
    /\ turn = NoTurn
    /\ ioFaults \in IoFaults

\* reset_engine / reset_engine_fresh drop the cache with the engine's state.
ResetEngine == engine' = reset_to_prefix(engine) /\ cached_len' = 0
ResetEngineFresh == engine' = reset_state(engine) /\ cached_len' = 0

\* The turn goes on to label with these locals.
Continue(label, locals) == pc' = label /\ turn' = locals
Fail(locals, code) == [locals EXCEPT !.error = code]

-----------------------------------------------------------------------------
(* accepted_turn: from the entered line to the prompt.                      *)

\* The template around the user's text: a first prompt starts with the system
\* message, a later one continues the committed tokens after their IM_END.
Rendered(history, user) ==
    (IF history = << >> THEN SystemMessage ELSE history)
        \o UserOpen \o user \o UserClose

\* Mutated form of decide_history: a prompt of exactly the limit is refused.
DecideHistoryStrict(prospective, fresh) ==
    CASE prospective < PROMPT_LIMIT -> "Use"
      [] prospective >= PROMPT_LIMIT /\ committed # << >> /\ fresh < PROMPT_LIMIT -> "Reset"
      [] OTHER -> "Reject"

decide_history(prospective, fresh) ==
    CASE prospective <= PROMPT_LIMIT -> "Use"
      [] prospective > PROMPT_LIMIT /\ committed # << >> /\ fresh <= PROMPT_LIMIT -> "Reset"
      [] OTHER -> "Reject"

Decision == decide_history(Len(Rendered(committed, turn.user)),
                           Len(Rendered(<< >>, turn.user)))

\* accepted: the line is echoed and recorded before the turn begins.
Accept(user) ==
    /\ pc = "idle"
    /\ LET begun == [NoTurn EXCEPT !.user = user]
       IN  \/ Continue("tokenize", begun)
           \/ ioFaults /\ Continue("finish", Fail(begun, "FATAL"))
           \/ ioFaults /\ Continue("stopped", NoTurn)
    /\ UNCHANGED <<engine, historyVars, cached_len, working>>

\* validate_conversation_history
HistoryInvalid ==
    committed # << >> /\ (Len(committed) > Context \/ committed[Len(committed)] # IM_END)

\* The tokenizer refuses the line, or the history it is given.
TokenizeFails ==
    /\ pc = "tokenize"
    /\ Continue("finish", Fail(turn, IF HistoryInvalid THEN "HISTORY_STATE" ELSE "TOKENIZE"))
    /\ UNCHANGED <<engine, historyVars, cached_len, working>>

\* A prompt is recorded before generate is called with it.
PromptReady(prompt) ==
    /\ working' = prompt
    /\ \/ Continue("generate", [turn EXCEPT !.prompt_count = Len(prompt)])
       \/ ioFaults /\ Continue("finish", Fail(turn, "FATAL"))

UsePrompt ==
    /\ pc = "tokenize"
    /\ ~HistoryInvalid
    /\ Decision = "Use"
    /\ PromptReady(Rendered(committed, turn.user))
    /\ UNCHANGED <<engine, historyVars, cached_len>>

\* The conversation has no room for the prompt: emit_history_reset, then
\* reset_conversation_for_fresh_prompt, which keeps the engine's prefix unless
\* it is longer than the prompt.
ResetHistory ==
    /\ pc = "tokenize"
    /\ ~HistoryInvalid
    /\ Decision = "Reset"
    /\ LET fresh == Rendered(<< >>, turn.user)
           rewound == reset_to_prefix(engine)
       IN  \/ /\ engine' = IF rewound.position > Len(fresh)
                           THEN reset_state(rewound) ELSE rewound
              /\ cached_len' = 0
              /\ committed' = << >>
              /\ history_turns' = 0
              /\ PromptReady(fresh)
           \/ /\ ioFaults
              /\ working' = fresh
              /\ Continue("finish", Fail(turn, "FATAL"))
              /\ UNCHANGED <<engine, historyVars, cached_len>>

\* Even a fresh prompt is too long: emit_context_rejected, nothing changes.
RejectPrompt ==
    /\ pc = "tokenize"
    /\ ~HistoryInvalid
    /\ Decision = "Reject"
    /\ \/ Continue("finish", turn)
       \/ ioFaults /\ Continue("finish", Fail(turn, "FATAL"))
    /\ UNCHANGED <<engine, historyVars, cached_len, working>>

-----------------------------------------------------------------------------
(* generate.                                                                *)

\* Where evaluation starts: behind the cached conversation, behind the
\* retained prefix, or at the beginning; -1 when engine and history disagree.
AppendStart ==
    CASE /\ cached_len # 0
         /\ cached_len + 1 = Len(committed)
         /\ cached_len < Len(working)
         /\ engine.position = cached_len
         /\ SubSeq(working, 1, cached_len) = SubSeq(committed, 1, cached_len) -> cached_len
      [] /\ cached_len = 0
         /\ engine.position = Len(Prefix)
         /\ Len(Prefix) < Len(working) -> Len(Prefix)
      [] cached_len = 0 /\ engine.position = 0 -> 0
      [] OTHER -> -1

GenerationLimit ==
    IF Reserve < Context - Len(working) THEN Reserve ELSE Context - Len(working)

BeginGeneration ==
    /\ pc = "generate"
    /\ IF AppendStart = -1
       THEN /\ ResetEngineFresh
            /\ Continue("finish", Fail(turn, "HISTORY_STATE"))
            /\ UNCHANGED working
       ELSE /\ Continue("poll", [turn EXCEPT !.append = (cached_len # 0),
                                             !.start = AppendStart,
                                             !.limit = GenerationLimit])
            /\ UNCHANGED <<engine, cached_len, working>>
    /\ UNCHANGED historyVars

\* emit_generation_started fails.
StartRecordFails ==
    /\ pc = "generate"
    /\ AppendStart # -1
    /\ ioFaults
    /\ ResetEngine
    /\ working' = << >>
    /\ Continue("finish", Fail(turn, "FATAL"))
    /\ UNCHANGED historyVars

\* poll_generation_interrupt, before a token is computed and again after it.
Poll ==
    /\ pc \in {"poll", "poll_again"}
    /\ pc = "poll" => turn.generated < turn.limit
    /\ \/ Continue(IF pc = "poll" THEN "infer" ELSE "output", turn)
       \/ Continue("close", [turn EXCEPT !.interrupted = TRUE])
       \/ ioFaults /\ Continue("close", Fail(turn, "FATAL"))
    /\ UNCHANGED <<engine, historyVars, cached_len, working>>

\* The reply has used up its limit.
LimitReached ==
    /\ pc = "poll"
    /\ turn.generated >= turn.limit
    /\ Continue("close", turn)
    /\ UNCHANGED <<engine, historyVars, cached_len, working>>

\* Mutated form of EngineCall: appends behind committed_len, not cached_len.
EngineCallSkipsStop ==
    IF turn.generated > 0
    THEN decode_inner(engine, turn.previous, FALSE)
    ELSE IF turn.append
    THEN append_prefill(engine, SubSeq(working, turn.start + 2, Len(working)), turn.limit)
    ELSE prefill_with_prefix(engine, working, Len(Prefix), turn.limit)

EngineCall ==
    IF turn.generated > 0
    THEN decode_inner(engine, turn.previous, FALSE)
    ELSE IF turn.append
    THEN append_prefill(engine, SubSeq(working, turn.start + 1, Len(working)), turn.limit)
    ELSE prefill_with_prefix(engine, working, Len(Prefix), turn.limit)

\* One call of the engine and one draw of the sampler; the timer is read after
\* them whatever they returned.
Infer ==
    /\ pc = "infer"
    /\ \E outcome \in EngineCall :
          \/ /\ engine' = outcome.engine
             /\ \/ /\ outcome.ok
                   /\ \E token \in Sampled :
                         Continue("poll_again", [turn EXCEPT !.previous = token])
                \/ /\ outcome.ok
                   /\ Continue("close", Fail(turn, "SAMPLE"))
                \/ /\ ~outcome.ok
                   /\ Continue("close", Fail(turn, "INFERENCE"))
             /\ UNCHANGED <<cached_len, working>>
          \/ /\ ioFaults
             /\ engine' = reset_to_prefix(outcome.engine)
             /\ cached_len' = 0
             /\ working' = << >>
             /\ Continue("finish", Fail(turn, "FATAL"))
    /\ UNCHANGED historyVars

\* Mutated form of Output: the stop token is stored as it was sampled.
OutputRawStop ==
    /\ pc = "output"
    /\ working' = Append(working, turn.previous)
    /\ Continue("advance", [turn EXCEPT !.generated = @ + 1])
    /\ UNCHANGED <<engine, historyVars, cached_len>>

\* The token's bytes go through the UTF-8 decoder to the console; either stop
\* token is stored as IM_END.
Output ==
    /\ pc = "output"
    /\ \/ /\ working' = Append(working, IF turn.previous \in StopTokens
                                        THEN IM_END ELSE turn.previous)
          /\ \E incomplete \in BOOLEAN :
                /\ turn.previous \in StopTokens => incomplete = turn.incomplete
                /\ Continue("advance", [turn EXCEPT !.generated = @ + 1,
                                                    !.incomplete = incomplete])
       \/ /\ Continue("close", Fail(turn, "OUTPUT"))
          /\ UNCHANGED working
       \/ /\ ioFaults
          /\ Continue("close", Fail(turn, "FATAL"))
          /\ UNCHANGED working
    /\ UNCHANGED <<engine, historyVars, cached_len>>

\* inference_step_complete, and the end of the loop's body.
StatusFails ==
    /\ pc = "advance"
    /\ ioFaults
    /\ turn.generated % StatusEvery = 0
    /\ Continue("close", Fail(turn, "FATAL"))
    /\ UNCHANGED <<engine, historyVars, cached_len, working>>

NextToken ==
    /\ pc = "advance"
    /\ turn.previous \notin StopTokens
    /\ Continue("poll", turn)
    /\ UNCHANGED <<engine, historyVars, cached_len, working>>

\* commit_eos
CanCommit == Len(working) \in 1 .. Context /\ working[Len(working)] = IM_END

CommitReply ==
    /\ pc = "advance"
    /\ turn.previous \in StopTokens
    /\ ~turn.incomplete
    /\ CanCommit
    /\ committed' = working
    /\ history_turns' = history_turns + 1
    /\ Continue("close", [turn EXCEPT !.committed = TRUE])
    /\ UNCHANGED <<engine, cached_len, working>>

CommitFails ==
    /\ pc = "advance"
    /\ turn.previous \in StopTokens
    /\ turn.incomplete \/ ~CanCommit
    /\ Continue("close", Fail(turn, IF turn.incomplete THEN "UTF8_INCOMPLETE"
                                    ELSE "HISTORY_STATE"))
    /\ UNCHANGED <<engine, historyVars, cached_len, working>>

\* Mutated form of CloseError: a cut-off UTF-8 sequence ends the REPL.
CloseErrorFatal ==
    CASE turn.error # "none" -> turn.error
      [] turn.error = "none" /\ turn.committed -> "none"
      [] OTHER -> IF turn.incomplete /\ ~turn.interrupted THEN "FATAL" ELSE "none"

\* After the loop: a reply that ends inside a UTF-8 sequence is an error, and
\* so is an engine that does not stand in front of the committed stop token.
CloseError ==
    CASE turn.error # "none" -> turn.error
      [] turn.error = "none" /\ turn.committed ->
            IF engine.position = Len(committed) - 1 THEN "none" ELSE "HISTORY_STATE"
      [] OTHER -> IF turn.incomplete /\ ~turn.interrupted THEN "UTF8_INCOMPLETE" ELSE "none"

\* Mutated form of CloseTurn: the cache is kept after an abandoned turn.
CloseTurnKeepsCache ==
    /\ pc = "close"
    /\ cached_len' = IF turn.committed THEN Len(committed) - 1 ELSE cached_len
    /\ working' = << >>
    /\ Continue("finish", [Fail(turn, CloseError) EXCEPT !.reported = TRUE])
    /\ UNCHANGED <<engine, historyVars>>

CloseTurn ==
    /\ pc = "close"
    /\ IF turn.committed
       THEN IF CloseError = "none"
            THEN cached_len' = Len(committed) - 1 /\ UNCHANGED engine
            ELSE ResetEngineFresh
       ELSE ResetEngine
    /\ working' = << >>
    /\ \/ Continue("finish", [Fail(turn, CloseError) EXCEPT !.reported = TRUE])
       \/ /\ ioFaults
          /\ \E reported \in BOOLEAN :
                Continue("finish",
                         [Fail(turn, IF CloseError = "none" THEN "FATAL" ELSE CloseError)
                             EXCEPT !.reported = reported])
    /\ UNCHANGED historyVars

\* Mutated form of FinishTurn: a turn that failed is tried again.
FinishTurnRetries ==
    /\ pc = "finish"
    /\ working' = << >>
    /\ IF turn.error = "none"
       THEN Continue("idle", NoTurn)
       ELSE Continue("tokenize", [NoTurn EXCEPT !.user = turn.user])
    /\ UNCHANGED <<engine, historyVars, cached_len>>

\* accepted, after accepted_turn: render the waiting state, report what was
\* not reported yet, stop on a fatal error.
FinishTurn ==
    /\ pc = "finish"
    /\ working' = << >>
    /\ \/ turn.error # "FATAL" /\ Continue("idle", NoTurn)
       \/ (turn.error = "FATAL" \/ ioFaults) /\ Continue("stopped", NoTurn)
    /\ UNCHANGED <<engine, historyVars, cached_len>>

-----------------------------------------------------------------------------
(* The other entries of the input loop.                                     *)

\* /new
NewSession ==
    /\ pc = "idle"
    /\ ResetEngineFresh
    /\ committed' = << >>
    /\ history_turns' = 0
    /\ working' = << >>
    /\ pc' \in IF ioFaults THEN {"idle", "stopped"} ELSE {"idle"}
    /\ UNCHANGED turn

\* A key, tick, other command or rejected line whose device call fails.
InputFails ==
    /\ pc = "idle"
    /\ ioFaults
    /\ pc' = "stopped"
    /\ UNCHANGED <<engine, historyVars, cached_len, working, turn>>

TurnStep ==
    /\ \/ TokenizeFails \/ UsePrompt \/ ResetHistory \/ RejectPrompt
       \/ BeginGeneration \/ StartRecordFails
       \/ Poll \/ LimitReached \/ Infer \/ Output
       \/ StatusFails \/ NextToken \/ CommitReply \/ CommitFails
       \/ CloseTurn \/ FinishTurn
    /\ UNCHANGED ioFaults

InputStep ==
    /\ \/ \E user \in UserTexts : Accept(user)
       \/ NewSession
       \/ InputFails
    /\ UNCHANGED ioFaults

ReplNext == InputStep \/ TurnStep

ReplSteps == ReplInit /\ [][ReplNext]_replVars

\* The controller is the only thread: once a turn has begun it runs.
ReplSpec == ReplSteps /\ WF_replVars(TurnStep)

-----------------------------------------------------------------------------
(* Properties.                                                              *)

\* The first n positions of the KV cache hold the first n of these tokens.
KvHolds(tokens, n) ==
    n <= Len(tokens) /\ \A i \in 1 .. n : engine.kv[i - 1] = tokens[i]

\* Whenever a token is computed, everything in front of the position is the
\* prompt of this turn and the reply so far: no position is left over from an
\* abandoned turn, another history or an older prefix.
AttendsToPrompt ==
    pc \in {"poll", "infer", "poll_again", "output", "advance"}
    /\ engine.state # "FAULTED" => KvHolds(working, engine.position)

\* Between turns the cache either holds the committed conversation up to its
\* last stop token, ready to be appended to, or nothing of it.
CacheIsCommitted ==
    pc = "idle" =>
        \/ /\ cached_len = 0
           /\ engine.state = "RESET"
           /\ engine.position \in {0, Len(Prefix)}
        \/ /\ cached_len = Len(committed) - 1
           /\ cached_len = engine.position
           /\ engine.state \in {"READY", "EOS"}
           /\ KvHolds(committed, cached_len)

\* The defensive checks of controller and engine never fire: no sequence of
\* turns, interrupts, errors and resets makes history and engine disagree
\* (HISTORY_STATE), and the generation limit always satisfies the engine's own
\* checks of reserve and context, so that it fails by a fault of the evaluation
\* only, never by refusing a call.
ChecksNeverFire ==
    /\ turn.error # "HISTORY_STATE"
    /\ pc = "close" /\ turn.error = "INFERENCE" => engine.state = "FAULTED"

\* Failures of evaluation, sampling, tokenizing and decoding are survived: only
\* a failing device ends the REPL.
KeepsRunning == ~ioFaults => pc # "stopped"

\* Every turn comes to an end and the next line is read, or a device has failed.
TurnEnds == pc # "idle" ~> pc \in {"idle", "stopped"}

\* The controller implements the conversation Chat describes.
ChatPhase == IF pc \in {"idle", "stopped"} THEN "idle"
             ELSE IF turn.committed THEN "answered" ELSE "asked"
Chat == INSTANCE Chat WITH history <- committed, question <- turn.user, phase <- ChatPhase
ChatSpec == Chat!Spec
=============================================================================
