\* One reserve of zero and one beyond the context; prefixes of zero, within
\* and beyond MAX_TOKENS and the prompt.
SPECIFICATION ClientSpec
CONSTANTS
    a = a
    eos = eos
    bad = bad
    MaxPrompt = 4
    Context = 5
    MaxTokens = 2
    Vocab = {a, eos}
    EosToken = eos
    Selectable = {a, eos}
    InputTokens = {a, eos, bad}
    Prompts <- MCPrompts
    Prefixes = {0, 1, 2, 3}
    Reserves = {0, 1, 2, 6}
INVARIANTS
    PrefixBacked
    BudgetFits
    NoHoles
