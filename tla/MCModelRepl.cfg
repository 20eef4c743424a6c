SPECIFICATION ReplSpec
CONSTANTS
    sys = sys
    usr = usr
    asst = asst
    a = a
    b = b
    end = end
    eot = eot
    Context = 7
    MaxTokens = 4
    Vocab = {sys, usr, asst, a, b, end, eot}
    EosToken = end
    EndOfText = eot
    Selectable = {a, end}
    Reserve = 3
    StatusEvery = 2
    SystemMessage <- MCSystemMessage
    UserOpen <- MCUserOpen
    UserClose <- MCUserClose
    UserTexts <- MCUserTexts
    Sampled = {b, end, eot}
    IoFaults = {FALSE, TRUE}
INVARIANTS
    AttendsToPrompt
    CacheIsCommitted
    ChecksNeverFire
    KeepsRunning
PROPERTIES
    ChatSpec
    TurnEnds
CHECK_DEADLOCK FALSE
