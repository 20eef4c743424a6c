----------------------------- MODULE EditorKeys -----------------------------
(***************************************************************************)
(* The line editor under every sequence of keys: the keys typed and the    *)
(* calls made on the Output are recorded and compared.                     *)
(***************************************************************************)
EXTENDS Editor, FiniteSets

CONSTANT MaxTyped   \* bound on the keys typed

VARIABLES
    calls,   \* calls made on the Output so far
    keys     \* keys typed so far

editorVars == <<editor, overflow, calls, keys>>

EditorInit ==
    /\ editor = NewEditor
    /\ calls = <<CallPrompt(1)>>
    /\ keys = << >>
    /\ overflow = FALSE

\* An overflow of the prompt index ends the input loop.
ProcessKey(key) ==
    /\ ~overflow
    /\ Len(keys) < MaxTyped
    /\ LET result == process_key(editor, key)
       IN  /\ editor' = result.editor
           /\ calls' = calls \o result.calls
           /\ overflow' = result.overflow
    /\ keys' = Append(keys, key)

EditorNext == \E key \in Keys : ProcessKey(key)

EditorSpec == EditorInit /\ [][EditorNext]_editorVars

-----------------------------------------------------------------------------
(* Properties.                                                              *)

Calls(name) == {i \in 1 .. Len(calls) : calls[i].call = name}

\* Number of keys up to i that are line ends alternating without a break.
AlternatingRun(i) ==
    Cardinality({j \in 1 .. i : \A k \in j .. i :
                    keys[k] \in Enter /\ (k > j => keys[k] # keys[k - 1])})

\* CR, LF, CR LF and LF CR each end one line, however they follow each other: in
\* a run of alternating line ends every other one counts.  Every index is
\* prompted for once, in order, and gets at most one verdict, which comes after
\* its prompt and before the next one.
OneVerdictPerLine ==
    /\ ~overflow =>
          editor.prompt_index =
              1 + Cardinality({i \in 1 .. Len(keys) :
                                  keys[i] \in Enter /\ AlternatingRun(i) % 2 = 1})
    /\ \A i, j \in Calls("prompt") : i < j => calls[i].index < calls[j].index
    /\ \A i, j \in Calls("accepted") \cup Calls("rejected") :
          calls[i].index = calls[j].index => i = j
    /\ \A i \in Calls("accepted") \cup Calls("rejected") :
          /\ \E j \in Calls("prompt") : j < i /\ calls[j].index = calls[i].index
          /\ \A j \in Calls("prompt") : calls[j].index > calls[i].index => j > i

\* What a call does to the text echoed and not erased since the prompt.
Echo(text, call) ==
    CASE call.call = "prompt" -> << >>
      [] call.call = "live_ascii" -> text \o call.line
      [] call.call = "erase_last" -> SubSeq(text, 1, Len(text) - 1)
      [] OTHER -> text

\* That text behind each of the calls.
Echoed ==
    LET after[i \in 0 .. Len(calls)] ==
            IF i = 0 THEN << >> ELSE Echo(after[i - 1], calls[i])
    IN  after

\* Character for character, what is echoed and not erased since the prompt is the
\* buffer, and is the line that is accepted: the editor never shows one line and
\* sends another.  No erase reaches back into the prompt.
EchoIsBuffer ==
    LET echoed == Echoed
    IN  /\ ~overflow /\ ~editor.discard => editor.buffer = echoed[Len(calls)]
        /\ \A i \in Calls("accepted") : calls[i].line = echoed[i - 1]
        /\ \A i \in Calls("erase_last") : echoed[i - 1] # << >>
=============================================================================
