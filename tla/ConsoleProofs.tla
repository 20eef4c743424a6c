--------------------------- MODULE ConsoleProofs ---------------------------
(***************************************************************************)
(* Proofs about what the user types and sees: the line editor, for any     *)
(* number of keys of any kind, any capacity of the line and any last       *)
(* prompt index, and the console, for any size of screen and ring and any  *)
(* texts.                                                                  *)
(*                                                                         *)
(* The editor remembers one line end and one index; the properties speak   *)
(* of the whole sequence of keys and calls.  The invariant says of which   *)
(* key the remembered line end is, how many of the keys so far counted,    *)
(* which index was prompted for last and whether it has its verdict.       *)
(***************************************************************************)
EXTENDS LiveInput, SequenceTheorems, FiniteSetTheorems, WellFoundedInduction, TLAPS

-----------------------------------------------------------------------------
(* The line editor: what a key does.                                        *)

EditorFields == {"buffer", "prompt_index", "discard", "pending"}

EditorShape(e) ==
    /\ DOMAIN e = EditorFields
    /\ e.buffer \in Seq(Printable)
    /\ e.prompt_index \in 1 .. MaxIndex
    /\ e.discard \in BOOLEAN
    /\ e.pending \in Enter \cup {"none"}

\* The result of one key, field by field.
Leaves(result, buffer, index, discard, pending, made) ==
    /\ DOMAIN result.editor = EditorFields
    /\ result.editor.buffer = buffer /\ result.editor.prompt_index = index
    /\ result.editor.discard = discard /\ result.editor.pending = pending
    /\ result.calls = made /\ result.overflow = FALSE

\* The last prompt index has no successor.
Overflows(result, index) ==
    /\ result.overflow = TRUE /\ result.calls = << >> /\ EditorShape(result.editor)
    /\ result.editor.prompt_index = index

\* The end of a line that was too long.
LEMMA EndDiscardIs ==
    ASSUME NEW e, EditorShape(e), e.discard, e.pending = "none", NEW key \in Keys
    PROVE  \/ /\ key \notin Enter
              /\ Leaves(EndDiscard(e, key), e.buffer, e.prompt_index, TRUE, "none", << >>)
           \/ /\ key \in Enter /\ e.prompt_index < MaxIndex
              /\ Leaves(EndDiscard(e, key), e.buffer, e.prompt_index + 1, FALSE, key,
                        <<CallPrompt(e.prompt_index + 1)>>)
           \/ Overflows(EndDiscard(e, key), e.prompt_index)
<1>0. MaxIndex \in Nat /\ e.prompt_index \in Nat
      BY EditorAssumption DEF EditorShape
<1>1. CASE key \notin Enter
      BY <1>1 DEF EndDiscard, Result, Leaves, EditorShape
<1>2. CASE key \in Enter
  <2> DEFINE ended == [e EXCEPT !.discard = FALSE, !.pending = key]
             more == [ended EXCEPT !.prompt_index = @ + 1]
  <2>1. /\ DOMAIN ended = EditorFields /\ ended.buffer = e.buffer
        /\ ended.prompt_index = e.prompt_index /\ ended.discard = FALSE /\ ended.pending = key
        BY DEF EditorShape, EditorFields
  <2>2. EditorShape(ended)
        BY <1>2, <2>1 DEF EditorShape
  <2> HIDE DEF ended
  <2>3. /\ DOMAIN more = EditorFields /\ more.buffer = e.buffer
        /\ more.prompt_index = e.prompt_index + 1 /\ more.discard = FALSE /\ more.pending = key
        BY <2>1 DEF EditorFields
  <2> HIDE DEF more
  <2>4. CASE e.prompt_index = MaxIndex
    <3>1. EndDiscard(e, key) = Result(ended, << >>, TRUE)
          BY <1>2, <2>4 DEF EndDiscard, ended
    <3>2. /\ EndDiscard(e, key).editor = ended /\ EndDiscard(e, key).calls = << >>
          /\ EndDiscard(e, key).overflow = TRUE
          BY <3>1 DEF Result
    <3> QED
        BY <2>1, <2>2, <3>2 DEF Overflows
  <2>5. CASE e.prompt_index # MaxIndex
    <3>1. EndDiscard(e, key) = Result(more, <<CallPrompt(e.prompt_index + 1)>>, FALSE)
          BY <1>2, <2>5, Zenon DEF EndDiscard, ended, more
    <3>2. e.prompt_index < MaxIndex
          BY <1>0, <2>5 DEF EditorShape
    <3> QED
        BY <1>2, <2>3, <3>1, <3>2 DEF Leaves, Result
  <2> QED
      BY <2>4, <2>5
<1> QED
    BY <1>1, <1>2

\* The end of a line.
LEMMA EndLineIs ==
    ASSUME NEW e, EditorShape(e), ~e.discard, NEW key \in Enter
    PROVE  \/ /\ e.prompt_index < MaxIndex
              /\ Leaves(EndLine(e, key), << >>, e.prompt_index + 1, FALSE, key,
                        <<CallAccepted(e.prompt_index, e.buffer), CallPrompt(e.prompt_index + 1)>>)
           \/ Overflows(EndLine(e, key), e.prompt_index)
<1>0. MaxIndex \in Nat /\ e.prompt_index \in Nat
      BY EditorAssumption DEF EditorShape
<1> DEFINE cleared == [e EXCEPT !.buffer = << >>]
           more == [cleared EXCEPT !.prompt_index = @ + 1, !.pending = key]
<1>1. /\ DOMAIN cleared = EditorFields /\ cleared.buffer = << >> /\ cleared.pending = e.pending
      /\ cleared.prompt_index = e.prompt_index /\ cleared.discard = FALSE
      BY DEF EditorShape, EditorFields
<1>2. EditorShape(cleared)
      BY <1>1 DEF EditorShape
<1> HIDE DEF cleared
<1>3. /\ DOMAIN more = EditorFields /\ more.buffer = << >> /\ more.pending = key
      /\ more.prompt_index = e.prompt_index + 1 /\ more.discard = FALSE
      BY <1>1 DEF EditorFields
<1> HIDE DEF more
<1>4. CASE e.prompt_index = MaxIndex
  <2>1. EndLine(e, key) = Result(cleared, << >>, TRUE)
        BY <1>4 DEF EndLine, cleared
  <2>2. /\ EndLine(e, key).editor = cleared /\ EndLine(e, key).calls = << >>
        /\ EndLine(e, key).overflow = TRUE
        BY <2>1 DEF Result
  <2> QED
      BY <1>1, <1>2, <2>2 DEF Overflows
<1>5. CASE e.prompt_index # MaxIndex
  <2>1. EndLine(e, key) =
            Result(more, <<CallAccepted(e.prompt_index, e.buffer), CallPrompt(e.prompt_index + 1)>>, FALSE)
        BY <1>5, Zenon DEF EndLine, cleared, more
  <2>2. e.prompt_index < MaxIndex
        BY <1>0, <1>5 DEF EditorShape
  <2> QED
      BY <1>3, <2>1, <2>2 DEF Leaves, Result
<1> QED
    BY <1>4, <1>5

\* A character less, if there is one.
LEMMA BackspaceIs ==
    ASSUME NEW e, EditorShape(e), ~e.discard, e.pending = "none"
    PROVE  \/ Leaves(Backspace(e), e.buffer, e.prompt_index, FALSE, "none", << >>)
           \/ /\ e.buffer # << >>
              /\ Leaves(Backspace(e), SubSeq(e.buffer, 1, Len(e.buffer) - 1), e.prompt_index, FALSE,
                        "none", <<CallErase>>)
BY DEF Backspace, Result, Leaves, EditorShape, EditorFields

\* A character is added, or the line is too long.
LEMMA InsertIs ==
    ASSUME NEW e, EditorShape(e), ~e.discard, e.pending = "none", NEW key \in Printable
    PROVE  \/ Leaves(Insert(e, key), Append(e.buffer, key), e.prompt_index, FALSE, "none",
                     <<CallLive(key)>>)
           \/ Leaves(Insert(e, key), << >>, e.prompt_index, TRUE, "none",
                     <<CallRejected(e.prompt_index)>>)
           \/ Overflows(Insert(e, key), e.prompt_index)
<1>1. CASE Len(e.buffer) < Capacity
      BY <1>1 DEF Insert, Result, Leaves, EditorShape, EditorFields
<1>2. CASE ~(Len(e.buffer) < Capacity)
  <2> DEFINE cleared == [e EXCEPT !.buffer = << >>]
             more == [cleared EXCEPT !.discard = TRUE]
  <2>1. /\ DOMAIN cleared = EditorFields /\ cleared.buffer = << >> /\ cleared.pending = "none"
        /\ cleared.prompt_index = e.prompt_index /\ cleared.discard = FALSE
        BY DEF EditorShape, EditorFields
  <2>2. EditorShape(cleared)
        BY <2>1 DEF EditorShape
  <2> HIDE DEF cleared
  <2>3. /\ DOMAIN more = EditorFields /\ more.buffer = << >> /\ more.pending = "none"
        /\ more.prompt_index = e.prompt_index /\ more.discard = TRUE
        BY <2>1 DEF EditorFields
  <2> HIDE DEF more
  <2>4. CASE e.prompt_index = MaxIndex
    <3>1. Insert(e, key) = Result(cleared, << >>, TRUE)
          BY <1>2, <2>4, Zenon DEF Insert, cleared
    <3>2. /\ Insert(e, key).editor = cleared /\ Insert(e, key).calls = << >>
          /\ Insert(e, key).overflow = TRUE
          BY <3>1 DEF Result
    <3> QED
        BY <2>1, <2>2, <3>2 DEF Overflows
  <2>5. CASE e.prompt_index # MaxIndex
    <3>1. Insert(e, key) = Result(more, <<CallRejected(e.prompt_index)>>, FALSE)
          BY <1>2, <2>5, Zenon DEF Insert, cleared, more
    <3> QED
        BY <2>3, <3>1 DEF Leaves, Result
  <2> QED
      BY <2>4, <2>5
<1> QED
    BY <1>1, <1>2

\* The results process_key may have; a key that is part of the line end before it,
\* or that the editor ignores, leaves the line as it is.
LEMMA KeyIs ==
    ASSUME NEW b, EditorShape(b), NEW key \in Keys
    PROVE  LET result == process_key(b, key)
               index == b.prompt_index
           IN  \/ /\ key \notin Enter \/ Paired(b.pending, key)
                  /\ Leaves(result, b.buffer, index, b.discard, "none", << >>)
               \/ /\ key \in Enter /\ ~Paired(b.pending, key) /\ b.discard /\ index < MaxIndex
                  /\ Leaves(result, b.buffer, index + 1, FALSE, key, <<CallPrompt(index + 1)>>)
               \/ /\ key \in Enter /\ ~Paired(b.pending, key) /\ ~b.discard /\ index < MaxIndex
                  /\ Leaves(result, << >>, index + 1, FALSE, key,
                            <<CallAccepted(index, b.buffer), CallPrompt(index + 1)>>)
               \/ /\ key \notin Enter /\ ~b.discard /\ b.buffer # << >>
                  /\ Leaves(result, SubSeq(b.buffer, 1, Len(b.buffer) - 1), index, FALSE, "none",
                            <<CallErase>>)
               \/ /\ key \in Printable /\ ~b.discard
                  /\ Leaves(result, Append(b.buffer, key), index, FALSE, "none", <<CallLive(key)>>)
               \/ /\ key \in Printable /\ ~b.discard
                  /\ Leaves(result, << >>, index, TRUE, "none", <<CallRejected(index)>>)
               \/ Overflows(result, index)
<1> DEFINE e == [b EXCEPT !.pending = "none"]
<1>1. /\ EditorShape(e) /\ e.pending = "none" /\ e.buffer = b.buffer
      /\ e.prompt_index = b.prompt_index /\ e.discard = b.discard
      BY DEF EditorShape, EditorFields
<1>2. Leaves(Result(e, << >>, FALSE), b.buffer, b.prompt_index, b.discard, "none", << >>)
      BY <1>1 DEF Leaves, Result, EditorShape
<1>3. process_key(b, key) =
          CASE Paired(b.pending, key) -> Result(e, << >>, FALSE)
            [] ~Paired(b.pending, key) /\ e.discard -> EndDiscard(e, key)
            [] ~Paired(b.pending, key) /\ ~e.discard /\ key \in Enter -> EndLine(e, key)
            [] ~e.discard /\ key = "BS" -> Backspace(e)
            [] ~e.discard /\ key \in Printable -> Insert(e, key)
            [] OTHER -> Result(e, << >>, FALSE)
      BY DEF process_key
<1> HIDE DEF e
<1>4. /\ key \notin Enter => ~Paired(b.pending, key)
      /\ "BS" \notin Enter /\ "BS" \notin Printable /\ \A k \in Printable : k \notin Enter
      BY EditorAssumption DEF Paired, Enter
<1>5. CASE Paired(b.pending, key)
  <2>1. process_key(b, key) = Result(e, << >>, FALSE)
        BY <1>3, <1>4, <1>5
  <2> QED
      BY <1>2, <1>5, <2>1
<1>6. CASE ~Paired(b.pending, key) /\ b.discard
  <2>1. process_key(b, key) = EndDiscard(e, key)
        BY <1>1, <1>3, <1>6
  <2> QED
      BY <1>1, <1>6, <2>1, EndDiscardIs
<1>7. CASE ~Paired(b.pending, key) /\ ~b.discard /\ key \in Enter
  <2>1. process_key(b, key) = EndLine(e, key)
        BY <1>1, <1>3, <1>4, <1>7
  <2> QED
      BY <1>1, <1>7, <2>1, EndLineIs
<1>8. CASE ~b.discard /\ key = "BS"
  <2>1. process_key(b, key) = Backspace(e)
        BY <1>1, <1>3, <1>4, <1>8
  <2>2. b.discard = FALSE
        BY <1>8 DEF EditorShape
  <2> QED
      BY <1>1, <1>4, <1>8, <2>1, <2>2, BackspaceIs
<1>9. CASE ~b.discard /\ key \in Printable
  <2>1. process_key(b, key) = Insert(e, key)
        BY <1>1, <1>3, <1>4, <1>9
  <2> QED
      BY <1>1, <1>4, <1>9, <2>1, InsertIs
<1>10. CASE ~Paired(b.pending, key) /\ ~b.discard /\ key \notin Enter /\ key # "BS" /\ key \notin Printable
  <2>1. process_key(b, key) = Result(e, << >>, FALSE)
        BY <1>1, <1>3, <1>10
  <2> QED
      BY <1>2, <1>10, <2>1
<1> QED
    BY <1>5, <1>6, <1>7, <1>8, <1>9, <1>10

-----------------------------------------------------------------------------
(* The line editor: the calls of a sequence of keys.                        *)

CallSet == [call : {"prompt", "accepted", "rejected", "live_ascii", "erase_last"},
            index : Nat, line : Seq(Printable)]

EditorTypeOK ==
    /\ EditorShape(editor)
    /\ ~overflow /\ editor.discard => editor.buffer = << >>
    /\ calls \in Seq(CallSet) /\ keys \in Seq(Keys) /\ overflow \in BOOLEAN

\* What one key leaves in the editor that goes on.
Step(buffer, index, discard, pending) ==
    /\ editor'.buffer = buffer /\ editor'.prompt_index = index
    /\ editor'.discard = discard /\ editor'.pending = pending
    /\ overflow' = FALSE

Quiet(key) ==
    /\ key \notin Enter \/ Paired(editor.pending, key)
    /\ Step(editor.buffer, editor.prompt_index, editor.discard, "none")
    /\ calls' = calls
Resumes(key) ==
    /\ key \in Enter /\ ~Paired(editor.pending, key) /\ editor.discard
    /\ Step(<< >>, editor.prompt_index + 1, FALSE, key)
    /\ calls' = Append(calls, CallPrompt(editor.prompt_index + 1))
Accepts(key) ==
    /\ key \in Enter /\ ~Paired(editor.pending, key) /\ ~editor.discard
    /\ Step(<< >>, editor.prompt_index + 1, FALSE, key)
    /\ calls' = Append(Append(calls, CallAccepted(editor.prompt_index, editor.buffer)),
                       CallPrompt(editor.prompt_index + 1))
Erases(key) ==
    /\ key \notin Enter /\ ~editor.discard /\ editor.buffer # << >>
    /\ Step(SubSeq(editor.buffer, 1, Len(editor.buffer) - 1), editor.prompt_index, FALSE, "none")
    /\ calls' = Append(calls, CallErase)
Inserts(key) ==
    /\ key \in Printable /\ ~editor.discard
    /\ Step(Append(editor.buffer, key), editor.prompt_index, FALSE, "none")
    /\ calls' = Append(calls, CallLive(key))
Rejects(key) ==
    /\ key \in Printable /\ ~editor.discard
    /\ Step(<< >>, editor.prompt_index, TRUE, "none")
    /\ calls' = Append(calls, CallRejected(editor.prompt_index))
Stops == overflow' = TRUE /\ calls' = calls /\ editor'.prompt_index = editor.prompt_index

\* A sequence with one or two elements more.
LEMMA Longer ==
    ASSUME NEW S, NEW s \in Seq(S), NEW a \in S, NEW b \in S
    PROVE  s \o << >> = s /\ s \o <<a>> = Append(s, a) /\ s \o <<a, b>> = Append(Append(s, a), b)
<1>1. s \o << >> = s /\ s \o <<a>> = Append(s, a)
      OBVIOUS
<1> DEFINE one == Append(s, a)
           two == Append(one, b)
<1>2. one \in Seq(S) /\ Len(one) = Len(s) + 1 /\ one[Len(s) + 1] = a /\ Len(s) \in Nat
      /\ \A i \in 1 .. Len(s) : one[i] = s[i]
      OBVIOUS
<1> HIDE DEF one
<1>3. two \in Seq(S) /\ Len(two) = Len(one) + 1 /\ two[Len(one) + 1] = b
      /\ \A i \in 1 .. Len(one) : two[i] = one[i]
      BY <1>2
<1> HIDE DEF two
<1>4. s \o <<a, b>> \in Seq(S) /\ Len(s \o <<a, b>>) = Len(s) + 2
      /\ \A i \in 1 .. Len(s) + 2 :
            (s \o <<a, b>>)[i] = IF i <= Len(s) THEN s[i] ELSE <<a, b>>[i - Len(s)]
      OBVIOUS
<1>5. Len(two) = Len(s \o <<a, b>>)
      BY <1>2, <1>3, <1>4
<1>6. ASSUME NEW i \in 1 .. Len(two)
      PROVE  two[i] = (s \o <<a, b>>)[i]
  <2>1. CASE i \in 1 .. Len(s)
        BY <1>2, <1>3, <1>4, <2>1
  <2>2. CASE i = Len(s) + 1
        BY <1>2, <1>3, <1>4, <2>2
  <2>3. CASE i = Len(s) + 2
        BY <1>2, <1>3, <1>4, <2>3
  <2> QED
      BY <1>2, <1>3, <2>1, <2>2, <2>3
<1>7. two = s \o <<a, b>>
      BY <1>3, <1>4, <1>5, <1>6
<1> QED
    BY <1>1, <1>7 DEF one, two

\* Every key does one of these.
LEMMA KeyStep ==
    ASSUME EditorTypeOK, NEW key \in Keys, ProcessKey(key)
    PROVE  /\ ~overflow /\ keys' = Append(keys, key) /\ EditorTypeOK'
           /\ \/ Quiet(key) \/ Resumes(key) \/ Accepts(key) \/ Erases(key) \/ Inserts(key)
              \/ Rejects(key) \/ Stops
<1> DEFINE result == process_key(editor, key)
           index == editor.prompt_index
<1>1. /\ editor' = result.editor /\ calls' = calls \o result.calls /\ overflow' = result.overflow
      /\ ~overflow /\ keys' = Append(keys, key)
      BY DEF ProcessKey
<1>2. /\ EditorShape(editor) /\ calls \in Seq(CallSet) /\ keys' \in Seq(Keys)
      /\ index \in Nat /\ MaxIndex \in Nat /\ index \in 1 .. MaxIndex
      /\ editor.discard => editor.buffer = << >>
      /\ editor.buffer \in Seq(Printable) /\ editor.discard \in BOOLEAN
      BY <1>1, EditorAssumption DEF EditorTypeOK, EditorShape
<1> HIDE DEF result
<1>3. CASE Leaves(result, editor.buffer, index, editor.discard, "none", << >>)
           /\ (key \notin Enter \/ Paired(editor.pending, key))
  <2>1. calls' = calls
        BY <1>1, <1>2, <1>3 DEF Leaves
  <2>2. Quiet(key)
        BY <1>1, <1>3, <2>1 DEF Leaves, Quiet, Step
  <2>3. EditorTypeOK'
    <3>0. /\ DOMAIN editor' = EditorFields /\ editor'.discard = editor.discard
          /\ editor'.prompt_index = index /\ editor'.pending = "none"
          /\ editor'.buffer = editor.buffer
          BY <1>1, <1>3 DEF Leaves
    <3>1. EditorShape(editor')
          BY <1>2, <1>3, <3>0 DEF EditorShape
    <3>2. calls' \in Seq(CallSet) /\ overflow' = FALSE
          BY <1>1, <1>2, <1>3, <2>1 DEF Leaves
    <3> QED
        BY <1>1, <1>2, <3>0, <3>1, <3>2 DEF EditorTypeOK
  <2> QED
      BY <1>1, <2>2, <2>3
<1>4. CASE /\ key \in Enter /\ ~Paired(editor.pending, key) /\ editor.discard /\ index < MaxIndex
           /\ Leaves(result, editor.buffer, index + 1, FALSE, key, <<CallPrompt(index + 1)>>)
  <2>1. CallPrompt(index + 1) \in CallSet
        BY <1>2 DEF CallPrompt, CallSet
  <2>2. calls' = Append(calls, CallPrompt(index + 1))
        BY <1>1, <1>2, <1>4, <2>1, Longer DEF Leaves
  <2>3. Resumes(key)
        BY <1>1, <1>2, <1>4, <2>2 DEF Leaves, Resumes, Step
  <2>4. EditorTypeOK'
    <3>0. /\ DOMAIN editor' = EditorFields /\ editor'.discard = FALSE
          /\ editor'.prompt_index = index + 1 /\ editor'.pending = key
          /\ editor'.buffer = editor.buffer
          BY <1>1, <1>4 DEF Leaves
    <3>1. EditorShape(editor')
      <4>1. index + 1 \in 1 .. MaxIndex /\ key \in Enter
            BY <1>2, <1>4
      <4> QED
          BY <1>2, <3>0, <4>1 DEF EditorShape
    <3>2. calls' \in Seq(CallSet) /\ overflow' = FALSE
          BY <1>1, <1>2, <1>4, <2>1, <2>2 DEF Leaves
    <3> QED
        BY <1>1, <1>2, <3>0, <3>1, <3>2 DEF EditorTypeOK
  <2> QED
      BY <1>1, <2>3, <2>4
<1>5. CASE /\ key \in Enter /\ ~Paired(editor.pending, key) /\ ~editor.discard /\ index < MaxIndex
           /\ Leaves(result, << >>, index + 1, FALSE, key,
                     <<CallAccepted(index, editor.buffer), CallPrompt(index + 1)>>)
  <2> DEFINE one == Append(calls, CallAccepted(index, editor.buffer))
  <2>1. CallPrompt(index + 1) \in CallSet /\ CallAccepted(index, editor.buffer) \in CallSet
    <3>1. CallPrompt(index + 1) \in CallSet
          BY <1>2 DEF CallPrompt, CallSet
    <3>2. CallAccepted(index, editor.buffer) \in CallSet
          BY <1>2 DEF CallAccepted, CallSet
    <3> QED
        BY <3>1, <3>2
  <2>2. calls' = Append(one, CallPrompt(index + 1))
    <3>1. calls' = calls \o <<CallAccepted(index, editor.buffer), CallPrompt(index + 1)>>
          BY <1>1, <1>5 DEF Leaves
    <3> QED
        BY <1>2, <2>1, <3>1, Longer
  <2>3. one \in Seq(CallSet)
        BY <1>2, <2>1
  <2>4. Accepts(key)
        BY <1>1, <1>5, <2>2 DEF Leaves, Accepts, Step
  <2> HIDE DEF one
  <2>5. calls' \in Seq(CallSet)
        BY <2>1, <2>2, <2>3
  <2>6. EditorTypeOK'
    <3>0. /\ DOMAIN editor' = EditorFields /\ editor'.discard = FALSE
          /\ editor'.prompt_index = index + 1 /\ editor'.pending = key
          /\ editor'.buffer = << >>
          BY <1>1, <1>5 DEF Leaves
    <3>1. EditorShape(editor')
      <4>1. index + 1 \in 1 .. MaxIndex /\ key \in Enter /\ << >> \in Seq(Printable)
            BY <1>2, <1>5
      <4> QED
          BY <1>2, <3>0, <4>1 DEF EditorShape
    <3>2. calls' \in Seq(CallSet) /\ overflow' = FALSE
          BY <1>1, <1>2, <1>5, <2>5 DEF Leaves
    <3> QED
        BY <1>1, <1>2, <3>0, <3>1, <3>2 DEF EditorTypeOK
  <2> QED
      BY <1>1, <2>4, <2>6
<1>6. CASE /\ key \notin Enter /\ ~editor.discard /\ editor.buffer # << >>
           /\ Leaves(result, SubSeq(editor.buffer, 1, Len(editor.buffer) - 1), index, FALSE, "none",
                     <<CallErase>>)
  <2>1. CallErase \in CallSet
        BY DEF CallErase, CallSet
  <2>2. calls' = Append(calls, CallErase)
        BY <1>1, <1>2, <1>6, <2>1, Longer DEF Leaves
  <2>3. Erases(key)
        BY <1>1, <1>6, <2>2 DEF Leaves, Erases, Step
  <2>4. SubSeq(editor.buffer, 1, Len(editor.buffer) - 1) \in Seq(Printable)
    <3>1. \A i \in 1 .. Len(editor.buffer) - 1 : editor.buffer[i] \in Printable
          BY <1>2
    <3> QED
        BY <1>2, <3>1
  <2>5. EditorTypeOK'
    <3>0. /\ DOMAIN editor' = EditorFields /\ editor'.discard = FALSE
          /\ editor'.prompt_index = index /\ editor'.pending = "none"
          /\ editor'.buffer = SubSeq(editor.buffer, 1, Len(editor.buffer) - 1)
          BY <1>1, <1>6 DEF Leaves
    <3>1. EditorShape(editor')
          BY <1>2, <1>6, <2>4, <3>0 DEF EditorShape
    <3>2. calls' \in Seq(CallSet) /\ overflow' = FALSE
          BY <1>1, <1>2, <1>6, <2>1, <2>2, <2>4 DEF Leaves
    <3> QED
        BY <1>1, <1>2, <3>0, <3>1, <3>2 DEF EditorTypeOK
  <2> QED
      BY <1>1, <2>3, <2>5
<1>7. CASE /\ key \in Printable /\ ~editor.discard
           /\ Leaves(result, Append(editor.buffer, key), index, FALSE, "none", <<CallLive(key)>>)
  <2>1. CallLive(key) \in CallSet
        BY <1>7 DEF CallLive, CallSet
  <2>2. calls' = Append(calls, CallLive(key))
        BY <1>1, <1>2, <1>7, <2>1, Longer DEF Leaves
  <2>3. Inserts(key)
        BY <1>1, <1>7, <2>2 DEF Leaves, Inserts, Step
  <2>4. EditorTypeOK'
    <3>0. /\ DOMAIN editor' = EditorFields /\ editor'.discard = FALSE
          /\ editor'.prompt_index = index /\ editor'.pending = "none"
          /\ editor'.buffer = Append(editor.buffer, key)
          BY <1>1, <1>7 DEF Leaves
    <3>1. EditorShape(editor')
      <4>1. Append(editor.buffer, key) \in Seq(Printable)
            BY <1>2, <1>7
      <4> QED
          BY <1>2, <3>0, <4>1 DEF EditorShape
    <3>2. calls' \in Seq(CallSet) /\ overflow' = FALSE
          BY <1>1, <1>2, <1>7, <2>1, <2>2 DEF Leaves
    <3> QED
        BY <1>1, <1>2, <3>0, <3>1, <3>2 DEF EditorTypeOK
  <2> QED
      BY <1>1, <2>3, <2>4
<1>8. CASE /\ key \in Printable /\ ~editor.discard
           /\ Leaves(result, << >>, index, TRUE, "none", <<CallRejected(index)>>)
  <2>1. CallRejected(index) \in CallSet
        BY <1>2 DEF CallRejected, CallSet
  <2>2. calls' = Append(calls, CallRejected(index))
        BY <1>1, <1>2, <1>8, <2>1, Longer DEF Leaves
  <2>3. Rejects(key)
        BY <1>1, <1>8, <2>2 DEF Leaves, Rejects, Step
  <2>4. EditorTypeOK'
    <3>0. /\ DOMAIN editor' = EditorFields /\ editor'.discard = TRUE
          /\ editor'.prompt_index = index /\ editor'.pending = "none"
          /\ editor'.buffer = << >>
          BY <1>1, <1>8 DEF Leaves
    <3>1. EditorShape(editor')
      <4>1. << >> \in Seq(Printable)
            BY <1>2, <1>8
      <4> QED
          BY <1>2, <3>0, <4>1 DEF EditorShape
    <3>2. calls' \in Seq(CallSet) /\ overflow' = FALSE
          BY <1>1, <1>2, <1>8, <2>1, <2>2 DEF Leaves
    <3> QED
        BY <1>1, <1>2, <3>0, <3>1, <3>2 DEF EditorTypeOK
  <2> QED
      BY <1>1, <2>3, <2>4
<1>9. CASE Overflows(result, index)
  <2>1. /\ calls' = calls /\ overflow' = TRUE /\ EditorShape(editor')
        /\ editor'.prompt_index = index
        BY <1>1, <1>2, <1>9 DEF Overflows
  <2> QED
      BY <1>1, <1>2, <2>1 DEF EditorTypeOK, Stops
<1> QED
    BY <1>2, <1>3, <1>4, <1>5, <1>6, <1>7, <1>8, <1>9, KeyIs DEF result

-----------------------------------------------------------------------------
(* The line editor: what is echoed.                                         *)

CallsOf(s, name) == {i \in 1 .. Len(s) : s[i].call = name}

\* Some of the first positions are finitely many.
LEMMA SomePositions ==
    ASSUME NEW n \in Nat, NEW S, S \subseteq 1 .. n
    PROVE  IsFiniteSet(S) /\ Cardinality(S) \in Nat
<1>1. IsFiniteSet(1 .. n)
      BY FS_Interval
<1> QED
    BY <1>1, FS_Subset, FS_CardinalityType

\* Induction over the natural numbers, with a set for the property.
LEMMA SetInduction ==
    ASSUME NEW S, 0 \in S, \A n \in Nat : n \in S => n + 1 \in S
    PROVE  Nat \subseteq S
<1> DEFINE less == {ab \in Nat \X Nat : ab[1] < ab[2]}
           Out == Nat \ S
<1>1. IsWellFoundedOn(less, Nat)
  BY NatLessThanWellFounded DEF OpToRel
<1> HIDE DEF less
<1> SUFFICES ASSUME Out # {} PROVE FALSE
  OBVIOUS
<1>2. PICK b \in Out : \A c \in Out : ~(<<c, b>> \in less)
  <2>1. Out \subseteq Nat /\ Out # {}
    OBVIOUS
  <2> HIDE DEF Out
  <2> QED
    BY <1>1, <2>1, WFMin, Zenon
<1>3. b \in Nat \ {0} /\ b - 1 \in Nat /\ b - 1 + 1 = b /\ b - 1 < b
  OBVIOUS
<1>4. b - 1 \in S
  BY <1>2, <1>3 DEF less
<1> QED
  BY <1>3, <1>4

\* The texts behind each of the first n calls.
IsEchoRun(f, s, n) == f = [i \in 0 .. n |-> IF i = 0 THEN << >> ELSE Echo(f[i - 1], s[i])]

EchoRun(s) == CHOOSE f : IsEchoRun(f, s, Len(s))

\* The definitions above are those of the properties.
LEMMA EchoedIs == Calls("prompt") = CallsOf(calls, "prompt") /\ Calls("accepted") = CallsOf(calls, "accepted")
                  /\ Calls("rejected") = CallsOf(calls, "rejected")
                  /\ Calls("erase_last") = CallsOf(calls, "erase_last")
                  /\ Echoed = EchoRun(calls)
BY DEF Calls, CallsOf, Echoed, EchoRun, IsEchoRun

\* The texts behind n calls are extended by one call more.
LEMMA EchoRunExtends ==
    ASSUME NEW s, NEW n \in Nat, NEW g, IsEchoRun(g, s, n)
    PROVE  \E f : IsEchoRun(f, s, n + 1) /\ \A i \in 0 .. n : f[i] = g[i]
<1> DEFINE f == [i \in 0 .. n + 1 |-> IF i = n + 1 THEN Echo(g[n], s[n + 1]) ELSE g[i]]
<1>1. ASSUME NEW i \in 0 .. n + 1
      PROVE  f[i] = IF i = 0 THEN << >> ELSE Echo(f[i - 1], s[i])
  <2>1. CASE i = n + 1
    BY <2>1
  <2>2. CASE i # n + 1
    <3>1. i \in 0 .. n /\ f[i] = g[i] /\ (i # 0 => i - 1 \in 0 .. n /\ f[i - 1] = g[i - 1])
      BY <2>2
    <3>2. g[i] = IF i = 0 THEN << >> ELSE Echo(g[i - 1], s[i])
      BY <3>1 DEF IsEchoRun
    <3> QED
      BY <3>1, <3>2
  <2> QED
    BY <2>1, <2>2
<1>2. f = [i \in 0 .. n + 1 |-> f[i]] /\ \A i \in 0 .. n : f[i] = g[i]
  OBVIOUS
<1> HIDE DEF f
<1>3. IsEchoRun(f, s, n + 1)
  BY <1>1, <1>2 DEF IsEchoRun
<1> QED
  BY <1>2, <1>3

\* So there are such texts for any number of calls.
LEMMA EchoRunExists ==
    ASSUME NEW s, NEW n \in Nat
    PROVE  \E f : IsEchoRun(f, s, n)
<1> DEFINE S == {m \in Nat : \E f : IsEchoRun(f, s, m)}
<1>1. 0 \in S
  <2>1. IsEchoRun([i \in 0 .. 0 |-> << >>], s, 0)
    BY DEF IsEchoRun
  <2> QED
    BY <2>1
<1>2. ASSUME NEW m \in Nat, m \in S PROVE m + 1 \in S
  BY <1>2, EchoRunExtends
<1> QED
  <2> HIDE DEF S
  <2>1. Nat \subseteq S
    BY <1>1, <1>2, SetInduction
  <2> QED
    BY <2>1 DEF S

\* Step by step: the text before the first call, and behind each.
LEMMA EchoRunIs ==
    ASSUME NEW s, Len(s) \in Nat
    PROVE  /\ EchoRun(s)[0] = << >>
           /\ \A i \in 1 .. Len(s) : EchoRun(s)[i] = Echo(EchoRun(s)[i - 1], s[i])
<1> DEFINE run == EchoRun(s)
<1>1. IsEchoRun(run, s, Len(s))
  BY EchoRunExists DEF EchoRun
<1> HIDE DEF run
<1>2. run[0] = << >> /\ \A i \in 1 .. Len(s) : run[i] = Echo(run[i - 1], s[i])
  BY <1>1 DEF IsEchoRun
<1> QED
  BY <1>2 DEF run

\* One call more leaves the texts behind the calls before it as they were.
LEMMA EchoAppend ==
    ASSUME NEW s \in Seq(CallSet), NEW c \in CallSet
    PROVE  LET t == Append(s, c)
           IN  /\ \A i \in 0 .. Len(s) : EchoRun(t)[i] = EchoRun(s)[i]
               /\ EchoRun(t)[Len(t)] = Echo(EchoRun(s)[Len(s)], c)
<1> DEFINE t == Append(s, c)
           n == Len(s)
           f == EchoRun(s)
           g == EchoRun(t)
           S == {i \in Nat : i <= n => g[i] = f[i]}
<1>1. /\ n \in Nat /\ Len(t) = n + 1 /\ t[n + 1] = c
      /\ \A i \in 1 .. n : t[i] = s[i]
  OBVIOUS
<1>2. /\ f[0] = << >> /\ \A i \in 1 .. n : f[i] = Echo(f[i - 1], s[i])
  BY <1>1, EchoRunIs
<1>3. /\ g[0] = << >> /\ \A i \in 1 .. n + 1 : g[i] = Echo(g[i - 1], t[i])
  <2> HIDE DEF t
  <2> QED
    BY <1>1, EchoRunIs
<1> HIDE DEF t, n, f, g
<1>4. ASSUME NEW i \in Nat, i \in S PROVE i + 1 \in S
  <2> SUFFICES ASSUME i + 1 <= n PROVE g[i + 1] = f[i + 1]
    OBVIOUS
  <2>1. i + 1 \in 1 .. n /\ i + 1 \in 1 .. n + 1 /\ (i + 1) - 1 = i /\ i <= n
    BY <1>1
  <2> QED
    BY <1>1, <1>2, <1>3, <1>4, <2>1
<1>5. \A i \in 0 .. n : g[i] = f[i]
  <2>1. 0 \in S
    BY <1>2, <1>3
  <2> HIDE DEF S
  <2>2. Nat \subseteq S
    BY <1>4, <2>1, SetInduction
  <2> QED
    BY <1>1, <2>2 DEF S
<1>6. g[n + 1] = Echo(f[n], c)
  <2>1. n + 1 \in 1 .. n + 1 /\ (n + 1) - 1 = n /\ n \in 0 .. n
    BY <1>1
  <2> QED
    BY <1>1, <1>3, <1>5, <2>1
<1> QED
  BY <1>1, <1>5, <1>6 DEF t, n, f, g

\* Every line accepted is the text echoed, and every erase finds a text.
Agrees(s) ==
    /\ \A i \in CallsOf(s, "accepted") : s[i].line = EchoRun(s)[i - 1]
    /\ \A i \in CallsOf(s, "erase_last") : EchoRun(s)[i - 1] # << >>

\* One call more that does so too.
LEMMA AgreesOn ==
    ASSUME NEW s \in Seq(CallSet), NEW c \in CallSet, Agrees(s),
           c.call = "accepted" => c.line = EchoRun(s)[Len(s)],
           c.call = "erase_last" => EchoRun(s)[Len(s)] # << >>
    PROVE  /\ Agrees(Append(s, c))
           /\ EchoRun(Append(s, c))[Len(Append(s, c))] = Echo(EchoRun(s)[Len(s)], c)
<1> DEFINE t == Append(s, c)
<1>1. /\ Len(s) \in Nat /\ Len(t) = Len(s) + 1 /\ t[Len(s) + 1] = c
      /\ \A i \in 1 .. Len(s) : t[i] = s[i]
      OBVIOUS
<1>2. /\ \A i \in 0 .. Len(s) : EchoRun(t)[i] = EchoRun(s)[i]
      /\ EchoRun(t)[Len(t)] = Echo(EchoRun(s)[Len(s)], c)
      BY EchoAppend
<1> HIDE DEF t
<1>3. ASSUME NEW i \in 1 .. Len(t)
      PROVE  /\ t[i].call = "accepted" => t[i].line = EchoRun(t)[i - 1]
             /\ t[i].call = "erase_last" => EchoRun(t)[i - 1] # << >>
  <2>1. i - 1 \in 0 .. Len(s) /\ EchoRun(t)[i - 1] = EchoRun(s)[i - 1]
        BY <1>1, <1>2
  <2>2. CASE i \in 1 .. Len(s)
        BY <1>1, <2>1, <2>2 DEF Agrees, CallsOf
  <2>3. CASE i = Len(s) + 1
        BY <1>1, <2>1, <2>3
  <2> QED
      BY <1>1, <2>2, <2>3
<1> QED
    BY <1>2, <1>3 DEF Agrees, CallsOf, t

\* What is echoed stays the buffer.
LEMMA EchoStep ==
    ASSUME EditorTypeOK, EchoIsBuffer, NEW key \in Keys, ProcessKey(key)
    PROVE  EchoIsBuffer'
<1>1. /\ ~overflow /\ calls \in Seq(CallSet) /\ Len(calls) \in Nat
      /\ editor.buffer \in Seq(Printable) /\ Len(editor.buffer) \in Nat
      /\ \/ Quiet(key) \/ Resumes(key) \/ Accepts(key) \/ Erases(key) \/ Inserts(key)
         \/ Rejects(key) \/ Stops
      BY KeyStep DEF EditorTypeOK, EditorShape
<1>2. Agrees(calls) /\ (~editor.discard => editor.buffer = EchoRun(calls)[Len(calls)])
      BY <1>1, EchoedIs DEF EchoIsBuffer, Agrees
<1>3. SUFFICES Agrees(calls') /\ (~overflow' /\ ~editor'.discard =>
                                     editor'.buffer = EchoRun(calls')[Len(calls')])
  <2>1. EchoedIs'
        BY EchoedIs, PTL
  <2> QED
      BY <2>1 DEF EchoIsBuffer, Agrees
<1>5. CASE Quiet(key)
      BY <1>2, <1>5 DEF Quiet, Step
<1>6. CASE Stops
      BY <1>2, <1>6 DEF Stops
<1>7. ASSUME NEW index \in Nat, NEW line \in Seq(Printable), NEW name \in {"prompt", "accepted", "rejected", "erase_last", "live_ascii"}
      PROVE  /\ [call |-> name, index |-> index, line |-> line] \in CallSet
      BY DEF CallSet
<1>8. editor.prompt_index \in Nat /\ editor.prompt_index + 1 \in Nat /\ << >> \in Seq(Printable)
      BY DEF EditorTypeOK, EditorShape
<1>9. CASE Resumes(key)
  <2> DEFINE c == CallPrompt(editor.prompt_index + 1)
  <2>1. c \in CallSet /\ c.call = "prompt"
        BY <1>7, <1>8 DEF CallPrompt
  <2>2. calls' = Append(calls, c) /\ editor'.buffer = << >>
        BY <1>9 DEF Resumes, Step
  <2> HIDE DEF c
  <2>3. Agrees(calls') /\ EchoRun(calls')[Len(calls')] = Echo(EchoRun(calls)[Len(calls)], c)
        BY <1>1, <1>2, <2>1, <2>2, AgreesOn
  <2> QED
      BY <2>1, <2>2, <2>3 DEF Echo
<1>10. CASE Accepts(key)
  <2> DEFINE a == CallAccepted(editor.prompt_index, editor.buffer)
             c == CallPrompt(editor.prompt_index + 1)
             one == Append(calls, a)
  <2>1. /\ c \in CallSet /\ c.call = "prompt"
        /\ a \in CallSet /\ a.call = "accepted" /\ a.line = editor.buffer
        BY <1>1, <1>7, <1>8 DEF CallPrompt, CallAccepted
  <2>2. calls' = Append(one, c) /\ editor'.buffer = << >> /\ ~editor.discard
        BY <1>10 DEF Accepts, Step
  <2> HIDE DEF a, c
  <2>3. one \in Seq(CallSet)
        BY <1>1, <2>1
  <2>4. Agrees(one)
        BY <1>1, <1>2, <2>1, <2>2, AgreesOn
  <2> HIDE DEF one
  <2>5. Agrees(calls') /\ EchoRun(calls')[Len(calls')] = Echo(EchoRun(one)[Len(one)], c)
        BY <2>1, <2>2, <2>3, <2>4, AgreesOn
  <2> QED
      BY <2>1, <2>2, <2>5 DEF Echo
<1>11. CASE Erases(key)
  <2>1. CallErase \in CallSet /\ CallErase.call = "erase_last"
        BY <1>7, <1>8 DEF CallErase
  <2>2. /\ calls' = Append(calls, CallErase) /\ ~editor.discard /\ editor.buffer # << >>
        /\ editor'.buffer = SubSeq(editor.buffer, 1, Len(editor.buffer) - 1)
        BY <1>11 DEF Erases, Step
  <2>3. /\ Agrees(calls')
        /\ EchoRun(calls')[Len(calls')] = Echo(EchoRun(calls)[Len(calls)], CallErase)
        BY <1>1, <1>2, <2>1, <2>2, AgreesOn
  <2> QED
      BY <1>2, <2>1, <2>2, <2>3 DEF Echo
<1>12. CASE Inserts(key)
  <2>1. /\ CallLive(key) \in CallSet /\ CallLive(key).call = "live_ascii"
        /\ CallLive(key).line = <<key>> /\ key \in Printable
    <3>1. <<key>> \in Seq(Printable)
          BY <1>12 DEF Inserts
    <3> QED
        BY <1>7, <1>12, <3>1 DEF CallLive, Inserts
  <2>2. /\ calls' = Append(calls, CallLive(key)) /\ ~editor.discard
        /\ editor'.buffer = Append(editor.buffer, key)
        BY <1>12 DEF Inserts, Step
  <2>3. /\ Agrees(calls')
        /\ EchoRun(calls')[Len(calls')] = Echo(EchoRun(calls)[Len(calls)], CallLive(key))
        BY <1>1, <1>2, <2>1, <2>2, AgreesOn
  <2>4. Append(editor.buffer, key) = editor.buffer \o <<key>>
        BY <1>1, <2>1
  <2> QED
      BY <1>2, <2>1, <2>2, <2>3, <2>4 DEF Echo
<1>13. CASE Rejects(key)
  <2> DEFINE c == CallRejected(editor.prompt_index)
  <2>1. c \in CallSet /\ c.call = "rejected"
        BY <1>7, <1>8 DEF CallRejected
  <2>2. calls' = Append(calls, c) /\ editor'.discard = TRUE
        BY <1>13 DEF Rejects, Step
  <2> HIDE DEF c
  <2>3. Agrees(calls')
        BY <1>1, <1>2, <2>1, <2>2, AgreesOn
  <2> QED
      BY <2>2, <2>3
<1> QED
    BY <1>1, <1>5, <1>6, <1>9, <1>10, <1>11, <1>12, <1>13

-----------------------------------------------------------------------------
(* The line editor: prompts and verdicts.                                   *)

VerdictsOf(s) == CallsOf(s, "accepted") \cup CallsOf(s, "rejected")

\* Calls in which the index prompted for last is this one.
InOrder(s, index) ==
    /\ \A i, j \in CallsOf(s, "prompt") : i < j => s[i].index < s[j].index
    /\ \A i, j \in VerdictsOf(s) : s[i].index = s[j].index => i = j
    /\ \A i \in VerdictsOf(s) :
          /\ \E j \in CallsOf(s, "prompt") : j < i /\ s[j].index = s[i].index
          /\ \A j \in CallsOf(s, "prompt") : s[j].index > s[i].index => j > i
    /\ \A i \in CallsOf(s, "prompt") \cup VerdictsOf(s) : s[i].index <= index
    /\ \E i \in CallsOf(s, "prompt") : s[i].index = index

\* This index has no verdict yet.
Unanswered(s, index) == \A i \in VerdictsOf(s) : s[i].index # index

VerdictInv ==
    /\ InOrder(calls, editor.prompt_index)
    /\ ~overflow /\ ~editor.discard => Unanswered(calls, editor.prompt_index)

\* t is s, of length n, with the call c added.
Grown(s, c, t, n) ==
    /\ n \in Nat /\ t[n + 1] = c
    /\ \A i \in 1 .. n : t[i] = s[i] /\ s[i].index \in Nat
    /\ CallsOf(s, "prompt") \subseteq 1 .. n /\ VerdictsOf(s) \subseteq 1 .. n
    /\ CallsOf(t, "prompt") = CallsOf(s, "prompt") \cup (IF c.call = "prompt" THEN {n + 1} ELSE {})
    /\ VerdictsOf(t) = VerdictsOf(s) \cup
                       (IF c.call \in {"accepted", "rejected"} THEN {n + 1} ELSE {})

\* The positions of the calls when one is added.
LEMMA Positions ==
    ASSUME NEW s \in Seq(CallSet), NEW c \in CallSet
    PROVE  Grown(s, c, Append(s, c), Len(s))
<1> DEFINE t == Append(s, c)
           n == Len(s)
<1>1. /\ n \in Nat /\ Len(t) = n + 1 /\ t[n + 1] = c
      /\ \A i \in 1 .. n : t[i] = s[i]
      OBVIOUS
<1>2. \A i \in 1 .. n : s[i] \in CallSet
      OBVIOUS
<1>3. \A i \in 1 .. n : s[i].index \in Nat
      BY <1>2 DEF CallSet
<1>4. \A name : CallsOf(t, name) = CallsOf(s, name) \cup (IF c.call = name THEN {n + 1} ELSE {})
      BY <1>1 DEF CallsOf
<1>5. \A name : CallsOf(s, name) \subseteq 1 .. n
      BY DEF CallsOf
<1>6. VerdictsOf(t) = VerdictsOf(s) \cup (IF c.call \in {"accepted", "rejected"} THEN {n + 1} ELSE {})
      BY <1>4 DEF VerdictsOf
<1> QED
    BY <1>1, <1>3, <1>4, <1>5, <1>6 DEF VerdictsOf, Grown

\* The next prompt.
LEMMA AddPrompt ==
    ASSUME NEW s \in Seq(CallSet), NEW index \in Nat, NEW c \in CallSet, InOrder(s, index),
           c.call = "prompt", c.index = index + 1
    PROVE  InOrder(Append(s, c), index + 1) /\ Unanswered(Append(s, c), index + 1)
<1> DEFINE t == Append(s, c)
           n == Len(s)
<1>0. t = Append(s, c) /\ n = Len(s)
      OBVIOUS
<1> HIDE DEF t, n
<1>1. Grown(s, c, t, n)
      BY <1>0, Positions
<1> DEFINE P == CallsOf(s, "prompt")
           V == VerdictsOf(s)
<1>2. CallsOf(t, "prompt") = P \cup {n + 1} /\ VerdictsOf(t) = V
      BY <1>1 DEF Grown
<1>3. /\ \A i \in P \cup V : i \in Int /\ i < n + 1 /\ t[i].index = s[i].index /\ s[i].index \in Nat
      /\ t[n + 1].index = index + 1 /\ n + 1 \in Int
      BY <1>1 DEF Grown
<1>4. /\ \A i, j \in P : i < j => s[i].index < s[j].index
      /\ \A i, j \in V : s[i].index = s[j].index => i = j
      BY DEF InOrder
<1>5. \A i \in V : /\ \E j \in P : j < i /\ s[j].index = s[i].index
                   /\ \A j \in P : s[j].index > s[i].index => j > i
      BY DEF InOrder
<1>6. \A i \in P \cup V : s[i].index <= index
      BY DEF InOrder
<1> HIDE DEF P, V
<1>7. \A i, j \in P \cup {n + 1} : i < j => t[i].index < t[j].index
      BY <1>3, <1>4, <1>6
<1>8. \A i, j \in V : t[i].index = t[j].index => i = j
      BY <1>3, <1>4
<1>9. ASSUME NEW i \in V
      PROVE  /\ \E j \in P \cup {n + 1} : j < i /\ t[j].index = t[i].index
             /\ \A j \in P \cup {n + 1} : t[j].index > t[i].index => j > i
  <2>1. PICK j \in P : j < i /\ s[j].index = s[i].index
        BY <1>5
  <2>2. j < i /\ t[j].index = t[i].index
        BY <1>3, <2>1
  <2>3. \A k \in P : t[k].index > t[i].index => k > i
        BY <1>3, <1>5
  <2>4. n + 1 > i
        BY <1>3
  <2> QED
      BY <2>2, <2>3, <2>4
<1>10. \A i \in (P \cup {n + 1}) \cup V : t[i].index <= index + 1
       BY <1>3, <1>6
<1>11. \A i \in V : t[i].index # index + 1
       BY <1>3, <1>6
<1>12. InOrder(t, index + 1)
       BY <1>2, <1>3, <1>7, <1>8, <1>9, <1>10 DEF InOrder
<1>13. Unanswered(t, index + 1)
       BY <1>2, <1>11 DEF Unanswered
<1> QED
    BY <1>0, <1>12, <1>13

\* The verdict on the index that is open.
LEMMA AddVerdict ==
    ASSUME NEW s \in Seq(CallSet), NEW index \in Nat, NEW c \in CallSet, InOrder(s, index),
           Unanswered(s, index), c.call \in {"accepted", "rejected"}, c.index = index
    PROVE  InOrder(Append(s, c), index)
<1> DEFINE t == Append(s, c)
           n == Len(s)
<1>0. t = Append(s, c) /\ n = Len(s)
      OBVIOUS
<1> HIDE DEF t, n
<1>1. Grown(s, c, t, n)
      BY <1>0, Positions
<1> DEFINE P == CallsOf(s, "prompt")
           V == VerdictsOf(s)
<1>2. CallsOf(t, "prompt") = P /\ VerdictsOf(t) = V \cup {n + 1}
      BY <1>1 DEF Grown
<1>3. /\ \A i \in P \cup V : i \in Int /\ i < n + 1 /\ t[i].index = s[i].index /\ s[i].index \in Nat
      /\ t[n + 1].index = index /\ n + 1 \in Int
      BY <1>1 DEF Grown
<1>4. /\ \A i, j \in P : i < j => s[i].index < s[j].index
      /\ \A i, j \in V : s[i].index = s[j].index => i = j
      BY DEF InOrder
<1>5. \A i \in V : /\ \E j \in P : j < i /\ s[j].index = s[i].index
                   /\ \A j \in P : s[j].index > s[i].index => j > i
      BY DEF InOrder
<1>6. /\ \A i \in P \cup V : s[i].index <= index
      /\ \E i \in P : s[i].index = index
      BY DEF InOrder
<1>7. \A i \in V : s[i].index # index
      BY DEF Unanswered
<1> HIDE DEF P, V
<1>8. \A i, j \in P : i < j => t[i].index < t[j].index
      BY <1>3, <1>4
<1>9. \A i, j \in V \cup {n + 1} : t[i].index = t[j].index => i = j
      BY <1>3, <1>4, <1>7
<1>10. ASSUME NEW i \in V \cup {n + 1}
       PROVE  /\ \E j \in P : j < i /\ t[j].index = t[i].index
              /\ \A j \in P : t[j].index > t[i].index => j > i
  <2>1. CASE i \in V
    <3>1. PICK j \in P : j < i /\ s[j].index = s[i].index
          BY <1>5, <2>1
    <3>2. j < i /\ t[j].index = t[i].index
          BY <1>3, <2>1, <3>1
    <3>3. \A k \in P : t[k].index > t[i].index => k > i
          BY <1>3, <1>5, <2>1
    <3> QED
        BY <3>2, <3>3
  <2>2. CASE i = n + 1
    <3>1. PICK j \in P : s[j].index = index
          BY <1>6
    <3>2. j < i /\ t[j].index = t[i].index
          BY <1>3, <2>2, <3>1
    <3>3. \A k \in P : ~(t[k].index > t[i].index)
          BY <1>3, <1>6, <2>2
    <3> QED
        BY <3>2, <3>3
  <2> QED
      BY <2>1, <2>2
<1>11. \A i \in P \cup (V \cup {n + 1}) : t[i].index <= index
       BY <1>3, <1>6
<1>12. \E i \in P : t[i].index = index
       BY <1>3, <1>6
<1>13. InOrder(t, index)
       BY <1>2, <1>8, <1>9, <1>10, <1>11, <1>12 DEF InOrder
<1> QED
    BY <1>0, <1>13

\* An echo says nothing about an index.
LEMMA AddEcho ==
    ASSUME NEW s \in Seq(CallSet), NEW index \in Nat, NEW c \in CallSet, InOrder(s, index),
           c.call \in {"live_ascii", "erase_last"}
    PROVE  /\ InOrder(Append(s, c), index)
           /\ Unanswered(s, index) => Unanswered(Append(s, c), index)
<1> DEFINE t == Append(s, c)
           n == Len(s)
<1>0. t = Append(s, c) /\ n = Len(s)
      OBVIOUS
<1> HIDE DEF t, n
<1>1. Grown(s, c, t, n)
      BY <1>0, Positions
<1>2. CallsOf(t, "prompt") = CallsOf(s, "prompt") /\ VerdictsOf(t) = VerdictsOf(s)
      BY <1>1 DEF Grown
<1>3. \A i \in CallsOf(s, "prompt") \cup VerdictsOf(s) : t[i] = s[i]
      BY <1>1 DEF Grown
<1>4. InOrder(t, index)
      BY <1>2, <1>3 DEF InOrder
<1>5. Unanswered(s, index) => Unanswered(t, index)
      BY <1>2, <1>3 DEF Unanswered
<1> QED
    BY <1>0, <1>4, <1>5

\* Prompts and verdicts stay in order.
LEMMA VerdictStep ==
    ASSUME EditorTypeOK, VerdictInv, NEW key \in Keys, ProcessKey(key)
    PROVE  VerdictInv'
<1>1. /\ ~overflow /\ calls \in Seq(CallSet) /\ editor.buffer \in Seq(Printable)
      /\ editor.prompt_index \in Nat /\ editor.prompt_index + 1 \in Nat /\ << >> \in Seq(Printable)
      /\ \/ Quiet(key) \/ Resumes(key) \/ Accepts(key) \/ Erases(key) \/ Inserts(key)
         \/ Rejects(key) \/ Stops
      BY KeyStep DEF EditorTypeOK, EditorShape
<1>2. /\ InOrder(calls, editor.prompt_index)
      /\ ~editor.discard => Unanswered(calls, editor.prompt_index)
      BY <1>1 DEF VerdictInv
<1>3. ASSUME NEW index \in Nat, NEW line \in Seq(Printable),
             NEW name \in {"prompt", "accepted", "rejected", "erase_last", "live_ascii"}
      PROVE  [call |-> name, index |-> index, line |-> line] \in CallSet
      BY DEF CallSet
<1>4. CASE Quiet(key)
      BY <1>1, <1>2, <1>4 DEF Quiet, Step, VerdictInv
<1>5. CASE Stops
      BY <1>2, <1>5 DEF Stops, VerdictInv
<1>6. CASE Resumes(key)
  <2> DEFINE c == CallPrompt(editor.prompt_index + 1)
  <2>1. c \in CallSet /\ c.call = "prompt" /\ c.index = editor.prompt_index + 1
        BY <1>1, <1>3 DEF CallPrompt
  <2>2. calls' = Append(calls, c) /\ editor'.prompt_index = editor.prompt_index + 1
        BY <1>6 DEF Resumes, Step
  <2> HIDE DEF c
  <2> QED
      BY <1>1, <1>2, <2>1, <2>2, AddPrompt DEF VerdictInv
<1>7. CASE Accepts(key)
  <2> DEFINE a == CallAccepted(editor.prompt_index, editor.buffer)
             c == CallPrompt(editor.prompt_index + 1)
             one == Append(calls, a)
  <2>1. /\ c \in CallSet /\ c.call = "prompt" /\ c.index = editor.prompt_index + 1
        /\ a \in CallSet /\ a.call = "accepted" /\ a.index = editor.prompt_index
        BY <1>1, <1>3 DEF CallPrompt, CallAccepted
  <2>2. /\ calls' = Append(one, c) /\ editor'.prompt_index = editor.prompt_index + 1
        /\ ~editor.discard
        BY <1>7 DEF Accepts, Step
  <2> HIDE DEF a, c
  <2>3. one \in Seq(CallSet)
        BY <1>1, <2>1
  <2>4. InOrder(one, editor.prompt_index)
        BY <1>1, <1>2, <2>1, <2>2, AddVerdict
  <2> HIDE DEF one
  <2> QED
      BY <1>1, <2>1, <2>2, <2>3, <2>4, AddPrompt DEF VerdictInv
<1>8. CASE Erases(key) \/ Inserts(key)
  <2>1. PICK c \in CallSet : /\ calls' = Append(calls, c) /\ c.call \in {"erase_last", "live_ascii"}
    <3>1. CASE Erases(key)
      <4>1. CallErase \in CallSet /\ CallErase.call = "erase_last"
            BY <1>1, <1>3 DEF CallErase
      <4> QED
          BY <3>1, <4>1 DEF Erases
    <3>2. CASE Inserts(key)
      <4>1. <<key>> \in Seq(Printable)
            BY <3>2 DEF Inserts
      <4>2. CallLive(key) \in CallSet /\ CallLive(key).call = "live_ascii"
            BY <1>3, <4>1 DEF CallLive
      <4> QED
          BY <3>2, <4>2 DEF Inserts
    <3> QED
        BY <1>8, <3>1, <3>2
  <2>2. editor'.prompt_index = editor.prompt_index /\ ~editor.discard
        BY <1>8 DEF Erases, Inserts, Step
  <2> QED
      BY <1>1, <1>2, <2>1, <2>2, AddEcho DEF VerdictInv
<1>9. CASE Rejects(key)
  <2> DEFINE c == CallRejected(editor.prompt_index)
  <2>1. c \in CallSet /\ c.call = "rejected" /\ c.index = editor.prompt_index
        BY <1>1, <1>3 DEF CallRejected
  <2>2. /\ calls' = Append(calls, c) /\ editor'.discard = TRUE /\ ~editor.discard
        /\ editor'.prompt_index = editor.prompt_index
        BY <1>9 DEF Rejects, Step
  <2> HIDE DEF c
  <2> QED
      BY <1>1, <1>2, <2>1, <2>2, AddVerdict DEF VerdictInv
<1> QED
    BY <1>1, <1>4, <1>5, <1>6, <1>7, <1>8, <1>9

-----------------------------------------------------------------------------
(* The line editor: which line ends count.                                  *)

RunOf(s, i) == {j \in 1 .. i : \A k \in j .. i : s[k] \in Enter /\ (k > j => s[k] # s[k - 1])}
CountedOf(s) == {i \in 1 .. Len(s) : s[i] \in Enter /\ Cardinality(RunOf(s, i)) % 2 = 1}

\* The line end whose other half may still come.
Owed(s) == IF Len(s) > 0 /\ s[Len(s)] \in Enter /\ Cardinality(RunOf(s, Len(s))) % 2 = 1
           THEN s[Len(s)] ELSE "none"

\* The editor remembers the last line end that counted, and has counted them all.
RunInv ==
    ~overflow => /\ editor.pending = Owed(keys)
                 /\ editor.prompt_index = 1 + Cardinality(CountedOf(keys))

\* The runs of t, which is s, of length n, with a key more.
RunsOn(s, key, t, n) ==
    /\ \A i \in 1 .. n : RunOf(t, i) = RunOf(s, i)
    /\ key \notin Enter => RunOf(t, n + 1) = {}
    /\ key \in Enter /\ n > 0 /\ s[n] \in Enter /\ key # s[n] =>
          RunOf(t, n + 1) = RunOf(s, n) \cup {n + 1}
    /\ key \in Enter /\ ~(n > 0 /\ s[n] \in Enter /\ key # s[n]) => RunOf(t, n + 1) = {n + 1}

\* One key more leaves the runs before it alone; it joins the run it alternates with.
LEMMA RunAppend ==
    ASSUME NEW s \in Seq(Keys), NEW key \in Keys
    PROVE  RunsOn(s, key, Append(s, key), Len(s))
<1> DEFINE t == Append(s, key)
           n == Len(s)
<1>1. /\ n \in Nat /\ Len(t) = n + 1 /\ t[n + 1] = key
      /\ \A i \in 1 .. n : t[i] = s[i]
      OBVIOUS
<1>2. ASSUME NEW i \in 1 .. n
      PROVE  RunOf(t, i) = RunOf(s, i)
  <2>1. ASSUME NEW j \in 1 .. i, NEW k \in j .. i
        PROVE  t[k] = s[k] /\ (k > j => t[k - 1] = s[k - 1])
        BY <1>1
  <2> QED
      BY <1>1, <2>1 DEF RunOf
<1>3. ASSUME key \notin Enter
      PROVE  RunOf(t, n + 1) = {}
      BY <1>1, <1>3 DEF RunOf
<1>4. ASSUME key \in Enter, n > 0, s[n] \in Enter, key # s[n]
      PROVE  RunOf(t, n + 1) = RunOf(s, n) \cup {n + 1}
  <2>1. ASSUME NEW j \in 1 .. n, j \in RunOf(s, n)
        PROVE  j \in RunOf(t, n + 1)
    <3>1. ASSUME NEW k \in j .. n + 1
          PROVE  t[k] \in Enter /\ (k > j => t[k] # t[k - 1])
      <4>1. CASE k = n + 1
            BY <1>1, <1>4, <4>1
      <4>2. CASE k \in j .. n
        <5>1. s[k] \in Enter /\ (k > j => s[k] # s[k - 1])
              BY <2>1, <4>2 DEF RunOf
        <5>2. t[k] = s[k] /\ (k > j => t[k - 1] = s[k - 1])
              BY <1>1, <4>2
        <5> QED
            BY <5>1, <5>2
      <4> QED
          BY <1>1, <3>1, <4>1, <4>2
    <3>2. j \in 1 .. n + 1
          BY <1>1
    <3> QED
        BY <3>1, <3>2 DEF RunOf
  <2>2. ASSUME NEW j \in 1 .. n, j \in RunOf(t, n + 1)
        PROVE  j \in RunOf(s, n)
    <3>1. ASSUME NEW k \in j .. n
          PROVE  s[k] \in Enter /\ (k > j => s[k] # s[k - 1])
      <4>1. k \in j .. n + 1
            BY <1>1
      <4>2. t[k] \in Enter /\ (k > j => t[k] # t[k - 1])
            BY <2>2, <4>1 DEF RunOf
      <4>3. t[k] = s[k] /\ (k > j => t[k - 1] = s[k - 1])
            BY <1>1
      <4> QED
          BY <4>2, <4>3
    <3> QED
        BY <3>1 DEF RunOf
  <2>3. n + 1 \in RunOf(t, n + 1)
        BY <1>1, <1>4 DEF RunOf
  <2>4. RunOf(s, n) \subseteq 1 .. n /\ RunOf(t, n + 1) \subseteq (1 .. n) \cup {n + 1}
        BY <1>1 DEF RunOf
  <2> QED
      BY <2>1, <2>2, <2>3, <2>4
<1>5. ASSUME key \in Enter, ~(n > 0 /\ s[n] \in Enter /\ key # s[n])
      PROVE  RunOf(t, n + 1) = {n + 1}
  <2>1. n + 1 \in RunOf(t, n + 1)
        BY <1>1, <1>5 DEF RunOf
  <2>2. ASSUME NEW j \in 1 .. n
        PROVE  j \notin RunOf(t, n + 1)
    <3>1. n \in j .. n + 1 /\ n + 1 \in j .. n + 1 /\ n + 1 > j /\ (n + 1) - 1 = n /\ n \in 1 .. n
          BY <1>1
    <3>2. t[n] = s[n]
          BY <1>1, <3>1
    <3>3. j \in RunOf(t, n + 1) => t[n] \in Enter /\ t[n + 1] # t[n]
          BY <3>1 DEF RunOf
    <3> QED
        BY <1>1, <1>5, <3>1, <3>2, <3>3
  <2>3. RunOf(t, n + 1) \subseteq (1 .. n) \cup {n + 1}
        BY <1>1 DEF RunOf
  <2> QED
      BY <2>1, <2>2, <2>3
<1> QED
    BY <1>2, <1>3, <1>4, <1>5 DEF RunsOn

\* A key counts when it is a line end that is not the other half of the one before.
CountsAs(s, key, t, n) ==
    /\ IsFiniteSet(CountedOf(s)) /\ Cardinality(CountedOf(s)) \in Nat /\ n + 1 \notin CountedOf(s)
    /\ IF key \in Enter /\ ~Paired(Owed(s), key)
       THEN Owed(t) = key /\ CountedOf(t) = CountedOf(s) \cup {n + 1}
       ELSE Owed(t) = "none" /\ CountedOf(t) = CountedOf(s)

\* What one key more does to the line ends that count.
LEMMA CountAppend ==
    ASSUME NEW s \in Seq(Keys), NEW key \in Keys
    PROVE  CountsAs(s, key, Append(s, key), Len(s))
<1> DEFINE t == Append(s, key)
           n == Len(s)
           r == Cardinality(RunOf(s, n))
           q == Cardinality(RunOf(t, n + 1))
<1>1. /\ n \in Nat /\ Len(t) = n + 1 /\ t[n + 1] = key
      /\ \A i \in 1 .. n : t[i] = s[i]
      OBVIOUS
<1>2. t = Append(s, key) /\ n = Len(s)
      OBVIOUS
<1> HIDE DEF t, n
<1>3. RunsOn(s, key, t, n)
      BY <1>2, RunAppend
<1>4. /\ RunOf(s, n) \subseteq 1 .. n /\ n + 1 \notin RunOf(s, n)
      /\ IsFiniteSet(RunOf(s, n)) /\ r \in Nat
  <2>1. RunOf(s, n) \subseteq 1 .. n
        BY DEF RunOf
  <2> QED
      BY <1>1, <2>1, SomePositions
<1>5. /\ IsFiniteSet(CountedOf(s)) /\ Cardinality(CountedOf(s)) \in Nat /\ n + 1 \notin CountedOf(s)
  <2>1. CountedOf(s) \subseteq 1 .. n
        BY <1>2 DEF CountedOf
  <2> QED
      BY <1>1, <2>1, SomePositions
<1>6. /\ key \in Enter /\ n > 0 /\ s[n] \in Enter /\ key # s[n] => q = r + 1
      /\ key \in Enter /\ ~(n > 0 /\ s[n] \in Enter /\ key # s[n]) => q = 1
  <2>1. Cardinality(RunOf(s, n) \cup {n + 1}) = r + 1
        BY <1>4, FS_AddElement
  <2>2. Cardinality({n + 1}) = 1
        BY FS_Singleton
  <2> QED
      BY <1>3, <2>1, <2>2 DEF RunsOn
<1>7. Owed(s) = IF n > 0 /\ s[n] \in Enter /\ r % 2 = 1 THEN s[n] ELSE "none"
      BY <1>2 DEF Owed
<1>8. Owed(t) = IF key \in Enter /\ q % 2 = 1 THEN key ELSE "none"
      BY <1>1 DEF Owed
<1>9. CountedOf(t) = CountedOf(s) \cup (IF key \in Enter /\ q % 2 = 1 THEN {n + 1} ELSE {})
  <2>1. \A i \in 1 .. n : i \in CountedOf(t) <=> i \in CountedOf(s)
        BY <1>1, <1>2, <1>3 DEF CountedOf, RunsOn
  <2>2. n + 1 \in CountedOf(t) <=> key \in Enter /\ q % 2 = 1
        BY <1>1 DEF CountedOf
  <2>3. CountedOf(s) \subseteq 1 .. n /\ CountedOf(t) \subseteq (1 .. n) \cup {n + 1}
        BY <1>1, <1>2 DEF CountedOf
  <2> QED
      BY <1>1, <2>1, <2>2, <2>3
<1>10. key \in Enter => (q % 2 = 1 <=> ~Paired(Owed(s), key))
  <2> HIDE DEF r, q
  <2>1. CASE n > 0 /\ s[n] \in Enter /\ key # s[n]
    <3>1. Paired(s[n], key) <=> key \in Enter
          BY <2>1 DEF Paired, Enter
    <3>2. ~Paired("none", key)
          BY DEF Paired
    <3>3. (r + 1) % 2 = 1 <=> ~(r % 2 = 1)
          BY <1>4
    <3> QED
        BY <1>6, <1>7, <2>1, <3>1, <3>2, <3>3
  <2>2. CASE ~(n > 0 /\ s[n] \in Enter /\ key # s[n])
    <3>1. n > 0 /\ s[n] \in Enter => ~Paired(s[n], key)
          BY <2>2 DEF Paired, Enter
    <3>2. ~Paired("none", key)
          BY DEF Paired
    <3> QED
        BY <1>6, <1>7, <2>2, <3>1, <3>2
  <2> QED
      BY <2>1, <2>2
<1> QED
    BY <1>2, <1>5, <1>8, <1>9, <1>10 DEF CountsAs

\* The count stays right.
LEMMA RunStep ==
    ASSUME EditorTypeOK, RunInv, NEW key \in Keys, ProcessKey(key)
    PROVE  RunInv'
<1>1. /\ ~overflow /\ keys' = Append(keys, key) /\ keys \in Seq(Keys)
      /\ editor.prompt_index \in Nat
      /\ \/ Quiet(key) \/ Resumes(key) \/ Accepts(key) \/ Erases(key) \/ Inserts(key)
         \/ Rejects(key) \/ Stops
      BY KeyStep DEF EditorTypeOK, EditorShape
<1> DEFINE n == Len(keys)
<1>2. CountsAs(keys, key, keys', n)
      BY <1>1, CountAppend
<1>3. editor.pending = Owed(keys) /\ editor.prompt_index = 1 + Cardinality(CountedOf(keys))
      BY <1>1 DEF RunInv
<1>4. Printable \cap Enter = {}
      BY EditorAssumption
<1>5. CASE Stops
      BY <1>5 DEF Stops, RunInv
<1>6. CASE Resumes(key) \/ Accepts(key)
  <2>1. /\ key \in Enter /\ ~Paired(Owed(keys), key) /\ overflow' = FALSE
        /\ editor'.pending = key /\ editor'.prompt_index = editor.prompt_index + 1
        BY <1>3, <1>6 DEF Resumes, Accepts, Step
  <2> HIDE DEF n
  <2>2. /\ Owed(keys') = key /\ CountedOf(keys') = CountedOf(keys) \cup {n + 1}
        /\ IsFiniteSet(CountedOf(keys)) /\ n + 1 \notin CountedOf(keys)
        /\ Cardinality(CountedOf(keys)) \in Nat
        BY <1>2, <2>1 DEF CountsAs
  <2>3. Cardinality(CountedOf(keys')) = Cardinality(CountedOf(keys)) + 1
        BY <2>2, FS_AddElement
  <2> QED
      BY <1>3, <2>1, <2>2, <2>3 DEF RunInv
<1>7. CASE Quiet(key) \/ Erases(key) \/ Inserts(key) \/ Rejects(key)
  <2>1. /\ ~(key \in Enter /\ ~Paired(Owed(keys), key)) /\ overflow' = FALSE
        /\ editor'.pending = "none" /\ editor'.prompt_index = editor.prompt_index
        BY <1>3, <1>4, <1>7 DEF Quiet, Erases, Inserts, Rejects, Step
  <2>2. Owed(keys') = "none" /\ CountedOf(keys') = CountedOf(keys)
        BY <1>2, <2>1 DEF CountsAs
  <2> QED
      BY <1>3, <2>1, <2>2 DEF RunInv
<1> QED
    BY <1>1, <1>5, <1>6, <1>7

-----------------------------------------------------------------------------
(* The line editor: its theorems.                                           *)

EditorInv == EditorTypeOK /\ EchoIsBuffer /\ VerdictInv /\ RunInv

\* The editor that has asked for the first line.
LEMMA EditorStarts == EditorInit => EditorInv
<1> SUFFICES ASSUME EditorInit PROVE EditorInv
    OBVIOUS
<1> DEFINE c == CallPrompt(1)
<1>1. << >> \in Seq(Printable) /\ << >> \in Seq(Keys) /\ << >> \in Seq(CallSet)
      OBVIOUS
<1>2. c \in CallSet /\ c.call = "prompt" /\ c.index = 1
      BY <1>1 DEF CallPrompt, CallSet
<1>3. /\ editor = NewEditor /\ calls = <<c>> /\ keys = << >> /\ overflow = FALSE
      BY DEF EditorInit
<1> HIDE DEF c
<1>4. /\ calls \in Seq(CallSet) /\ Len(calls) = 1 /\ calls[1] = c /\ calls = Append(<< >>, c)
      BY <1>2, <1>3
<1>5. /\ DOMAIN editor = EditorFields /\ editor.buffer = << >> /\ editor.prompt_index = 1
      /\ editor.discard = FALSE /\ editor.pending = "none"
      BY <1>3 DEF NewEditor, EditorFields
<1>6. EditorTypeOK
  <2>1. 1 \in 1 .. MaxIndex
        BY EditorAssumption
  <2>2. EditorShape(editor)
        BY <1>1, <1>5, <2>1 DEF EditorShape
  <2> QED
      BY <1>1, <1>3, <1>4, <1>5, <2>2 DEF EditorTypeOK
<1>7. /\ CallsOf(calls, "prompt") = {1} /\ CallsOf(calls, "accepted") = {}
      /\ CallsOf(calls, "rejected") = {}
      BY <1>2, <1>4 DEF CallsOf
<1>8. EchoIsBuffer
  <2>1. EchoRun(<< >>)[Len(<< >>)] = << >> /\ Agrees(<< >>)
    <3>1. Len(<< >>) = 0
          OBVIOUS
    <3> QED
        BY <3>1, EchoRunIs DEF Agrees, CallsOf
  <2>2. Agrees(calls) /\ EchoRun(calls)[Len(calls)] = << >>
        BY <1>1, <1>2, <1>4, <2>1, AgreesOn DEF Echo
  <2> QED
      BY <1>3, <1>5, <2>2, EchoedIs DEF EchoIsBuffer, Agrees
<1>9. VerdictInv
  <2>1. VerdictsOf(calls) = {}
        BY <1>7 DEF VerdictsOf
  <2>2. InOrder(calls, 1) /\ Unanswered(calls, 1)
        BY <1>2, <1>4, <1>7, <2>1 DEF InOrder, Unanswered
  <2> QED
      BY <1>5, <2>2 DEF VerdictInv
<1>10. RunInv
  <2>1. CountedOf(keys) = {} /\ Owed(keys) = "none"
        BY <1>3 DEF CountedOf, Owed
  <2>2. Cardinality(CountedOf(keys)) = 0
        BY <2>1, FS_EmptySet
  <2> QED
      BY <1>5, <2>1, <2>2 DEF RunInv
<1> QED
    BY <1>6, <1>8, <1>9, <1>10 DEF EditorInv

\* The inductive invariant: the shape of the editor, the echo, the order of prompts
\* and verdicts, and the line ends counted.
THEOREM EditorInvariance == EditorSpec => []EditorInv
<1>1. EditorInv /\ [EditorNext]_editorVars => EditorInv'
  <2> SUFFICES ASSUME EditorInv, [EditorNext]_editorVars PROVE EditorInv'
      OBVIOUS
  <2>1. CASE EditorNext
    <3>1. PICK key \in Keys : ProcessKey(key)
          BY <2>1 DEF EditorNext
    <3> QED
        BY <3>1, KeyStep, EchoStep, VerdictStep, RunStep DEF EditorInv
  <2>2. CASE UNCHANGED editorVars
    <3>1. /\ EditorTypeOK' = EditorTypeOK
          BY <2>2 DEF editorVars, EditorTypeOK
    <3>2. EchoIsBuffer' = EchoIsBuffer
          BY <2>2 DEF editorVars, EchoIsBuffer, Echoed, Calls
    <3>3. VerdictInv' = VerdictInv /\ RunInv' = RunInv
          BY <2>2 DEF editorVars, VerdictInv, RunInv
    <3> QED
        BY <3>1, <3>2, <3>3 DEF EditorInv
  <2> QED
      BY <2>1, <2>2
<1> QED
    BY <1>1, EditorStarts, PTL DEF EditorSpec

\* What is echoed and not erased since the prompt is the buffer and the line that is
\* accepted (process_key in editor.rs), for any capacity and any keys.
THEOREM EchoIsExact == EditorSpec => []EchoIsBuffer
<1>1. EditorInv => EchoIsBuffer
      BY DEF EditorInv
<1> QED
    BY <1>1, EditorInvariance, PTL

\* CR, LF, CR LF and LF CR each end one line, every index is prompted for once and gets
\* at most one verdict, in order (process_key and its pending terminator).
THEOREM VerdictsInOrder == EditorSpec => []OneVerdictPerLine
<1>1. EditorInv => OneVerdictPerLine
  <2> SUFFICES ASSUME EditorInv PROVE OneVerdictPerLine
      OBVIOUS
  <2>1. \A i : AlternatingRun(i) = Cardinality(RunOf(keys, i))
        BY DEF AlternatingRun, RunOf
  <2>2. CountedOf(keys) = {i \in 1 .. Len(keys) : keys[i] \in Enter /\ AlternatingRun(i) % 2 = 1}
        BY <2>1 DEF CountedOf
  <2>3. ~overflow => editor.prompt_index = 1 + Cardinality(CountedOf(keys))
        BY DEF EditorInv, RunInv
  <2>4. InOrder(calls, editor.prompt_index)
        BY DEF EditorInv, VerdictInv
  <2>5. VerdictsOf(calls) = Calls("accepted") \cup Calls("rejected")
        BY EchoedIs DEF VerdictsOf
  <2> QED
      BY <2>2, <2>3, <2>4, <2>5, EchoedIs DEF InOrder, OneVerdictPerLine
<1> QED
    BY <1>1, EditorInvariance, PTL

-----------------------------------------------------------------------------
(* The console: what a sequence of units does.                              *)

\* One reduction brings an index back into the ring.
LEMMA RingIndex ==
    ASSUME NEW x \in Nat, x < 2 * HistoryLines
    PROVE  x % HistoryLines = IF x < HistoryLines THEN x ELSE x - HistoryLines
  BY GeometryAssumption

\* The histories between the units of a text.
IsHistoryRun(f, h, units, n) ==
    f = [i \in 0 .. n |-> IF i = 0 THEN h ELSE HistoryPut(f[i - 1], units[i])]

HistoryRun(h, units) == CHOOSE f : IsHistoryRun(f, h, units, Len(units))

\* HistoryWrite is the last history of the run.
LEMMA HistoryWriteIs ==
    ASSUME NEW h, NEW units
    PROVE  HistoryWrite(h, units) = HistoryRun(h, units)[Len(units)]
  BY DEF HistoryWrite, HistoryRun, IsHistoryRun

\* A run of any length exists.  It is extended by one unit, so the numbers for
\* which there is one contain zero and the successor of each of them.
LEMMA HistoryRunExists ==
    ASSUME NEW h, NEW units, NEW n \in Nat
    PROVE  \E f : IsHistoryRun(f, h, units, n)
<1> DEFINE S == {m \in Nat : \E f : IsHistoryRun(f, h, units, m)}
<1>1. 0 \in S
  <2>1. IsHistoryRun([i \in 0 .. 0 |-> h], h, units, 0)
    BY DEF IsHistoryRun
  <2> QED
    BY <2>1
<1>2. ASSUME NEW m \in Nat, m \in S PROVE m + 1 \in S
  <2>1. PICK g : IsHistoryRun(g, h, units, m)
    BY <1>2
  <2> DEFINE f == [i \in 0 .. m + 1 |-> IF i = m + 1 THEN HistoryPut(g[m], units[m + 1]) ELSE g[i]]
  <2>2. ASSUME NEW i \in 0 .. m + 1
        PROVE  f[i] = IF i = 0 THEN h ELSE HistoryPut(f[i - 1], units[i])
    <3>1. CASE i = m + 1
      BY <3>1
    <3>2. CASE i # m + 1
      <4>1. i \in 0 .. m /\ f[i] = g[i] /\ (i # 0 => i - 1 \in 0 .. m /\ f[i - 1] = g[i - 1])
        BY <3>2
      <4>2. g[i] = IF i = 0 THEN h ELSE HistoryPut(g[i - 1], units[i])
        BY <2>1, <4>1 DEF IsHistoryRun
      <4> QED
        BY <4>1, <4>2
    <3> QED
      BY <3>1, <3>2
  <2>3. IsHistoryRun(f, h, units, m + 1)
    <3>1. f = [i \in 0 .. m + 1 |-> f[i]]
      OBVIOUS
    <3> HIDE DEF f
    <3> QED
      BY <2>2, <3>1 DEF IsHistoryRun
  <2> HIDE DEF f
  <2> QED
    BY <2>3
<1> QED
  <2> HIDE DEF S
  <2>1. Nat \subseteq S
    BY <1>1, <1>2, SetInduction
  <2> QED
    BY <2>1 DEF S

\* So the run that is chosen is one.
LEMMA HistoryRunIs ==
    ASSUME NEW h, NEW units, Len(units) \in Nat
    PROVE  IsHistoryRun(HistoryRun(h, units), h, units, Len(units))
  BY HistoryRunExists DEF HistoryRun

\* The screens between the units of a string.
IsOutputRun(f, s, units, n) ==
    f = [i \in 0 .. n |-> IF i = 0 THEN s ELSE ScreenPut(f[i - 1], units[i])]

OutputRun(s, units) == CHOOSE f : IsOutputRun(f, s, units, Len(units))

\* OutputString is the last screen of the run.
LEMMA OutputStringIs ==
    ASSUME NEW s, NEW units
    PROVE  OutputString(s, units) = OutputRun(s, units)[Len(units)]
  BY DEF OutputString, OutputRun, IsOutputRun

\* A run of any length exists, as before.
LEMMA OutputRunExists ==
    ASSUME NEW s, NEW units, NEW n \in Nat
    PROVE  \E f : IsOutputRun(f, s, units, n)
<1> DEFINE S == {m \in Nat : \E f : IsOutputRun(f, s, units, m)}
<1>1. 0 \in S
  <2>1. IsOutputRun([i \in 0 .. 0 |-> s], s, units, 0)
    BY DEF IsOutputRun
  <2> QED
    BY <2>1
<1>2. ASSUME NEW m \in Nat, m \in S PROVE m + 1 \in S
  <2>1. PICK g : IsOutputRun(g, s, units, m)
    BY <1>2
  <2> DEFINE f == [i \in 0 .. m + 1 |-> IF i = m + 1 THEN ScreenPut(g[m], units[m + 1]) ELSE g[i]]
  <2>2. ASSUME NEW i \in 0 .. m + 1
        PROVE  f[i] = IF i = 0 THEN s ELSE ScreenPut(f[i - 1], units[i])
    <3>1. CASE i = m + 1
      BY <3>1
    <3>2. CASE i # m + 1
      <4>1. i \in 0 .. m /\ f[i] = g[i] /\ (i # 0 => i - 1 \in 0 .. m /\ f[i - 1] = g[i - 1])
        BY <3>2
      <4>2. g[i] = IF i = 0 THEN s ELSE ScreenPut(g[i - 1], units[i])
        BY <2>1, <4>1 DEF IsOutputRun
      <4> QED
        BY <4>1, <4>2
    <3> QED
      BY <3>1, <3>2
  <2>3. IsOutputRun(f, s, units, m + 1)
    <3>1. f = [i \in 0 .. m + 1 |-> f[i]]
      OBVIOUS
    <3> HIDE DEF f
    <3> QED
      BY <2>2, <3>1 DEF IsOutputRun
  <2> HIDE DEF f
  <2> QED
    BY <2>3
<1> QED
  <2> HIDE DEF S
  <2>1. Nat \subseteq S
    BY <1>1, <1>2, SetInduction
  <2> QED
    BY <2>1 DEF S

\* So the run that is chosen is one.
LEMMA OutputRunIs ==
    ASSUME NEW s, NEW units, Len(units) \in Nat
    PROVE  IsOutputRun(OutputRun(s, units), s, units, Len(units))
  BY OutputRunExists DEF OutputRun

\* The counts between the units of a text.
IsCountRun(f, units, column, row, n) ==
    f = [i \in 0 .. n |-> IF i = 0 THEN [column |-> column, row |-> row, scrolls |-> 0] ELSE CountScroll(f[i - 1], units[i])]

CountRun(units, column, row) == CHOOSE f : IsCountRun(f, units, column, row, Len(units))

\* native_scrolls_for_output is the last count of the run.
LEMMA native_scrolls_for_outputIs ==
    ASSUME NEW units, NEW column, NEW row
    PROVE  native_scrolls_for_output(units, column, row) = CountRun(units, column, row)[Len(units)].scrolls
  BY DEF native_scrolls_for_output, CountRun, IsCountRun

\* A run of any length exists, as before.
LEMMA CountRunExists ==
    ASSUME NEW units, NEW column, NEW row, NEW n \in Nat
    PROVE  \E f : IsCountRun(f, units, column, row, n)
<1> DEFINE S == {m \in Nat : \E f : IsCountRun(f, units, column, row, m)}
<1>1. 0 \in S
  <2>1. IsCountRun([i \in 0 .. 0 |-> [column |-> column, row |-> row, scrolls |-> 0]], units, column, row, 0)
    BY DEF IsCountRun
  <2> QED
    BY <2>1
<1>2. ASSUME NEW m \in Nat, m \in S PROVE m + 1 \in S
  <2>1. PICK g : IsCountRun(g, units, column, row, m)
    BY <1>2
  <2> DEFINE f == [i \in 0 .. m + 1 |-> IF i = m + 1 THEN CountScroll(g[m], units[m + 1]) ELSE g[i]]
  <2>2. ASSUME NEW i \in 0 .. m + 1
        PROVE  f[i] = IF i = 0 THEN [column |-> column, row |-> row, scrolls |-> 0] ELSE CountScroll(f[i - 1], units[i])
    <3>1. CASE i = m + 1
      BY <3>1
    <3>2. CASE i # m + 1
      <4>1. i \in 0 .. m /\ f[i] = g[i] /\ (i # 0 => i - 1 \in 0 .. m /\ f[i - 1] = g[i - 1])
        BY <3>2
      <4>2. g[i] = IF i = 0 THEN [column |-> column, row |-> row, scrolls |-> 0] ELSE CountScroll(g[i - 1], units[i])
        BY <2>1, <4>1 DEF IsCountRun
      <4> QED
        BY <4>1, <4>2
    <3> QED
      BY <3>1, <3>2
  <2>3. IsCountRun(f, units, column, row, m + 1)
    <3>1. f = [i \in 0 .. m + 1 |-> f[i]]
      OBVIOUS
    <3> HIDE DEF f
    <3> QED
      BY <2>2, <3>1 DEF IsCountRun
  <2> HIDE DEF f
  <2> QED
    BY <2>3
<1> QED
  <2> HIDE DEF S
  <2>1. Nat \subseteq S
    BY <1>1, <1>2, SetInduction
  <2> QED
    BY <2>1 DEF S

\* So the run that is chosen is one.
LEMMA CountRunIs ==
    ASSUME NEW units, NEW column, NEW row, Len(units) \in Nat
    PROVE  IsCountRun(CountRun(units, column, row), units, column, row, Len(units))
  BY CountRunExists DEF CountRun

\* The screens between the units of a wrapped text.
IsWrapRun(f, s, units, column, n) ==
    f = [i \in 0 .. n |-> IF i = 0 THEN [screen |-> s, column |-> column] ELSE WrapUnit(f[i - 1], units[i])]

WrapRun(s, units, column) == CHOOSE f : IsWrapRun(f, s, units, column, Len(units))

\* write_content_with_wrap leaves the last screen of the run.
LEMMA write_content_with_wrapIs ==
    ASSUME NEW s, NEW units, NEW column
    PROVE  write_content_with_wrap(s, units, column) = WrapRun(s, units, column)[Len(units)].screen
  BY DEF write_content_with_wrap, WrapRun, IsWrapRun

\* A run of any length exists, as before.
LEMMA WrapRunExists ==
    ASSUME NEW s, NEW units, NEW column, NEW n \in Nat
    PROVE  \E f : IsWrapRun(f, s, units, column, n)
<1> DEFINE S == {m \in Nat : \E f : IsWrapRun(f, s, units, column, m)}
<1>1. 0 \in S
  <2>1. IsWrapRun([i \in 0 .. 0 |-> [screen |-> s, column |-> column]], s, units, column, 0)
    BY DEF IsWrapRun
  <2> QED
    BY <2>1
<1>2. ASSUME NEW m \in Nat, m \in S PROVE m + 1 \in S
  <2>1. PICK g : IsWrapRun(g, s, units, column, m)
    BY <1>2
  <2> DEFINE f == [i \in 0 .. m + 1 |-> IF i = m + 1 THEN WrapUnit(g[m], units[m + 1]) ELSE g[i]]
  <2>2. ASSUME NEW i \in 0 .. m + 1
        PROVE  f[i] = IF i = 0 THEN [screen |-> s, column |-> column] ELSE WrapUnit(f[i - 1], units[i])
    <3>1. CASE i = m + 1
      BY <3>1
    <3>2. CASE i # m + 1
      <4>1. i \in 0 .. m /\ f[i] = g[i] /\ (i # 0 => i - 1 \in 0 .. m /\ f[i - 1] = g[i - 1])
        BY <3>2
      <4>2. g[i] = IF i = 0 THEN [screen |-> s, column |-> column] ELSE WrapUnit(g[i - 1], units[i])
        BY <2>1, <4>1 DEF IsWrapRun
      <4> QED
        BY <4>1, <4>2
    <3> QED
      BY <3>1, <3>2
  <2>3. IsWrapRun(f, s, units, column, m + 1)
    <3>1. f = [i \in 0 .. m + 1 |-> f[i]]
      OBVIOUS
    <3> HIDE DEF f
    <3> QED
      BY <2>2, <3>1 DEF IsWrapRun
  <2> HIDE DEF f
  <2> QED
    BY <2>3
<1> QED
  <2> HIDE DEF S
  <2>1. Nat \subseteq S
    BY <1>1, <1>2, SetInduction
  <2> QED
    BY <2>1 DEF S

\* So the run that is chosen is one.
LEMMA WrapRunIs ==
    ASSUME NEW s, NEW units, NEW column, Len(units) \in Nat
    PROVE  IsWrapRun(WrapRun(s, units, column), s, units, column, Len(units))
  BY WrapRunExists DEF WrapRun

-----------------------------------------------------------------------------
(* The ring and the screen.                                                 *)

\* No text is kept behind the length of a line, so a line that was never
\* written is blank.
HistoryOk(h) ==
    /\ DOMAIN h = {"cells", "lengths", "head", "count", "column", "view_offset"}
    /\ h.cells \in [Lines -> [Columns -> Chars]]
    /\ h.lengths \in [Lines -> 0 .. Width]
    /\ \A l \in Lines, c \in Columns : c >= h.lengths[l] => h.cells[l][c] = Blank
    /\ h.head \in Lines /\ h.count \in 1 .. HistoryLines
    /\ h.column \in 0 .. Width

ScreenOk(s) ==
    /\ DOMAIN s = {"cells", "column", "row"}
    /\ s.cells \in [ScreenRows -> [0 .. Width -> Chars]]
    /\ s.column \in 0 .. Width /\ s.row \in ScreenRows

\* The ring index of the line d above the newest one.
Back(head, d) == IF d <= head THEN head - d ELSE head - d + HistoryLines

\* The rows in use at the bottom of the scrollback.
Used(h) == IF h.count < Rows THEN h.count ELSE Rows

\* The screen below the status row, at the bottom of the scrollback.
Shows(h, s) ==
    /\ s.row = Used(h)
    /\ \A d \in 0 .. Used(h) - 1, c \in Columns :
          s.cells[Used(h) - d][c] = h.cells[Back(h.head, d)][c]
    /\ \A r \in Used(h) + 1 .. Rows, c \in Columns : s.cells[r][c] = Blank

\* Counting back stays in the ring and comes to the newest line only at zero.
LEMMA BackInRing ==
    ASSUME NEW head \in Lines, NEW d \in 0 .. HistoryLines - 1
    PROVE  Back(head, d) \in Lines /\ (Back(head, d) = head <=> d = 0)
  BY GeometryAssumption DEF Back, Lines

\* Lines that are kept are found by counting back from the newest one.
LEMMA PhysicalIsBack ==
    ASSUME NEW h, HistoryOk(h), NEW d \in 0 .. h.count - 1
    PROVE  Physical(h, h.count - 1 - d) = Back(h.head, d)
<1> DEFINE H == HistoryLines
           x == h.head + H + 1 - h.count
           oldest == IF x < H THEN x ELSE x - H
           y == oldest + (h.count - 1 - d)
<1>1. /\ H \in Nat /\ h.head \in Nat /\ h.head < H /\ h.count \in Nat /\ h.count >= 1
      /\ h.count <= H /\ d \in Nat /\ d < h.count
  BY GeometryAssumption DEF HistoryOk, Lines
<1>2. x \in Nat /\ x < 2 * H
  BY <1>1
<1>3. x % H = oldest
  BY <1>2, RingIndex
<1>4. oldest \in Nat /\ y \in Nat /\ y < 2 * H
  BY <1>1
<1>5. y % H = IF y < H THEN y ELSE y - H
  BY <1>4, RingIndex
<1>6. Physical(h, h.count - 1 - d) = y % H
  BY <1>3 DEF Physical
<1>7. (IF y < H THEN y ELSE y - H) = Back(h.head, d)
  BY <1>1 DEF Back
<1> QED
  BY <1>5, <1>6, <1>7

\* The bottom of the scrollback, seen from the newest line.
LEMMA BottomView ==
    ASSUME NEW h, HistoryOk(h), h.view_offset = 0
    PROVE  /\ viewport_len(h) = Used(h) /\ Used(h) \in 1 .. Rows
           /\ viewport_cursor(h).column = h.column
           /\ viewport_cursor(h).row = Used(h) - 1
           /\ \A row \in 0 .. Used(h) - 1, c \in Columns :
                 viewport_line(h, row)[c] = h.cells[Back(h.head, Used(h) - 1 - row)][c]
<1>1. /\ Rows \in Nat \ {0} /\ HistoryLines \in Nat /\ h.count \in Nat /\ h.count >= 1
      /\ h.count <= HistoryLines
  BY GeometryAssumption DEF HistoryOk
<1>2. /\ viewport_len(h) = Used(h) /\ Used(h) \in 1 .. Rows
      /\ ViewportStart(h) = h.count - Used(h)
  BY <1>1 DEF viewport_len, ViewportStart, ViewportEnd, Used
<1>3. viewport_cursor(h).column = h.column /\ viewport_cursor(h).row = Used(h) - 1
  BY <1>2 DEF viewport_cursor
<1>4. ASSUME NEW row \in 0 .. Used(h) - 1, NEW c \in Columns
      PROVE  viewport_line(h, row)[c] = h.cells[Back(h.head, Used(h) - 1 - row)][c]
  <2> DEFINE d == Used(h) - 1 - row
             l == Back(h.head, d)
  <2>1. /\ d \in 0 .. h.count - 1 /\ ViewportStart(h) + row = h.count - 1 - d
        /\ Used(h) <= h.count
    BY <1>1, <1>2 DEF Used
  <2>2. Physical(h, ViewportStart(h) + row) = l
    BY <2>1, PhysicalIsBack
  <2>3. l \in Lines
    <3> HIDE DEF d
    <3> QED
      BY <1>1, <2>1, BackInRing DEF HistoryOk
  <2> HIDE DEF d, l
  <2>4. viewport_line(h, row)[c] = IF c < h.lengths[l] THEN h.cells[l][c] ELSE Blank
    BY <2>2 DEF viewport_line
  <2>5. h.lengths[l] \in 0 .. Width /\ c \in Int /\ (c >= h.lengths[l] => h.cells[l][c] = Blank)
    BY <2>3, GeometryAssumption DEF HistoryOk, Columns
  <2>6. viewport_line(h, row)[c] = h.cells[l][c]
    BY <2>4, <2>5, GeometryAssumption
  <2> QED
    BY <2>6 DEF l, d
<1> QED
  BY <1>2, <1>3, <1>4

-----------------------------------------------------------------------------
(* One unit of output, in the history and on the screen.                    *)

\* A character in the history, before the line is full, and on the screen.
PutHistory(h, unit) ==
    [h EXCEPT !.cells[h.head][h.column] = unit,
              !.lengths[h.head] = IF @ > h.column THEN @ ELSE h.column + 1,
              !.column = @ + 1]

PutScreen(s, unit) == [s EXCEPT !.cells[s.row][s.column] = unit, !.column = s.column + 1]

\* Storing a character changes one cell of the newest line and moves on by one.
LEMMA PutHistoryOk ==
    ASSUME NEW h, HistoryOk(h), h.column < Width, NEW unit \in Chars
    PROVE  LET g == PutHistory(h, unit)
           IN  /\ HistoryOk(g)
               /\ g.head = h.head /\ g.count = h.count /\ g.view_offset = h.view_offset
               /\ g.column = h.column + 1
               /\ \A l \in Lines, c \in Columns :
                     g.cells[l][c] = IF l = h.head /\ c = h.column THEN unit ELSE h.cells[l][c]
<1> DEFINE g == PutHistory(h, unit)
<1>1. /\ DOMAIN g = {"cells", "lengths", "head", "count", "column", "view_offset"}
      /\ g.head = h.head /\ g.count = h.count /\ g.view_offset = h.view_offset
      /\ g.column = h.column + 1
      /\ g.cells = [h.cells EXCEPT ![h.head][h.column] = unit]
      /\ g.lengths = [h.lengths EXCEPT ![h.head] = IF @ > h.column THEN @ ELSE h.column + 1]
  BY DEF HistoryOk, PutHistory
<1> HIDE DEF g
<1>2. /\ h.head \in Lines /\ h.column \in Columns /\ h.column + 1 \in 0 .. Width
      /\ h.cells \in [Lines -> [Columns -> Chars]] /\ h.lengths \in [Lines -> 0 .. Width]
      /\ \A l \in Lines : h.lengths[l] \in Int
      /\ \A c \in Columns : c \in Int
  BY GeometryAssumption DEF HistoryOk, Columns
<1>3. \A l \in Lines, c \in Columns :
         g.cells[l][c] = IF l = h.head /\ c = h.column THEN unit ELSE h.cells[l][c]
  BY <1>1, <1>2
<1>4. \A l \in Lines :
         g.lengths[l] = IF l = h.head THEN IF h.lengths[l] > h.column THEN h.lengths[l] ELSE h.column + 1
                        ELSE h.lengths[l]
  BY <1>1, <1>2
<1>5. g.cells \in [Lines -> [Columns -> Chars]] /\ g.lengths \in [Lines -> 0 .. Width]
  BY <1>1, <1>2
<1>6. ASSUME NEW l \in Lines, NEW c \in Columns, c >= g.lengths[l]
      PROVE  g.cells[l][c] = Blank
  <2>1. c >= h.lengths[l] /\ ~(l = h.head /\ c = h.column)
    BY <1>2, <1>4, <1>6
  <2>2. h.cells[l][c] = Blank
    BY <2>1 DEF HistoryOk
  <2> QED
    BY <1>3, <2>1, <2>2
<1>7. HistoryOk(g)
  BY <1>1, <1>2, <1>5, <1>6 DEF HistoryOk
<1> QED
  BY <1>1, <1>3, <1>7 DEF g

\* Drawing a character changes one cell of the row and moves on by one.
LEMMA PutScreenOk ==
    ASSUME NEW s, ScreenOk(s), s.column < Width, NEW unit \in Chars
    PROVE  LET t == PutScreen(s, unit)
           IN  /\ ScreenOk(t) /\ t.row = s.row /\ t.column = s.column + 1
               /\ \A r \in ScreenRows, c \in Columns :
                     t.cells[r][c] = IF r = s.row /\ c = s.column THEN unit ELSE s.cells[r][c]
<1> DEFINE t == PutScreen(s, unit)
<1>1. /\ DOMAIN t = {"cells", "column", "row"}
      /\ t.row = s.row /\ t.column = s.column + 1
      /\ t.cells = [s.cells EXCEPT ![s.row][s.column] = unit]
  BY DEF ScreenOk, PutScreen
<1> HIDE DEF t
<1>2. /\ s.row \in ScreenRows /\ s.column \in 0 .. Width /\ s.column + 1 \in 0 .. Width
      /\ s.cells \in [ScreenRows -> [0 .. Width -> Chars]]
      /\ \A c \in Columns : c \in 0 .. Width
  BY GeometryAssumption DEF ScreenOk, Columns
<1>3. \A r \in ScreenRows, c \in Columns :
         t.cells[r][c] = IF r = s.row /\ c = s.column THEN unit ELSE s.cells[r][c]
  <2> DEFINE line == [s.cells[s.row] EXCEPT ![s.column] = unit]
  <2>1. \A c \in Columns : line[c] = IF c = s.column THEN unit ELSE s.cells[s.row][c]
    BY <1>2
  <2>2. t.cells = [s.cells EXCEPT ![s.row] = line]
    BY <1>1
  <2> HIDE DEF line
  <2> QED
    BY <1>2, <2>1, <2>2
<1>4. t.cells \in [ScreenRows -> [0 .. Width -> Chars]]
  <2> DEFINE line == [s.cells[s.row] EXCEPT ![s.column] = unit]
  <2>1. line \in [0 .. Width -> Chars]
    BY <1>2
  <2>2. t.cells = [s.cells EXCEPT ![s.row] = line]
    BY <1>1
  <2> HIDE DEF line
  <2> QED
    BY <1>2, <2>1, <2>2
<1>5. ScreenOk(t)
  BY <1>1, <1>2, <1>4 DEF ScreenOk
<1> QED
  BY <1>1, <1>3, <1>5 DEF t

\* A character is put into the newest line and into the row that shows it.
LEMMA PutShows ==
    ASSUME NEW h, NEW s, HistoryOk(h), ScreenOk(s), Shows(h, s),
           h.column < Width, s.column = h.column, NEW unit \in Chars
    PROVE  /\ Shows(PutHistory(h, unit), PutScreen(s, unit))
           /\ Used(PutHistory(h, unit)) = Used(h)
           /\ \A c \in Columns : PutScreen(s, unit).cells[0][c] = s.cells[0][c]
<1> DEFINE g == PutHistory(h, unit)
           t == PutScreen(s, unit)
<1>1. /\ g.head = h.head /\ g.count = h.count
      /\ \A l \in Lines, c \in Columns :
            g.cells[l][c] = IF l = h.head /\ c = h.column THEN unit ELSE h.cells[l][c]
  BY PutHistoryOk
<1>2. /\ t.row = s.row
      /\ \A r \in ScreenRows, c \in Columns :
            t.cells[r][c] = IF r = s.row /\ c = s.column THEN unit ELSE s.cells[r][c]
  BY PutScreenOk
<1> HIDE DEF g, t
<1>3. /\ Used(g) = Used(h) /\ Used(h) \in 1 .. Rows /\ s.row = Used(h)
      /\ Rows \in Nat /\ HistoryLines \in Nat /\ Rows <= HistoryLines /\ h.head \in Lines
  BY <1>1, GeometryAssumption DEF Used, Shows, HistoryOk
<1>4. ASSUME NEW d \in 0 .. Used(g) - 1, NEW c \in Columns
      PROVE  t.cells[Used(g) - d][c] = g.cells[Back(g.head, d)][c]
  <2>1. d \in 0 .. HistoryLines - 1 /\ Used(h) - d \in ScreenRows /\ (Used(h) - d = s.row <=> d = 0)
    BY <1>3 DEF ScreenRows
  <2>2. Back(h.head, d) \in Lines /\ (Back(h.head, d) = h.head <=> d = 0)
    BY <1>3, <2>1, BackInRing
  <2>3. s.cells[Used(h) - d][c] = h.cells[Back(h.head, d)][c]
    BY <1>3, <1>4 DEF Shows
  <2> QED
    BY <1>1, <1>2, <1>3, <2>1, <2>2, <2>3
<1>5. ASSUME NEW r \in Used(g) + 1 .. Rows, NEW c \in Columns
      PROVE  t.cells[r][c] = Blank
  <2>1. r \in ScreenRows /\ r # s.row /\ s.cells[r][c] = Blank
    BY <1>3 DEF ScreenRows, Shows
  <2> QED
    BY <1>2, <2>1
<1>6. 0 \in ScreenRows /\ 0 # s.row
  BY <1>3 DEF ScreenRows
<1>7. Shows(g, t)
  BY <1>2, <1>3, <1>4, <1>5 DEF Shows
<1> QED
  BY <1>2, <1>3, <1>6, <1>7 DEF g, t

\* advance_line takes the next line of the ring, empties it and keeps the rest;
\* the count grows until the ring is full.
LEMMA AdvanceOk ==
    ASSUME NEW h, HistoryOk(h)
    PROVE  LET g == advance_line(h)
               next == IF h.head + 1 = HistoryLines THEN 0 ELSE h.head + 1
           IN  /\ HistoryOk(g)
               /\ g.head = next /\ next \in Lines
               /\ g.count = IF h.count < HistoryLines THEN h.count + 1 ELSE h.count
               /\ g.column = 0 /\ g.view_offset = h.view_offset
               /\ \A l \in Lines, c \in Columns :
                     g.cells[l][c] = IF l = next THEN Blank ELSE h.cells[l][c]
<1> DEFINE g == advance_line(h)
           next == IF h.head + 1 = HistoryLines THEN 0 ELSE h.head + 1
<1>1. /\ h.head \in Nat /\ h.head + 1 <= HistoryLines /\ HistoryLines \in Nat \ {0}
      /\ Width \in Nat /\ Blank \in Chars
  BY GeometryAssumption, CharsAssumption DEF HistoryOk, Lines
<1>2. (h.head + 1) % HistoryLines = next
  BY <1>1, RingIndex
<1>3. next \in Lines
  BY <1>1 DEF Lines
<1> HIDE DEF next
<1>4. /\ DOMAIN g = {"cells", "lengths", "head", "count", "column", "view_offset"}
      /\ g.head = next
      /\ g.count = IF h.count < HistoryLines THEN h.count + 1 ELSE h.count
      /\ g.column = 0 /\ g.view_offset = h.view_offset
      /\ g.cells = [h.cells EXCEPT ![next] = BlankLine]
      /\ g.lengths = [h.lengths EXCEPT ![next] = 0]
  BY <1>2 DEF HistoryOk, advance_line
<1> HIDE DEF g
<1>5. BlankLine \in [Columns -> Chars] /\ \A c \in Columns : BlankLine[c] = Blank
  BY <1>1 DEF BlankLine
<1>6. h.cells \in [Lines -> [Columns -> Chars]] /\ h.lengths \in [Lines -> 0 .. Width]
  BY DEF HistoryOk
<1>7. g.cells \in [Lines -> [Columns -> Chars]] /\ g.lengths \in [Lines -> 0 .. Width]
  BY <1>1, <1>3, <1>4, <1>5, <1>6
<1>8. \A l \in Lines, c \in Columns :
         g.cells[l][c] = IF l = next THEN Blank ELSE h.cells[l][c]
  BY <1>4, <1>5, <1>6
<1>9. ASSUME NEW l \in Lines, NEW c \in Columns, c >= g.lengths[l]
      PROVE  g.cells[l][c] = Blank
  <2>1. CASE l = next
    BY <1>8, <2>1
  <2>2. CASE l # next
    <3>1. g.lengths[l] = h.lengths[l]
      BY <1>4, <1>6, <2>2
    <3> QED
      BY <1>8, <1>9, <2>2, <3>1 DEF HistoryOk
  <2> QED
    BY <2>1, <2>2
<1>10. g.count \in 1 .. HistoryLines /\ g.column \in 0 .. Width
  BY <1>1, <1>4 DEF HistoryOk
<1>11. HistoryOk(g)
  BY <1>3, <1>4, <1>7, <1>9, <1>10 DEF HistoryOk
<1> QED
  BY <1>3, <1>4, <1>8, <1>11 DEF g, next

\* A line feed moves down, and on the last row it moves the rows up instead.
LEMMA LineDownOk ==
    ASSUME NEW s, ScreenOk(s)
    PROVE  LET t == LineDown(s)
           IN  /\ ScreenOk(t) /\ t.column = s.column
               /\ s.row < Rows => t.row = s.row + 1 /\ t.cells = s.cells
               /\ s.row = Rows =>
                     /\ t.row = Rows
                     /\ \A r \in ScreenRows, c \in Columns :
                           t.cells[r][c] = IF r < Rows THEN s.cells[r + 1][c] ELSE Blank
<1> DEFINE t == LineDown(s)
<1>1. /\ Rows \in Nat /\ Width \in Nat /\ Blank \in Chars /\ s.row \in 0 .. Rows
      /\ s.cells \in [ScreenRows -> [0 .. Width -> Chars]]
  BY GeometryAssumption, CharsAssumption DEF ScreenOk, ScreenRows
<1>2. ScreenLine \in [0 .. Width -> Chars] /\ \A c \in Columns : ScreenLine[c] = Blank
  BY <1>1 DEF ScreenLine, Columns
<1>3. CASE s.row < Rows
  <2>1. DOMAIN t = {"cells", "column", "row"} /\ t.row = s.row + 1 /\ t.cells = s.cells /\ t.column = s.column
    BY <1>3 DEF LineDown, ScreenOk
  <2> HIDE DEF t
  <2>2. ScreenOk(t)
    BY <1>1, <1>3, <2>1 DEF ScreenOk, ScreenRows
  <2> QED
    BY <1>1, <1>3, <2>1, <2>2 DEF t
<1>4. CASE s.row = Rows
  <2>1. /\ DOMAIN t = {"cells", "column", "row"} /\ t.row = s.row /\ t.column = s.column
        /\ t.cells = [r \in ScreenRows |-> IF r < Rows THEN s.cells[r + 1] ELSE ScreenLine]
    BY <1>1, <1>4 DEF LineDown, ScreenOk
  <2> HIDE DEF t
  <2>2. \A r \in ScreenRows : r < Rows => r + 1 \in ScreenRows
    BY <1>1 DEF ScreenRows
  <2>3. t.cells \in [ScreenRows -> [0 .. Width -> Chars]]
    BY <1>1, <1>2, <2>1, <2>2
  <2>4. ScreenOk(t)
    BY <2>1, <2>3 DEF ScreenOk
  <2>5. \A r \in ScreenRows, c \in Columns :
           t.cells[r][c] = IF r < Rows THEN s.cells[r + 1][c] ELSE Blank
    BY <1>2, <2>1
  <2> QED
    BY <1>1, <1>4, <2>1, <2>4, <2>5 DEF t
<1> QED
  BY <1>1, <1>3, <1>4

\* A new line, with a row below the cursor or with the firmware scrolling.
LEMMA DownShows ==
    ASSUME NEW h, NEW s, HistoryOk(h), ScreenOk(s), Shows(h, s)
    PROVE  /\ Shows(advance_line(h), LineDown(s))
           /\ Used(advance_line(h)) = IF Used(h) < Rows THEN Used(h) + 1 ELSE Used(h)
           /\ Used(h) < Rows => \A c \in Columns : LineDown(s).cells[0][c] = s.cells[0][c]
<1> DEFINE g == advance_line(h)
           t == LineDown(s)
           next == IF h.head + 1 = HistoryLines THEN 0 ELSE h.head + 1
<1>1. /\ g.head = next /\ next \in Lines
      /\ g.count = IF h.count < HistoryLines THEN h.count + 1 ELSE h.count
      /\ \A l \in Lines, c \in Columns :
            g.cells[l][c] = IF l = next THEN Blank ELSE h.cells[l][c]
  BY AdvanceOk
<1>2. /\ s.row < Rows => t.row = s.row + 1 /\ t.cells = s.cells
      /\ s.row = Rows =>
            /\ t.row = Rows
            /\ \A r \in ScreenRows, c \in Columns :
                  t.cells[r][c] = IF r < Rows THEN s.cells[r + 1][c] ELSE Blank
  BY LineDownOk
<1> HIDE DEF g, t
<1>3. /\ h.head \in Lines /\ Rows \in Nat /\ HistoryLines \in Nat /\ Rows <= HistoryLines
      /\ h.count \in 1 .. HistoryLines /\ s.row = Used(h) /\ Used(h) \in 1 .. Rows
      /\ Used(h) <= h.count
  BY GeometryAssumption DEF HistoryOk, Shows, Used
<1>4. Used(g) = IF Used(h) < Rows THEN Used(h) + 1 ELSE Used(h)
  BY <1>1, <1>3 DEF Used
<1>5. ASSUME NEW d \in 1 .. HistoryLines - 1
      PROVE  /\ Back(next, d) = Back(h.head, d - 1)
             /\ Back(next, d) \in Lines /\ Back(next, d) # next
  BY <1>3 DEF Back, Lines
<1>6. next = Back(next, 0)
  BY <1>1, <1>3 DEF Back, Lines
<1> HIDE DEF next
<1>7. ASSUME NEW d \in 0 .. Used(g) - 1, NEW c \in Columns
      PROVE  t.cells[Used(g) - d][c] = g.cells[Back(g.head, d)][c]
  <2>1. CASE d = 0
    <3>1. g.cells[Back(g.head, d)][c] = Blank
      BY <1>1, <1>6, <2>1
    <3>2. CASE Used(h) < Rows
      <4>1. Used(g) - d = Used(h) + 1 /\ Used(h) + 1 \in Used(h) + 1 .. Rows
        BY <1>3, <1>4, <2>1, <3>2
      <4>2. s.cells[Used(h) + 1][c] = Blank
        BY <4>1 DEF Shows
      <4> QED
        BY <1>2, <1>3, <3>1, <3>2, <4>1, <4>2
    <3>3. CASE ~(Used(h) < Rows)
      <4>1. Used(g) - d = Rows /\ s.row = Rows /\ Rows \in ScreenRows
        BY <1>3, <1>4, <2>1, <3>3 DEF ScreenRows
      <4> QED
        BY <1>2, <1>3, <3>1, <4>1
    <3> QED
      BY <3>2, <3>3
  <2>2. CASE d # 0
    <3>1. d \in 1 .. HistoryLines - 1 /\ d - 1 \in 0 .. Used(h) - 1
      BY <1>3, <1>4, <2>2
    <3>2. g.cells[Back(g.head, d)][c] = h.cells[Back(h.head, d - 1)][c]
      BY <1>1, <1>5, <3>1
    <3>3. s.cells[Used(h) - (d - 1)][c] = h.cells[Back(h.head, d - 1)][c]
      BY <3>1 DEF Shows
    <3>4. CASE Used(h) < Rows
      <4>1. Used(g) - d = Used(h) - (d - 1) /\ t.cells = s.cells
        BY <1>2, <1>3, <1>4, <3>4
      <4> QED
        BY <3>2, <3>3, <4>1
    <3>5. CASE ~(Used(h) < Rows)
      <4>1. /\ Used(g) - d \in ScreenRows /\ Used(g) - d < Rows /\ s.row = Rows
            /\ (Used(g) - d) + 1 = Used(h) - (d - 1)
        BY <1>3, <1>4, <3>1, <3>5 DEF ScreenRows
      <4> QED
        BY <1>2, <3>2, <3>3, <4>1
    <3> QED
      BY <3>4, <3>5
  <2> QED
    BY <2>1, <2>2
<1>8. ASSUME NEW r \in Used(g) + 1 .. Rows, NEW c \in Columns
      PROVE  t.cells[r][c] = Blank
  <2>1. Used(h) < Rows /\ r \in Used(h) + 1 .. Rows
    BY <1>3, <1>4
  <2> QED
    BY <1>2, <1>3, <2>1 DEF Shows
<1>9. Shows(g, t)
  BY <1>2, <1>3, <1>4, <1>7, <1>8 DEF Shows
<1> QED
  BY <1>2, <1>3, <1>4, <1>9 DEF g, t

\* The scroll counter stands where the cursor stands.
Follows(at, h) == at.column = h.column /\ at.row = Used(h) - 1

CountOk(at) == DOMAIN at = {"column", "row", "scrolls"} /\ at.scrolls \in Nat

\* One unit of a text at the bottom of the scrollback: the history, the
\* screen and the count go on together, and when the count stays the row of
\* the status stays.  A new line begins at its first column.
Agree(h, done, at) ==
    /\ HistoryOk(h) /\ h.column < Width /\ h.view_offset = 0
    /\ DOMAIN done = {"screen", "column"} /\ ScreenOk(done.screen) /\ Shows(h, done.screen)
    /\ done.column = h.column /\ done.screen.column = h.column
    /\ CountOk(at) /\ Follows(at, h)

\* Short of the edge the firmware only draws a character.
LEMMA ScreenPutIs ==
    ASSUME NEW s, ScreenOk(s), s.column < Width, NEW unit, unit \notin {BS, CR, LF}
    PROVE  ScreenPut(s, unit) = PutScreen(s, unit)
<1> DEFINE put == [s EXCEPT !.cells[s.row][s.column] = unit]
<1>1. ScreenPut(s, unit) = [put EXCEPT !.column = @ + 1]
  BY DEF ScreenPut
<1>2. put.column = s.column
  BY DEF ScreenOk
<1>3. [put EXCEPT !.column = s.column + 1] = PutScreen(s, unit)
  BY DEF PutScreen
<1> QED
  BY <1>1, <1>2, <1>3

\* After a character, wrapped or not, ring, screen and count agree again, and
\* the status row is where it was unless a scroll was counted.
LEMMA CharAgrees ==
    ASSUME NEW h, NEW done, NEW at, Agree(h, done, at), NEW unit \in Chars
    PROVE  LET g == HistoryPut(h, unit)
               next == WrapUnit(done, unit)
               more == CountScroll(at, unit)
           IN  /\ Agree(g, next, more) /\ more.scrolls >= at.scrolls
               /\ more.scrolls = at.scrolls =>
                     \A c \in Columns : next.screen.cells[0][c] = done.screen.cells[0][c]
<1> DEFINE s == done.screen
           h1 == PutHistory(h, unit)
           s1 == PutScreen(s, unit)
<1>0. unit # BS /\ unit # CR /\ unit # LF
  BY CharsAssumption
<1>1. /\ HistoryOk(h) /\ h.column \in 0 .. Width - 1 /\ h.view_offset = 0
      /\ ScreenOk(s) /\ Shows(h, s) /\ done.column = h.column /\ s.column = h.column
      /\ DOMAIN at = {"column", "row", "scrolls"} /\ at.scrolls \in Nat
      /\ at.column = h.column /\ at.row = Used(h) - 1
      /\ Width \in Nat /\ Rows \in Nat \ {0} /\ Used(h) \in 1 .. Rows
  BY GeometryAssumption DEF Agree, CountOk, Follows, HistoryOk, Used
<1>2. /\ HistoryOk(h1) /\ h1.column = h.column + 1 /\ h1.view_offset = 0
  BY <1>1, PutHistoryOk
<1>3. ScreenOk(s1) /\ s1.column = h.column + 1 /\ s1.row = s.row
  BY <1>1, PutScreenOk
<1>4. /\ Shows(h1, s1) /\ Used(h1) = Used(h)
      /\ \A c \in Columns : s1.cells[0][c] = s.cells[0][c]
  BY <1>1, PutShows
<1>5. ScreenPut(s, unit) = s1
  BY <1>0, <1>1, ScreenPutIs
<1>6. HistoryPut(h, unit) = IF h1.column = Width THEN advance_line(h1) ELSE h1
  BY <1>0 DEF HistoryPut, PutHistory
<1> HIDE DEF h1, s1, s
<1>7. CASE h.column + 1 < Width
  <2>1. HistoryPut(h, unit) = h1
    BY <1>1, <1>2, <1>6, <1>7
  <2>2. WrapUnit(done, unit) = [screen |-> s1, column |-> h.column + 1]
    BY <1>0, <1>1, <1>5, <1>7 DEF WrapUnit, s
  <2>3. CountScroll(at, unit) = [at EXCEPT !.column = @ + 1]
    BY <1>0, <1>1, <1>7 DEF CountScroll
  <2> DEFINE more == [at EXCEPT !.column = @ + 1]
             next == [screen |-> s1, column |-> h.column + 1]
  <2>4. CountOk(more) /\ more.column = h.column + 1 /\ more.row = Used(h1) - 1 /\ more.scrolls = at.scrolls
    BY <1>1, <1>4 DEF CountOk
  <2>5. Agree(h1, next, more)
    BY <1>2, <1>3, <1>4, <1>7, <2>4 DEF Agree, Follows
  <2> QED
    BY <1>1, <1>4, <2>1, <2>2, <2>3, <2>4, <2>5 DEF s
<1>8. CASE ~(h.column + 1 < Width)
  <2> DEFINE s2 == [s1 EXCEPT !.column = 0]
             g == advance_line(h1)
             s3 == LineDown(s2)
  <2>1. HistoryPut(h, unit) = g
    BY <1>1, <1>2, <1>6, <1>8
  <2>2. ScreenPut(s1, CR) = s2 /\ ScreenPut(s2, LF) = s3
    BY DEF ScreenPut, BS, CR, LF
  <2>3. WrapUnit(done, unit) = [screen |-> s3, column |-> 0]
    BY <1>0, <1>1, <1>5, <1>8, <2>2 DEF WrapUnit, s
  <2>4. ScreenOk(s2) /\ s2.column = 0 /\ s2.cells = s1.cells /\ s2.row = s1.row
    BY <1>1, <1>3 DEF ScreenOk
  <2>5. Shows(h1, s2)
    BY <1>4, <2>4 DEF Shows
  <2> HIDE DEF s2
  <2>6. HistoryOk(g) /\ g.column = 0 /\ g.view_offset = 0
    BY <1>2, AdvanceOk
  <2>7. ScreenOk(s3) /\ s3.column = 0
    BY <2>4, LineDownOk
  <2>8. /\ Shows(g, s3)
        /\ Used(g) = IF Used(h1) < Rows THEN Used(h1) + 1 ELSE Used(h1)
        /\ Used(h1) < Rows => \A c \in Columns : s3.cells[0][c] = s2.cells[0][c]
    BY <1>2, <2>4, <2>5, DownShows
  <2> DEFINE more == CountScroll(at, unit)
  <2>9. more = IF Used(h) < Rows THEN [[at EXCEPT !.column = 0] EXCEPT !.row = @ + 1]
               ELSE [[at EXCEPT !.column = 0] EXCEPT !.scrolls = @ + 1]
    BY <1>0, <1>1, <1>8 DEF CountScroll
  <2>10. /\ DOMAIN more = {"column", "row", "scrolls"} /\ more.column = 0
         /\ more.row = IF Used(h) < Rows THEN Used(h) ELSE Used(h) - 1
         /\ more.scrolls = IF Used(h) < Rows THEN at.scrolls ELSE at.scrolls + 1
    BY <1>1, <2>9
  <2> HIDE DEF g, s3, more
  <2> DEFINE next == [screen |-> s3, column |-> 0]
  <2>11. CountOk(more) /\ Follows(more, g)
    BY <1>1, <1>4, <2>6, <2>8, <2>10 DEF CountOk, Follows
  <2>12. Agree(g, next, more)
    BY <2>6, <2>7, <2>8, <2>11, <1>1 DEF Agree
  <2>13. more.scrolls = at.scrolls => \A c \in Columns : s3.cells[0][c] = s.cells[0][c]
    BY <1>1, <1>4, <2>4, <2>8, <2>10
  <2>14. more.scrolls >= at.scrolls
    BY <1>1, <2>10
  <2> QED
    BY <2>1, <2>3, <2>12, <2>13, <2>14 DEF more, s
<1> QED
  BY <1>7, <1>8

\* The same after BS, CR or LF.  LF needs the column to be 0, since the ring
\* starts a line there and the firmware goes straight down.
LEMMA ControlAgrees ==
    ASSUME NEW h, NEW done, NEW at, Agree(h, done, at), NEW unit \in {BS, CR, LF},
           unit = LF => h.column = 0
    PROVE  LET g == HistoryPut(h, unit)
               next == WrapUnit(done, unit)
               more == CountScroll(at, unit)
           IN  /\ Agree(g, next, more) /\ more.scrolls >= at.scrolls
               /\ more.scrolls = at.scrolls =>
                     \A c \in Columns : next.screen.cells[0][c] = done.screen.cells[0][c]
               /\ unit = CR => g.column = 0
<1> DEFINE s == done.screen
<1>1. /\ HistoryOk(h) /\ h.column \in 0 .. Width - 1 /\ h.view_offset = 0
      /\ ScreenOk(s) /\ Shows(h, s) /\ done.column = h.column /\ s.column = h.column
      /\ DOMAIN at = {"column", "row", "scrolls"} /\ at.scrolls \in Nat
      /\ at.column = h.column /\ at.row = Used(h) - 1
      /\ Width \in Nat \ {0} /\ Rows \in Nat \ {0} /\ Used(h) \in 1 .. Rows
  BY GeometryAssumption DEF Agree, CountOk, Follows, HistoryOk, Used
<1> HIDE DEF s
<1>2. ASSUME NEW col \in 0 .. Width - 1,
             HistoryPut(h, unit) = [h EXCEPT !.column = col],
             WrapUnit(done, unit) = [screen |-> [s EXCEPT !.column = col], column |-> col],
             CountScroll(at, unit) = [at EXCEPT !.column = col]
      PROVE  LET g == HistoryPut(h, unit)
                 next == WrapUnit(done, unit)
                 more == CountScroll(at, unit)
             IN  /\ Agree(g, next, more) /\ more.scrolls = at.scrolls /\ g.column = col
                 /\ \A c \in Columns : next.screen.cells[0][c] = s.cells[0][c]
  <2> DEFINE g == [h EXCEPT !.column = col]
             t == [s EXCEPT !.column = col]
             more == [at EXCEPT !.column = col]
  <2>1. HistoryOk(g) /\ g.column = col /\ g.view_offset = 0 /\ Used(g) = Used(h)
    <3>1. /\ DOMAIN g = DOMAIN h /\ g.cells = h.cells /\ g.lengths = h.lengths /\ g.head = h.head
          /\ g.count = h.count /\ g.column = col /\ g.view_offset = h.view_offset
      BY <1>1 DEF HistoryOk
    <3> HIDE DEF g
    <3>2. col \in 0 .. Width
      BY <1>1
    <3> QED
      BY <1>1, <3>1, <3>2 DEF HistoryOk, Used
  <2>2. ScreenOk(t) /\ t.column = col /\ t.cells = s.cells /\ t.row = s.row
    BY <1>1 DEF ScreenOk
  <2>3. Shows(g, t)
    <3>1. g.head = h.head /\ g.cells = h.cells
      BY <1>1 DEF HistoryOk
    <3> HIDE DEF g, t
    <3> QED
      BY <1>1, <2>1, <2>2, <3>1 DEF Shows
  <2>4. CountOk(more) /\ Follows(more, g) /\ more.scrolls = at.scrolls
    BY <1>1, <2>1 DEF CountOk, Follows
  <2> HIDE DEF g, t, more
  <2> DEFINE next == [screen |-> t, column |-> col]
  <2>5. Agree(g, next, more)
    BY <1>1, <2>1, <2>2, <2>3, <2>4 DEF Agree
  <2>6. HistoryPut(h, unit) = g /\ WrapUnit(done, unit) = next /\ CountScroll(at, unit) = more
    BY <1>2 DEF g, t, more
  <2> QED
    BY <2>1, <2>2, <2>4, <2>5, <2>6
<1>3. CASE unit = BS
  <2> DEFINE col == IF h.column = 0 THEN 0 ELSE h.column - 1
  <2>1. col \in 0 .. Width - 1
    BY <1>1
  <2>2. HistoryPut(h, unit) = [h EXCEPT !.column = col]
    BY <1>3 DEF HistoryPut, BS, CR, LF
  <2>3. WrapUnit(done, unit) = [screen |-> [s EXCEPT !.column = col], column |-> col]
    BY <1>1, <1>3 DEF WrapUnit, ScreenPut, s, BS, CR, LF
  <2>4. CountScroll(at, unit) = [at EXCEPT !.column = col]
    BY <1>1, <1>3 DEF CountScroll, BS, CR, LF
  <2> HIDE DEF col
  <2> QED
    BY <1>1, <1>2, <1>3, <2>1, <2>2, <2>3, <2>4 DEF s, BS, CR, LF
<1>4. CASE unit = CR
  <2>1. 0 \in 0 .. Width - 1
    BY <1>1
  <2>2. HistoryPut(h, unit) = [h EXCEPT !.column = 0]
    BY <1>4 DEF HistoryPut, BS, CR, LF
  <2>3. WrapUnit(done, unit) = [screen |-> [s EXCEPT !.column = 0], column |-> 0]
    BY <1>1, <1>4 DEF WrapUnit, ScreenPut, s, BS, CR, LF
  <2>4. CountScroll(at, unit) = [at EXCEPT !.column = 0]
    BY <1>1, <1>4 DEF CountScroll, BS, CR, LF
  <2> QED
    BY <1>1, <1>2, <1>4, <2>1, <2>2, <2>3, <2>4 DEF s
<1>5. CASE unit = LF
  <2> DEFINE g == advance_line(h)
             t == LineDown(s)
             next == [screen |-> t, column |-> 0]
             more == CountScroll(at, unit)
  <2>1. h.column = 0
    BY <1>5
  <2>2. HistoryPut(h, unit) = g
    BY <1>5 DEF HistoryPut, BS, CR, LF
  <2>3. WrapUnit(done, unit) = next
    BY <1>1, <1>5, <2>1 DEF WrapUnit, ScreenPut, s, BS, CR, LF
  <2>4. more = IF Used(h) < Rows THEN [at EXCEPT !.row = @ + 1] ELSE [at EXCEPT !.scrolls = @ + 1]
    BY <1>1, <1>5 DEF CountScroll, BS, CR, LF
  <2>5. /\ DOMAIN more = {"column", "row", "scrolls"} /\ more.column = 0
        /\ more.row = IF Used(h) < Rows THEN Used(h) ELSE Used(h) - 1
        /\ more.scrolls = IF Used(h) < Rows THEN at.scrolls ELSE at.scrolls + 1
    BY <1>1, <2>1, <2>4
  <2>6. HistoryOk(g) /\ g.column = 0 /\ g.view_offset = 0
    BY <1>1, AdvanceOk
  <2>7. ScreenOk(t) /\ t.column = 0
    BY <1>1, <2>1, LineDownOk
  <2>8. /\ Shows(g, t)
        /\ Used(g) = IF Used(h) < Rows THEN Used(h) + 1 ELSE Used(h)
        /\ Used(h) < Rows => \A c \in Columns : t.cells[0][c] = s.cells[0][c]
    BY <1>1, DownShows
  <2> HIDE DEF g, t, more
  <2>9. CountOk(more) /\ Follows(more, g)
    BY <1>1, <2>5, <2>6, <2>8 DEF CountOk, Follows
  <2>10. Agree(g, next, more)
    BY <2>6, <2>7, <2>8, <2>9, <1>1 DEF Agree
  <2>11. more.scrolls >= at.scrolls /\ (more.scrolls = at.scrolls => Used(h) < Rows)
    BY <1>1, <2>5
  <2>12. unit # CR
    BY <1>5 DEF CR, LF
  <2> QED
    BY <2>2, <2>3, <2>8, <2>10, <2>11, <2>12 DEF more, s
<1> QED
  BY <1>3, <1>4, <1>5

-----------------------------------------------------------------------------
(* A whole text, and the status row.                                        *)

Units == Chars \cup {BS, CR, LF}

\* A text that console_output_utf16 is given.
Text(units) ==
    /\ units \in Seq(Units)
    /\ \A i \in 2 .. Len(units) : units[i] = LF => units[i - 1] = CR

\* It may begin with LF in the first column.
Begins(h, units) == units # << >> /\ units[1] = LF => h.column = 0

\* After i units: the three agree, and before the first scroll the status row
\* is as it was.
TextAt(h, s, units, i) ==
    LET g == HistoryRun(h, units)[i]
        done == WrapRun(s, units, h.column)[i]
        at == CountRun(units, h.column, Used(h) - 1)[i]
    IN  /\ Agree(g, done, at)
        /\ at.scrolls = 0 => \A c \in Columns : done.screen.cells[0][c] = s.cells[0][c]
        /\ i > 0 /\ units[i] = CR => g.column = 0
        /\ i = 0 => g.column = h.column

\* One unit further into a text, they still agree.
LEMMA TextStep ==
    ASSUME NEW h, NEW s, NEW units, Text(units), Begins(h, units),
           NEW i \in 0 .. Len(units) - 1, TextAt(h, s, units, i)
    PROVE  TextAt(h, s, units, i + 1)
<1> DEFINE g == HistoryRun(h, units)[i]
           done == WrapRun(s, units, h.column)[i]
           at == CountRun(units, h.column, Used(h) - 1)[i]
           unit == units[i + 1]
           more == HistoryPut(g, unit)
           next == WrapUnit(done, unit)
           count == CountScroll(at, unit)
<1>1. /\ Len(units) \in Nat /\ i \in Nat /\ i + 1 \in 1 .. Len(units) /\ (i + 1) - 1 = i
      /\ unit \in Units
      /\ unit = LF => (i > 0 /\ units[i] = CR) \/ (i = 0 /\ h.column = 0)
  <2>1. /\ Len(units) \in Nat /\ i \in Nat /\ i + 1 \in 1 .. Len(units) /\ (i + 1) - 1 = i
        /\ units \in Seq(Units)
    BY DEF Text
  <2>2. CASE i = 0
    <3>1. units # << >> /\ i + 1 = 1
      BY <2>1, <2>2
    <3> QED
      BY <2>1, <2>2, <3>1 DEF Begins
  <2>3. CASE i # 0
    <3>1. i + 1 \in 2 .. Len(units) /\ i > 0
      BY <2>1, <2>3
    <3>2. unit = LF => units[(i + 1) - 1] = CR
      BY <3>1 DEF Text
    <3> QED
      BY <2>1, <3>1, <3>2
  <2> QED
    BY <2>2, <2>3
<1>2. /\ HistoryRun(h, units)[i + 1] = more
      /\ WrapRun(s, units, h.column)[i + 1] = next
      /\ CountRun(units, h.column, Used(h) - 1)[i + 1] = count
  <2> DEFINE column == h.column
             row == Used(h) - 1
             wraps == WrapRun(s, units, column)
             counts == CountRun(units, column, row)
             writes == HistoryRun(h, units)
  <2> HIDE DEF column, row
  <2>1. /\ IsHistoryRun(writes, h, units, Len(units)) /\ IsWrapRun(wraps, s, units, column, Len(units))
        /\ IsCountRun(counts, units, column, row, Len(units))
    BY <1>1, HistoryRunIs, WrapRunIs, CountRunIs
  <2> HIDE DEF writes, wraps, counts
  <2>2. /\ writes[i + 1] = HistoryPut(writes[i], units[i + 1])
        /\ wraps[i + 1] = WrapUnit(wraps[i], units[i + 1])
        /\ counts[i + 1] = CountScroll(counts[i], units[i + 1])
    BY <1>1, <2>1 DEF IsHistoryRun, IsWrapRun, IsCountRun
  <2> QED
    BY <2>2 DEF writes, wraps, counts, column, row
<1>3. /\ Agree(g, done, at)
      /\ at.scrolls = 0 => \A c \in Columns : done.screen.cells[0][c] = s.cells[0][c]
      /\ i > 0 /\ units[i] = CR => g.column = 0
      /\ i = 0 => g.column = h.column
  BY DEF TextAt
<1> HIDE DEF g, done, at, unit
<1>4. /\ Agree(more, next, count) /\ count.scrolls >= at.scrolls
      /\ count.scrolls = at.scrolls =>
            \A c \in Columns : next.screen.cells[0][c] = done.screen.cells[0][c]
      /\ unit = CR => more.column = 0
  <2>1. CASE unit \in Chars
    <3>1. unit # CR
      BY <2>1, CharsAssumption
    <3> QED
      BY <1>3, <2>1, <3>1, CharAgrees
  <2>2. CASE unit \in {BS, CR, LF}
    <3>1. unit = LF => g.column = 0
      BY <1>1, <1>3
    <3> QED
      BY <1>3, <2>2, <3>1, ControlAgrees
  <2> QED
    BY <1>1, <2>1, <2>2 DEF Units
<1>5. at.scrolls \in Nat /\ count.scrolls \in Nat
  BY <1>3, <1>4 DEF Agree, CountOk
<1> HIDE DEF more, next, count
<1>6. count.scrolls = 0 => \A c \in Columns : next.screen.cells[0][c] = s.cells[0][c]
  BY <1>3, <1>4, <1>5
<1>7. units[i + 1] = CR => more.column = 0
  BY <1>4 DEF unit
<1>8. i + 1 # 0
  BY <1>1
<1> QED
  BY <1>2, <1>4, <1>6, <1>7, <1>8 DEF TextAt

\* A text at the bottom of the scrollback.
LEMMA TextShows ==
    ASSUME NEW h, NEW s, NEW units, Text(units), Begins(h, units),
           HistoryOk(h), h.column < Width, h.view_offset = 0,
           ScreenOk(s), Shows(h, s), s.column = h.column
    PROVE  LET g == HistoryWrite(h, units)
               t == write_content_with_wrap(s, units, h.column)
           IN  /\ HistoryOk(g) /\ g.column < Width /\ g.view_offset = 0
               /\ ScreenOk(t) /\ Shows(g, t) /\ t.column = g.column
               /\ native_scrolls_for_output(units, h.column, Used(h) - 1) = 0 =>
                     \A c \in Columns : t.cells[0][c] = s.cells[0][c]
<1> DEFINE n == Len(units)
           S == {i \in Nat : i <= n => TextAt(h, s, units, i)}
<1>1. n \in Nat
  BY DEF Text
<1>2. TextAt(h, s, units, 0)
  <2> DEFINE at == [column |-> h.column, row |-> Used(h) - 1, scrolls |-> 0]
             done == [screen |-> s, column |-> h.column]
  <2>1. /\ HistoryRun(h, units)[0] = h /\ WrapRun(s, units, h.column)[0] = done
        /\ CountRun(units, h.column, Used(h) - 1)[0] = at
    <3> DEFINE column == h.column
               row == Used(h) - 1
               wraps == WrapRun(s, units, column)
               counts == CountRun(units, column, row)
               writes == HistoryRun(h, units)
    <3> HIDE DEF column, row
    <3>1. /\ IsHistoryRun(writes, h, units, n) /\ IsWrapRun(wraps, s, units, column, n)
          /\ IsCountRun(counts, units, column, row, n)
      BY <1>1, HistoryRunIs, WrapRunIs, CountRunIs
    <3> HIDE DEF writes, wraps, counts
    <3>2. /\ writes[0] = h /\ wraps[0] = [screen |-> s, column |-> column]
          /\ counts[0] = [column |-> column, row |-> row, scrolls |-> 0]
      BY <1>1, <3>1 DEF IsHistoryRun, IsWrapRun, IsCountRun
    <3> QED
      BY <3>2 DEF writes, wraps, counts, column, row
  <2>2. CountOk(at) /\ Follows(at, h)
    BY DEF CountOk, Follows
  <2>3. Agree(h, done, at)
    BY <2>2 DEF Agree
  <2>4. ~(0 > 0) /\ \A c \in Columns : done.screen.cells[0][c] = s.cells[0][c]
    OBVIOUS
  <2> HIDE DEF at, done
  <2> QED
    BY <2>1, <2>3, <2>4 DEF TextAt
<1>3. ASSUME NEW i \in Nat, i \in S PROVE i + 1 \in S
  <2>1. CASE i + 1 <= n
    <3>1. i \in 0 .. n - 1 /\ TextAt(h, s, units, i)
      BY <1>1, <1>3, <2>1
    <3>2. TextAt(h, s, units, i + 1)
      BY <3>1, TextStep
    <3> QED
      BY <3>2
  <2>2. CASE ~(i + 1 <= n)
    BY <2>2
  <2> QED
    BY <2>1, <2>2
<1>4. TextAt(h, s, units, n)
  <2>1. 0 \in S
    BY <1>2
  <2> HIDE DEF S
  <2>2. Nat \subseteq S
    BY <1>3, <2>1, SetInduction
  <2> QED
    BY <1>1, <2>2 DEF S
<1> DEFINE g == HistoryRun(h, units)[n]
           done == WrapRun(s, units, h.column)[n]
           at == CountRun(units, h.column, Used(h) - 1)[n]
<1>5. /\ Agree(g, done, at)
      /\ at.scrolls = 0 => \A c \in Columns : done.screen.cells[0][c] = s.cells[0][c]
  BY <1>4 DEF TextAt
<1>6. /\ HistoryWrite(h, units) = g /\ write_content_with_wrap(s, units, h.column) = done.screen
      /\ native_scrolls_for_output(units, h.column, Used(h) - 1) = at.scrolls
  BY HistoryWriteIs, write_content_with_wrapIs, native_scrolls_for_outputIs
<1> HIDE DEF g, done, at
<1> QED
  BY <1>5, <1>6 DEF Agree

\* While the status is painted.
PaintedTo(s, line, t, i) ==
    /\ ScreenOk(t) /\ t.row = 0 /\ t.column = i
    /\ \A c \in Columns : t.cells[0][c] = IF c < i THEN line[c] ELSE s.cells[0][c]
    /\ \A r \in 1 .. Rows, c \in Columns : t.cells[r][c] = s.cells[r][c]

\* The status row is painted over the first row, and the cursor put back.
LEMMA PaintStatusIs ==
    ASSUME NEW s, ScreenOk(s), NEW line \in [Columns -> Chars]
    PROVE  LET t == PaintStatus(s, line)
           IN  /\ ScreenOk(t) /\ t.column = s.column /\ t.row = s.row
               /\ \A c \in Columns : t.cells[0][c] = line[c]
               /\ \A r \in 1 .. Rows, c \in Columns : t.cells[r][c] = s.cells[r][c]
<1> DEFINE units == [c \in 1 .. Width |-> line[c - 1]]
           start == SetCursor(s, 0, 0)
           run == OutputRun(start, units)
           S == {i \in Nat : i <= Width => PaintedTo(s, line, run[i], i)}
<1>1. Width \in Nat \ {0} /\ Rows \in Nat \ {0} /\ 0 \in ScreenRows /\ 0 \in 0 .. Width
  BY GeometryAssumption DEF ScreenRows
<1>2. /\ units \in Seq(Chars) /\ Len(units) = Width
      /\ \A i \in 1 .. Width : units[i] = line[i - 1] /\ units[i] \in Chars
  BY <1>1 DEF Columns
<1> HIDE DEF units
<1>3. /\ ScreenOk(start) /\ start.column = 0 /\ start.row = 0 /\ start.cells = s.cells
  BY <1>1 DEF ScreenOk, SetCursor
<1> HIDE DEF start
<1>4. run[0] = start /\ \A i \in 1 .. Width : run[i] = ScreenPut(run[i - 1], units[i])
  <2>1. Len(units) \in Nat
    BY <1>1, <1>2
  <2>2. IsOutputRun(run, start, units, Len(units))
    BY <2>1, OutputRunIs
  <2> HIDE DEF run
  <2> QED
    BY <1>1, <1>2, <2>2 DEF IsOutputRun
<1> HIDE DEF run
<1>5. PaintedTo(s, line, run[0], 0)
  <2>1. \A c \in Columns : ~(c < 0)
    BY <1>1 DEF Columns
  <2> QED
    BY <1>3, <1>4, <2>1 DEF PaintedTo
<1>6. ASSUME NEW i \in 0 .. Width - 1, PaintedTo(s, line, run[i], i)
      PROVE  PaintedTo(s, line, run[i + 1], i + 1)
  <2> DEFINE t == run[i]
             unit == units[i + 1]
             u == PutScreen(t, unit)
  <2>1. i + 1 \in 1 .. Width /\ (i + 1) - 1 = i /\ i < Width /\ i \in Columns
    BY <1>1 DEF Columns
  <2>2. unit = line[i] /\ unit \in Chars /\ unit \notin {BS, CR, LF}
    BY <1>2, <2>1, CharsAssumption
  <2>3. run[i + 1] = ScreenPut(t, unit)
    BY <1>4, <2>1
  <2>4. ScreenOk(t) /\ t.row = 0 /\ t.column = i
    BY <1>6 DEF PaintedTo
  <2> HIDE DEF t, unit
  <2>5. ScreenPut(t, unit) = u
    BY <2>1, <2>2, <2>4, ScreenPutIs
  <2>6. /\ ScreenOk(u) /\ u.row = t.row /\ u.column = t.column + 1
        /\ \A r \in ScreenRows, c \in Columns :
              u.cells[r][c] = IF r = t.row /\ c = t.column THEN unit ELSE t.cells[r][c]
    BY <2>1, <2>2, <2>4, PutScreenOk
  <2> HIDE DEF u
  <2>7. /\ \A c \in Columns : t.cells[0][c] = IF c < i THEN line[c] ELSE s.cells[0][c]
        /\ \A r \in 1 .. Rows, c \in Columns : t.cells[r][c] = s.cells[r][c]
    BY <1>6 DEF PaintedTo, t
  <2>8. \A c \in Columns : u.cells[0][c] = IF c < i + 1 THEN line[c] ELSE s.cells[0][c]
    <3>1. \A c \in Columns : c \in Int /\ u.cells[0][c] = IF c = i THEN line[i] ELSE t.cells[0][c]
      BY <1>1, <2>2, <2>4, <2>6 DEF Columns
    <3>2. \A c \in Columns : c < i + 1 <=> c < i \/ c = i
      BY <3>1, <2>1 DEF Columns
    <3> QED
      BY <2>7, <3>1, <3>2
  <2>9. \A r \in 1 .. Rows, c \in Columns : u.cells[r][c] = s.cells[r][c]
    BY <1>1, <2>4, <2>6, <2>7 DEF ScreenRows
  <2>10. PaintedTo(s, line, u, i + 1)
    BY <2>4, <2>6, <2>8, <2>9 DEF PaintedTo
  <2> QED
    BY <2>3, <2>5, <2>10
<1>7. PaintedTo(s, line, run[Width], Width)
  <2>1. 0 \in S
    BY <1>5
  <2>2. ASSUME NEW i \in Nat, i \in S PROVE i + 1 \in S
    <3>1. CASE i + 1 <= Width
      <4>1. i \in 0 .. Width - 1 /\ PaintedTo(s, line, run[i], i)
        BY <1>1, <2>2, <3>1
      <4> QED
        BY <1>6, <4>1
    <3>2. CASE ~(i + 1 <= Width)
      BY <3>2
    <3> QED
      BY <3>1, <3>2
  <2> HIDE DEF S
  <2>3. Nat \subseteq S
    BY <2>1, <2>2, SetInduction
  <2> QED
    BY <1>1, <2>3 DEF S
<1> DEFINE t == run[Width]
           u == SetCursor(t, s.column, s.row)
<1>8. PaintStatus(s, line) = u
  BY <1>2, OutputStringIs DEF PaintStatus, run, start, units
<1> HIDE DEF t
<1>9. /\ ScreenOk(t) /\ \A c \in Columns : t.cells[0][c] = line[c]
      /\ \A r \in 1 .. Rows, c \in Columns : t.cells[r][c] = s.cells[r][c]
  BY <1>7, <1>1 DEF PaintedTo, t, Columns
<1>10. ScreenOk(u) /\ u.cells = t.cells /\ u.column = s.column /\ u.row = s.row
  BY <1>9 DEF ScreenOk, SetCursor
<1> QED
  BY <1>8, <1>9, <1>10

-----------------------------------------------------------------------------
(* The actions.                                                             *)

\* How far back the scrollback can be paged.
LastPage(h) == IF h.count > Rows THEN h.count - Rows ELSE 0

HistoryInv(h) == HistoryOk(h) /\ h.column < Width /\ h.view_offset \in 0 .. LastPage(h)

ConsoleInv ==
    /\ HistoryInv(hist) /\ ScreenOk(screen) /\ status \in [Columns -> Chars]
    /\ ScreenShowsHistory

\* redraw_console_history paints the status, the lines of the viewport and blank
\* rows below them, and puts the cursor where the viewport has it.
LEMMA RedrawIs ==
    ASSUME NEW h, HistoryInv(h), status \in [Columns -> Chars]
    PROVE  LET t == redraw_console_history(h)
           IN  /\ ScreenOk(t)
               /\ \A c \in Columns : t.cells[0][c] = status[c]
               /\ \A row \in 0 .. Rows - 1, c \in Columns :
                     t.cells[row + 1][c] =
                         IF row < viewport_len(h) THEN viewport_line(h, row)[c] ELSE Blank
               /\ t.column = viewport_cursor(h).column
               /\ t.row = viewport_cursor(h).row + 1
<1> DEFINE drawn == [cells |-> [r \in ScreenRows |->
                                  IF r \in 1 .. viewport_len(h)
                                  THEN [c \in 0 .. Width |->
                                           IF c < Width THEN viewport_line(h, r - 1)[c] ELSE Blank]
                                  ELSE ScreenLine],
                     column |-> viewport_cursor(h).column,
                     row |-> viewport_cursor(h).row + 1]
           t == PaintStatus(drawn, status)
<1>1. /\ Rows \in Nat \ {0} /\ HistoryLines \in Nat /\ Width \in Nat \ {0} /\ Blank \in Chars
      /\ h.count \in 1 .. HistoryLines /\ h.view_offset \in 0 .. LastPage(h)
      /\ h.column \in 0 .. Width
  BY GeometryAssumption, CharsAssumption DEF HistoryInv, HistoryOk
<1>2. /\ viewport_len(h) \in 1 .. Rows
      /\ ViewportStart(h) \in Nat /\ ViewportStart(h) + viewport_len(h) <= h.count
  <2>1. ViewportEnd(h) \in 1 .. h.count
    BY <1>1 DEF ViewportEnd, LastPage
  <2> QED
    BY <1>1, <2>1 DEF viewport_len, ViewportStart
<1>3. ASSUME NEW row \in 0 .. viewport_len(h) - 1
      PROVE  Physical(h, ViewportStart(h) + row) \in Lines
  <2> DEFINE d == h.count - 1 - (ViewportStart(h) + row)
  <2>1. d \in 0 .. h.count - 1 /\ ViewportStart(h) + row = h.count - 1 - d /\ d \in 0 .. HistoryLines - 1
    BY <1>1, <1>2
  <2> HIDE DEF d
  <2>2. Physical(h, ViewportStart(h) + row) = Back(h.head, d) /\ h.head \in Lines
    BY <2>1, PhysicalIsBack DEF HistoryInv, HistoryOk
  <2> QED
    BY <2>1, <2>2, BackInRing
<1>4. ASSUME NEW row \in 0 .. viewport_len(h) - 1, NEW c \in Columns
      PROVE  viewport_line(h, row)[c] \in Chars
  <2> DEFINE l == Physical(h, ViewportStart(h) + row)
  <2>1. l \in Lines /\ h.cells[l][c] \in Chars
    BY <1>3 DEF HistoryInv, HistoryOk
  <2> HIDE DEF l
  <2>2. viewport_line(h, row)[c] = IF c < h.lengths[l] THEN h.cells[l][c] ELSE Blank
    BY DEF viewport_line, l
  <2> QED
    BY <1>1, <2>1, <2>2
<1>5. viewport_cursor(h).column \in 0 .. Width /\ viewport_cursor(h).row = viewport_len(h) - 1
  <2>1. viewport_len(h) - 1 \in 0 .. viewport_len(h) - 1
    BY <1>2
  <2>2. h.lengths[Physical(h, ViewportStart(h) + (viewport_len(h) - 1))] \in 0 .. Width
    BY <1>3, <2>1 DEF HistoryInv, HistoryOk
  <2> QED
    BY <1>1, <2>2 DEF viewport_cursor
<1>6. ScreenLine \in [0 .. Width -> Chars] /\ \A c \in Columns : ScreenLine[c] = Blank /\ c \in 0 .. Width
  BY <1>1 DEF ScreenLine, Columns
<1>7. ASSUME NEW r \in ScreenRows, NEW c \in 0 .. Width
      PROVE  drawn.cells[r][c] \in Chars
  <2>1. CASE r \in 1 .. viewport_len(h) /\ c < Width
    <3>1. r - 1 \in 0 .. viewport_len(h) - 1 /\ c \in Columns
      BY <1>1, <1>2, <2>1 DEF Columns
    <3>2. drawn.cells[r][c] = viewport_line(h, r - 1)[c]
      BY <2>1
    <3> QED
      BY <1>4, <3>1, <3>2
  <2>2. CASE r \in 1 .. viewport_len(h) /\ ~(c < Width)
    BY <1>1, <2>2
  <2>3. CASE r \notin 1 .. viewport_len(h)
    BY <1>6, <2>3
  <2> QED
    BY <2>1, <2>2, <2>3
<1>8. drawn.cells \in [ScreenRows -> [0 .. Width -> Chars]]
  <2>1. \A r \in ScreenRows : drawn.cells[r] \in [0 .. Width -> Chars]
    <3> TAKE r \in ScreenRows
    <3>1. drawn.cells[r] = [c \in 0 .. Width |-> drawn.cells[r][c]]
      BY <1>6 DEF ScreenLine
    <3> HIDE DEF drawn
    <3> QED
      BY <1>7, <3>1
  <2>2. drawn.cells = [r \in ScreenRows |-> drawn.cells[r]]
    OBVIOUS
  <2> HIDE DEF drawn
  <2> QED
    BY <2>1, <2>2
<1>9. ScreenOk(drawn)
  <2>1. viewport_cursor(h).row + 1 \in ScreenRows
    BY <1>1, <1>2, <1>5 DEF ScreenRows
  <2>2. /\ DOMAIN drawn = {"cells", "column", "row"} /\ drawn.column = viewport_cursor(h).column
        /\ drawn.row = viewport_cursor(h).row + 1
    OBVIOUS
  <2> HIDE DEF drawn
  <2> QED
    BY <1>5, <1>8, <2>1, <2>2 DEF ScreenOk
<1>10. ASSUME NEW row \in 0 .. Rows - 1, NEW c \in Columns
       PROVE  drawn.cells[row + 1][c] =
                  IF row < viewport_len(h) THEN viewport_line(h, row)[c] ELSE Blank
  <2>1. row + 1 \in ScreenRows /\ (row + 1) - 1 = row /\ c \in 0 .. Width /\ c < Width
    BY <1>1 DEF ScreenRows, Columns
  <2>2. row + 1 \in 1 .. viewport_len(h) <=> row < viewport_len(h)
    BY <1>2
  <2> QED
    BY <1>6, <2>1, <2>2
<1>11. drawn.column = viewport_cursor(h).column /\ drawn.row = viewport_cursor(h).row + 1
  OBVIOUS
<1>12. redraw_console_history(h) = t
  BY DEF redraw_console_history
<1> HIDE DEF drawn
<1>13. /\ ScreenOk(t) /\ t.column = drawn.column /\ t.row = drawn.row
       /\ \A c \in Columns : t.cells[0][c] = status[c]
       /\ \A r \in 1 .. Rows, c \in Columns : t.cells[r][c] = drawn.cells[r][c]
  BY <1>9, PaintStatusIs
<1> HIDE DEF t
<1>14. \A row \in 0 .. Rows - 1 : row + 1 \in 1 .. Rows
  BY <1>1
<1> QED
  BY <1>10, <1>11, <1>12, <1>13, <1>14

\* At the bottom of the scrollback the property speaks of the rows in use.
LEMMA ShownAtBottom ==
    ASSUME NEW h, NEW s, HistoryOk(h), h.view_offset = 0,
           \A row \in 0 .. Rows - 1, c \in Columns :
              s.cells[row + 1][c] =
                  IF row < viewport_len(h) THEN viewport_line(h, row)[c] ELSE Blank,
           s.row = viewport_cursor(h).row + 1
    PROVE  Shows(h, s)
<1>1. /\ viewport_len(h) = Used(h) /\ Used(h) \in 1 .. Rows
      /\ viewport_cursor(h).row = Used(h) - 1
      /\ \A row \in 0 .. Used(h) - 1, c \in Columns :
            viewport_line(h, row)[c] = h.cells[Back(h.head, Used(h) - 1 - row)][c]
  BY BottomView
<1>2. s.row = Used(h)
  BY <1>1
<1>3. ASSUME NEW d \in 0 .. Used(h) - 1, NEW c \in Columns
      PROVE  s.cells[Used(h) - d][c] = h.cells[Back(h.head, d)][c]
  <2> DEFINE row == Used(h) - 1 - d
  <2>1. /\ row \in 0 .. Used(h) - 1 /\ row \in 0 .. Rows - 1 /\ row < Used(h)
        /\ row + 1 = Used(h) - d /\ Used(h) - 1 - row = d
    BY <1>1, GeometryAssumption
  <2> HIDE DEF row
  <2> QED
    BY <1>1, <2>1
<1>4. ASSUME NEW r \in Used(h) + 1 .. Rows, NEW c \in Columns
      PROVE  s.cells[r][c] = Blank
  <2>1. r - 1 \in 0 .. Rows - 1 /\ (r - 1) + 1 = r /\ ~(r - 1 < Used(h))
    BY <1>1, GeometryAssumption
  <2> QED
    BY <1>1, <2>1
<1> QED
  BY <1>2, <1>3, <1>4 DEF Shows

\* Seen from the bottom of the history, the two ways to say what is shown agree.
LEMMA BottomIsShown ==
    ASSUME NEW h, NEW s, HistoryOk(h), h.view_offset = 0, Shows(h, s), s.column = h.column
    PROVE  /\ \A row \in 0 .. Rows - 1, c \in Columns :
                 s.cells[row + 1][c] =
                     IF row < viewport_len(h) THEN viewport_line(h, row)[c] ELSE Blank
           /\ s.column = viewport_cursor(h).column
           /\ s.row = viewport_cursor(h).row + 1
<1>1. /\ viewport_len(h) = Used(h) /\ Used(h) \in 1 .. Rows
      /\ viewport_cursor(h).column = h.column
      /\ viewport_cursor(h).row = Used(h) - 1
      /\ \A row \in 0 .. Used(h) - 1, c \in Columns :
            viewport_line(h, row)[c] = h.cells[Back(h.head, Used(h) - 1 - row)][c]
  BY BottomView
<1>2. s.row = viewport_cursor(h).row + 1 /\ s.column = viewport_cursor(h).column
  BY <1>1 DEF Shows
<1>3. ASSUME NEW row \in 0 .. Rows - 1, NEW c \in Columns
      PROVE  s.cells[row + 1][c] =
                 IF row < viewport_len(h) THEN viewport_line(h, row)[c] ELSE Blank
  <2>1. CASE row < Used(h)
    <3> DEFINE d == Used(h) - 1 - row
    <3>1. d \in 0 .. Used(h) - 1 /\ Used(h) - d = row + 1 /\ row \in 0 .. Used(h) - 1
      BY <1>1, <2>1, GeometryAssumption
    <3>2. s.cells[Used(h) - d][c] = h.cells[Back(h.head, d)][c]
      BY <3>1 DEF Shows
    <3> QED
      BY <1>1, <2>1, <3>1, <3>2
  <2>2. CASE ~(row < Used(h))
    <3>1. row + 1 \in Used(h) + 1 .. Rows
      BY <1>1, <2>2, GeometryAssumption
    <3> QED
      BY <1>1, <2>2, <3>1 DEF Shows
  <2> QED
    BY <2>1, <2>2
<1> QED
  BY <1>2, <1>3

\* The empty history is in order.
LEMMA NewHistoryInv == HistoryInv(NewHistory) /\ NewHistory.view_offset = 0
<1>1. Width \in Nat \ {0} /\ HistoryLines \in Nat \ {0} /\ Rows \in Nat /\ Blank \in Chars
  BY GeometryAssumption, CharsAssumption
<1>2. BlankLine \in [Columns -> Chars] /\ \A c \in Columns : BlankLine[c] = Blank
  BY <1>1 DEF BlankLine
<1> QED
  BY <1>1, <1>2 DEF HistoryInv, HistoryOk, NewHistory, Lines, LastPage

\* A write keeps the invariant: from the bottom of the history (redrawn first
\* when the user had paged up), the text, then the status row again if it moved.
LEMMA WriteInv ==
    ASSUME ConsoleInv, NEW units, Text(units), Continues(units), Write(units)
    PROVE  ConsoleInv'
<1> DEFINE bottom == [hist EXCEPT !.view_offset = 0]
           shown == IF hist.view_offset # 0 THEN redraw_console_history(bottom) ELSE screen
           cursor == viewport_cursor(bottom)
           start == SetCursor(shown, cursor.column, cursor.row + 1)
           written == write_content_with_wrap(start, units, cursor.column)
           scrolls == native_scrolls_for_output(units, cursor.column, cursor.row)
<1>1. /\ HistoryInv(hist) /\ ScreenOk(screen) /\ status \in [Columns -> Chars]
      /\ ScreenShowsHistory
  BY DEF ConsoleInv
<1>2. /\ hist' = HistoryWrite(bottom, units)
      /\ screen' = IF scrolls = 0 THEN written ELSE PaintStatus(written, status)
      /\ status' = status
  BY DEF Write
<1>3. /\ DOMAIN bottom = DOMAIN hist /\ bottom.cells = hist.cells /\ bottom.lengths = hist.lengths
      /\ bottom.head = hist.head /\ bottom.count = hist.count /\ bottom.column = hist.column
      /\ bottom.view_offset = 0
  BY <1>1 DEF HistoryInv, HistoryOk
<1> HIDE DEF bottom
<1>4. ASSUME hist.view_offset = 0
      PROVE  /\ viewport_len(bottom) = viewport_len(hist)
             /\ viewport_cursor(bottom) = viewport_cursor(hist)
             /\ \A row : viewport_line(bottom, row) = viewport_line(hist, row)
  <2>1. ViewportStart(bottom) = ViewportStart(hist) /\ viewport_len(bottom) = viewport_len(hist)
    BY <1>3, <1>4 DEF viewport_len, ViewportStart, ViewportEnd
  <2>2. \A logical : Physical(bottom, logical) = Physical(hist, logical)
    BY <1>3 DEF Physical
  <2> QED
    BY <1>3, <1>4, <2>1, <2>2 DEF viewport_cursor, viewport_line
<1>5. HistoryInv(bottom)
  <2>1. HistoryOk(bottom) /\ bottom.column < Width
    BY <1>1, <1>3 DEF HistoryInv, HistoryOk
  <2>2. 0 \in 0 .. LastPage(bottom)
    BY <1>1, <1>3, GeometryAssumption DEF HistoryInv, HistoryOk, LastPage
  <2> QED
    BY <1>3, <2>1, <2>2 DEF HistoryInv
<1>6. /\ ScreenOk(shown)
      /\ \A c \in Columns : shown.cells[0][c] = status[c]
      /\ \A row \in 0 .. Rows - 1, c \in Columns :
            shown.cells[row + 1][c] =
                IF row < viewport_len(bottom) THEN viewport_line(bottom, row)[c] ELSE Blank
      /\ shown.column = cursor.column /\ shown.row = cursor.row + 1
  <2>1. CASE hist.view_offset # 0
    BY <1>1, <1>5, <2>1, RedrawIs
  <2>2. CASE hist.view_offset = 0
    BY <1>1, <1>4, <2>2 DEF ScreenShowsHistory
  <2> QED
    BY <2>1, <2>2
<1> HIDE DEF shown
<1>7. /\ HistoryOk(bottom) /\ bottom.column < Width
      /\ cursor.column = bottom.column /\ cursor.row = Used(bottom) - 1
  BY <1>3, <1>5, BottomView DEF HistoryInv
<1>8. Shows(bottom, shown)
  BY <1>3, <1>6, <1>7, ShownAtBottom
<1>9. /\ ScreenOk(start) /\ start.cells = shown.cells /\ start.column = bottom.column
      /\ start.row = shown.row
  BY <1>6, <1>7 DEF SetCursor, ScreenOk
<1> HIDE DEF start, cursor
<1>10. Shows(bottom, start)
  BY <1>8, <1>9 DEF Shows
<1> DEFINE g == HistoryWrite(bottom, units)
           t == write_content_with_wrap(start, units, bottom.column)
<1>11. /\ HistoryOk(g) /\ g.column < Width /\ g.view_offset = 0
       /\ ScreenOk(t) /\ Shows(g, t) /\ t.column = g.column
       /\ native_scrolls_for_output(units, bottom.column, Used(bottom) - 1) = 0 =>
             \A c \in Columns : t.cells[0][c] = start.cells[0][c]
  <2>1. Begins(bottom, units)
    BY <1>3 DEF Begins, Continues
  <2> QED
    BY <1>3, <1>7, <1>9, <1>10, <2>1, TextShows
<1>12. written = t /\ scrolls = native_scrolls_for_output(units, bottom.column, Used(bottom) - 1)
  BY <1>7
<1> HIDE DEF g, t, written, scrolls
<1>13. /\ ScreenOk(screen') /\ screen'.column = t.column /\ screen'.row = t.row
       /\ \A c \in Columns : screen'.cells[0][c] = status[c]
       /\ \A r \in 1 .. Rows, c \in Columns : screen'.cells[r][c] = t.cells[r][c]
  <2>1. CASE scrolls = 0
    <3>1. screen' = t
      BY <1>2, <1>12, <2>1
    <3> QED
      BY <1>6, <1>9, <1>11, <1>12, <2>1, <3>1
  <2>2. CASE scrolls # 0
    <3>1. screen' = PaintStatus(t, status)
      BY <1>2, <1>12, <2>2
    <3> QED
      BY <1>1, <1>11, <3>1, PaintStatusIs
  <2> QED
    BY <2>1, <2>2
<1>14. Shows(g, screen')
  <2>1. Used(g) \in 1 .. Rows /\ Rows \in Nat
    BY <1>11, GeometryAssumption DEF HistoryOk, Used
  <2>2. \A d \in 0 .. Used(g) - 1 : Used(g) - d \in 1 .. Rows
    BY <2>1
  <2>3. \A r \in Used(g) + 1 .. Rows : r \in 1 .. Rows
    BY <2>1
  <2> QED
    BY <1>11, <1>13, <2>2, <2>3 DEF Shows
<1>15. /\ \A row \in 0 .. Rows - 1, c \in Columns :
             screen'.cells[row + 1][c] =
                 IF row < viewport_len(g) THEN viewport_line(g, row)[c] ELSE Blank
       /\ screen'.column = viewport_cursor(g).column
       /\ screen'.row = viewport_cursor(g).row + 1
  BY <1>11, <1>13, <1>14, BottomIsShown
<1>16. hist' = g
  BY <1>2 DEF g
<1>17. ScreenShowsHistory'
  BY <1>2, <1>13, <1>15, <1>16 DEF ScreenShowsHistory
<1>18. HistoryInv(hist')
  <2>1. 0 \in 0 .. LastPage(g)
    BY <1>11, GeometryAssumption DEF HistoryOk, LastPage
  <2> QED
    BY <1>11, <1>16, <2>1 DEF HistoryInv
<1> QED
  BY <1>1, <1>2, <1>13, <1>17, <1>18 DEF ConsoleInv

\* A redraw establishes the invariant for any history that is in order.
LEMMA RedrawInv ==
    ASSUME status \in [Columns -> Chars], status' = status, HistoryInv(hist'),
           screen' = redraw_console_history(hist')
    PROVE  ConsoleInv'
<1> DEFINE t == redraw_console_history(hist')
<1>1. /\ ScreenOk(t)
      /\ \A c \in Columns : t.cells[0][c] = status[c]
      /\ \A row \in 0 .. Rows - 1, c \in Columns :
            t.cells[row + 1][c] =
                IF row < viewport_len(hist') THEN viewport_line(hist', row)[c] ELSE Blank
      /\ t.column = viewport_cursor(hist').column
      /\ t.row = viewport_cursor(hist').row + 1
  BY RedrawIs
<1> HIDE DEF t
<1>2. screen' = t
  BY DEF t
<1> QED
  BY <1>1, <1>2 DEF ConsoleInv, ScreenShowsHistory

\* Paging keeps the invariant: the offset stays between the newest page and the oldest.
LEMMA PageInv ==
    ASSUME ConsoleInv, NEW up \in BOOLEAN, Page(up)
    PROVE  ConsoleInv'
<1> DEFINE offset == IF up THEN PageUpOffset(hist) ELSE PageDownOffset(hist)
<1>1. /\ hist' = [hist EXCEPT !.view_offset = offset]
      /\ screen' = redraw_console_history(hist') /\ status' = status
  BY DEF Page
<1>2. HistoryInv(hist) /\ status \in [Columns -> Chars]
  BY DEF ConsoleInv
<1>3. /\ Rows \in Nat /\ hist.count \in Nat /\ LastPage(hist) \in Nat
      /\ hist.view_offset \in 0 .. LastPage(hist)
  BY <1>2, GeometryAssumption DEF HistoryInv, HistoryOk, LastPage
<1>4. PageUpOffset(hist) \in 0 .. LastPage(hist) /\ PageDownOffset(hist) \in 0 .. LastPage(hist)
  BY <1>3 DEF PageUpOffset, PageDownOffset, LastPage
<1>5. offset \in 0 .. LastPage(hist)
  BY <1>4
<1> HIDE DEF offset
<1>6. /\ DOMAIN hist' = DOMAIN hist /\ hist'.cells = hist.cells /\ hist'.lengths = hist.lengths
      /\ hist'.head = hist.head /\ hist'.count = hist.count /\ hist'.column = hist.column
      /\ hist'.view_offset = offset
  BY <1>1, <1>2 DEF HistoryInv, HistoryOk
<1>7. HistoryInv(hist')
  <2>1. HistoryOk(hist') /\ hist'.column < Width
    BY <1>2, <1>6 DEF HistoryInv, HistoryOk
  <2>2. LastPage(hist') = LastPage(hist)
    BY <1>6 DEF LastPage
  <2> QED
    BY <1>5, <1>6, <2>1, <2>2 DEF HistoryInv
<1> QED
  BY <1>1, <1>2, <1>7, RedrawInv

\* Rendering the status keeps the invariant: only row 0 changes.
LEMMA RenderStatusInv ==
    ASSUME ConsoleInv, NEW line \in StatusLines, RenderStatus(line)
    PROVE  ConsoleInv'
<1>1. status' = line /\ screen' = PaintStatus(screen, line) /\ hist' = hist
  BY DEF RenderStatus
<1>2. line \in [Columns -> Chars]
  BY StatusAssumption
<1>3. HistoryInv(hist) /\ ScreenOk(screen) /\ ScreenShowsHistory
  BY DEF ConsoleInv
<1>4. /\ ScreenOk(screen') /\ screen'.column = screen.column /\ screen'.row = screen.row
      /\ \A c \in Columns : screen'.cells[0][c] = line[c]
      /\ \A r \in 1 .. Rows, c \in Columns : screen'.cells[r][c] = screen.cells[r][c]
  BY <1>1, <1>2, <1>3, PaintStatusIs
<1>5. \A row \in 0 .. Rows - 1 : row + 1 \in 1 .. Rows
  BY GeometryAssumption
<1>6. ScreenShowsHistory'
  BY <1>1, <1>3, <1>4, <1>5 DEF ScreenShowsHistory
<1> QED
  BY <1>1, <1>2, <1>3, <1>4, <1>6 DEF ConsoleInv

\* The console starts in the invariant.
LEMMA ConsoleStarts == ConsoleInit => ConsoleInv
<1> SUFFICES ASSUME ConsoleInit PROVE ConsoleInv
  OBVIOUS
<1> DEFINE t == PaintStatus(ClearScreen, status)
<1>1. hist = NewHistory /\ status \in [Columns -> Chars] /\ screen = SetCursor(t, 0, 1)
  BY StatusAssumption DEF ConsoleInit
<1>2. Width \in Nat \ {0} /\ Rows \in Nat \ {0} /\ HistoryLines \in Nat \ {0} /\ Blank \in Chars
  BY GeometryAssumption, CharsAssumption
<1>3. /\ ScreenOk(ClearScreen)
      /\ \A r \in ScreenRows, c \in Columns : ClearScreen.cells[r][c] = Blank
  BY <1>2 DEF ScreenOk, ClearScreen, ScreenLine, ScreenRows, Columns
<1>4. /\ ScreenOk(t) /\ \A c \in Columns : t.cells[0][c] = status[c]
      /\ \A r \in 1 .. Rows, c \in Columns : t.cells[r][c] = ClearScreen.cells[r][c]
  BY <1>1, <1>3, PaintStatusIs
<1> HIDE DEF t
<1>5. /\ ScreenOk(screen) /\ screen.cells = t.cells /\ screen.column = 0 /\ screen.row = 1
  BY <1>1, <1>2, <1>4 DEF ScreenOk, SetCursor, ScreenRows
<1>6. HistoryInv(hist) /\ hist.view_offset = 0
  BY <1>1, NewHistoryInv
<1>7. /\ hist.count = 1 /\ hist.head = 0 /\ hist.column = 0
      /\ \A l \in Lines, c \in Columns : hist.cells[l][c] = Blank
  BY <1>1 DEF NewHistory, BlankLine
<1>8. Used(hist) = 1
  BY <1>2, <1>7 DEF Used
<1>9. Shows(hist, screen)
  <2>1. \A r \in 1 .. Rows, c \in Columns : screen.cells[r][c] = Blank
    BY <1>2, <1>3, <1>4, <1>5 DEF ScreenRows
  <2>2. /\ \A d \in 0 .. Used(hist) - 1 : d = 0
        /\ Back(hist.head, 0) = 0 /\ 0 \in Lines /\ 1 \in 1 .. Rows
    <3>1. Back(0, 0) = 0 /\ 0 \in Lines
      BY <1>2 DEF Back, Lines
    <3> QED
      BY <1>2, <1>7, <1>8, <3>1
  <2>3. \A r \in Used(hist) + 1 .. Rows : r \in 1 .. Rows
    BY <1>2, <1>8
  <2>4. ASSUME NEW d \in 0 .. Used(hist) - 1, NEW c \in Columns
        PROVE  screen.cells[Used(hist) - d][c] = hist.cells[Back(hist.head, d)][c]
    BY <1>7, <1>8, <2>1, <2>2
  <2> QED
    BY <1>5, <1>8, <2>1, <2>3, <2>4 DEF Shows
<1>10. /\ \A row \in 0 .. Rows - 1, c \in Columns :
             screen.cells[row + 1][c] =
                 IF row < viewport_len(hist) THEN viewport_line(hist, row)[c] ELSE Blank
       /\ screen.column = viewport_cursor(hist).column
       /\ screen.row = viewport_cursor(hist).row + 1
  BY <1>5, <1>6, <1>7, <1>9, BottomIsShown DEF HistoryInv
<1>11. ScreenShowsHistory
  BY <1>4, <1>5, <1>10 DEF ScreenShowsHistory
<1> QED
  BY <1>1, <1>5, <1>6, <1>11 DEF ConsoleInv

\* The ring and the screen are in order and agree after any number of writes,
\* pages, status updates and resets (write, page_up, page_down of
\* console_history.rs, their callers in main.rs): for every screen, ring and set of texts.
THEOREM ConsoleInvariance == ConsoleSpec => []ConsoleInv
<1>1. ConsoleInv /\ [ConsoleNext]_consoleVars => ConsoleInv'
  <2> SUFFICES ASSUME ConsoleInv, [ConsoleNext]_consoleVars PROVE ConsoleInv'
    OBVIOUS
  <2>1. CASE \E units \in Texts : Continues(units) /\ Write(units)
    <3>1. \A units \in Texts : Text(units)
      BY TextsAssumption DEF Text, Units
    <3> QED
      BY <2>1, <3>1, WriteInv
  <2>2. CASE \E up \in BOOLEAN : Page(up)
    BY <2>2, PageInv
  <2>3. CASE ResetConsole
    <3>1. /\ hist' = NewHistory /\ screen' = redraw_console_history(hist') /\ status' = status
          /\ status \in [Columns -> Chars]
      BY <2>3 DEF ResetConsole, ConsoleInv
    <3> QED
      BY <3>1, NewHistoryInv, RedrawInv
  <2>4. CASE \E line \in StatusLines : RenderStatus(line)
    BY <2>4, RenderStatusInv
  <2>5. CASE UNCHANGED consoleVars
    <3>1. UNCHANGED <<hist, screen, status>>
      BY <2>5 DEF consoleVars
    <3> QED
      BY <3>1 DEF ConsoleInv, ScreenShowsHistory
  <2> QED
    BY <2>1, <2>2, <2>3, <2>4, <2>5 DEF ConsoleNext
<1> QED
  BY <1>1, ConsoleStarts, PTL DEF ConsoleSpec

\* The firmware shows what the history says it shows, cursor included, although
\* writing goes past the history: the wrapping of write_content_with_wrap, the
\* scrolling of the firmware and the paging of ConsoleHistory never part.
THEOREM ScreenIsHistory == ConsoleSpec => []ScreenShowsHistory
<1>1. ConsoleInv => ScreenShowsHistory
  BY DEF ConsoleInv
<1> QED
  BY <1>1, ConsoleInvariance, PTL

-----------------------------------------------------------------------------
(* The lines that stay.                                                     *)

\* g is h with n lines more: the lines above the newest one of h are found n
\* lines further back.
Adds(h, g, n) ==
    /\ HistoryOk(g) /\ g.column < Width /\ n \in 0 .. HistoryLines - 1
    /\ g.head = IF h.head + n < HistoryLines THEN h.head + n ELSE h.head + n - HistoryLines
    /\ g.count = IF h.count + n < HistoryLines THEN h.count + n ELSE HistoryLines
    /\ \A d \in n + 1 .. HistoryLines - 1 :
          /\ g.cells[Back(g.head, d)] = h.cells[Back(h.head, d - n)]
          /\ g.lengths[Back(g.head, d)] = h.lengths[Back(h.head, d - n)]

\* Only the newest line is written.
NewestOnly(g, p) ==
    /\ HistoryOk(p) /\ p.head = g.head /\ p.count = g.count
    /\ \A l \in Lines : l # g.head => p.cells[l] = g.cells[l] /\ p.lengths[l] = g.lengths[l]

\* Writing to the newest line adds no line.
LEMMA NewestAdds ==
    ASSUME NEW h, NEW g, NEW p, NEW n, HistoryOk(h), Adds(h, g, n), NewestOnly(g, p), p.column < Width
    PROVE  Adds(h, p, n)
<1>1. ASSUME NEW d \in n + 1 .. HistoryLines - 1
      PROVE  /\ p.cells[Back(p.head, d)] = h.cells[Back(h.head, d - n)]
             /\ p.lengths[Back(p.head, d)] = h.lengths[Back(h.head, d - n)]
  <2>1. d \in 0 .. HistoryLines - 1 /\ d # 0 /\ g.head \in Lines
    BY GeometryAssumption DEF Adds, HistoryOk
  <2>2. Back(g.head, d) \in Lines /\ Back(g.head, d) # g.head
    BY <2>1, BackInRing
  <2> QED
    BY <2>2 DEF Adds, NewestOnly
<1> QED
  BY <1>1 DEF Adds, NewestOnly

\* Advancing adds one.
LEMMA AdvanceAdds ==
    ASSUME NEW h, NEW g, NEW p, NEW n, HistoryOk(h), Adds(h, g, n), NewestOnly(g, p),
           n + 1 \in 0 .. HistoryLines - 1
    PROVE  Adds(h, advance_line(p), n + 1)
<1> DEFINE q == advance_line(p)
           next == IF p.head + 1 = HistoryLines THEN 0 ELSE p.head + 1
<1>0. HistoryOk(p) /\ HistoryOk(g) /\ p.head = g.head /\ p.count = g.count
  BY DEF NewestOnly, Adds
<1>1. /\ HistoryOk(q) /\ q.head = next /\ next \in Lines /\ q.column = 0
      /\ q.count = IF p.count < HistoryLines THEN p.count + 1 ELSE p.count
  BY <1>0, AdvanceOk
<1>2. /\ h.head \in Lines /\ h.count \in 1 .. HistoryLines /\ HistoryLines \in Nat \ {0}
      /\ Width \in Nat \ {0} /\ n \in 0 .. HistoryLines - 1
      /\ g.head = IF h.head + n < HistoryLines THEN h.head + n ELSE h.head + n - HistoryLines
      /\ g.count = IF h.count + n < HistoryLines THEN h.count + n ELSE HistoryLines
  BY GeometryAssumption DEF HistoryOk, Adds
<1>3. (p.head + 1) % HistoryLines = next
  <2> DEFINE x == p.head + 1
  <2>1. p.head \in Lines
    BY <1>0 DEF HistoryOk
  <2>2. x \in Nat /\ x <= HistoryLines
    BY <1>2, <2>1 DEF Lines
  <2> HIDE DEF x
  <2>3. x < 2 * HistoryLines
    BY <1>2, <2>2
  <2>4. x % HistoryLines = IF x < HistoryLines THEN x ELSE x - HistoryLines
    BY <2>2, <2>3, RingIndex
  <2>5. x % HistoryLines = IF x = HistoryLines THEN 0 ELSE x
    BY <1>2, <2>2, <2>4
  <2> QED
    BY <2>5 DEF x
<1>4. q.cells = [p.cells EXCEPT ![next] = BlankLine] /\ q.lengths = [p.lengths EXCEPT ![next] = 0]
  <2> HIDE DEF next
  <2> QED
    BY <1>0, <1>3 DEF advance_line, HistoryOk
<1> HIDE DEF q
<1>5. ASSUME NEW d \in n + 2 .. HistoryLines - 1
      PROVE  /\ q.cells[Back(q.head, d)] = h.cells[Back(h.head, d - (n + 1))]
             /\ q.lengths[Back(q.head, d)] = h.lengths[Back(h.head, d - (n + 1))]
  <2>1. /\ d - 1 \in n + 1 .. HistoryLines - 1 /\ d - 1 \in 0 .. HistoryLines - 1 /\ d - 1 # 0
        /\ (d - 1) - n = d - (n + 1) /\ d \in 1 .. HistoryLines - 1
    BY <1>2
  <2>2. g.head \in Lines
    BY <1>0 DEF HistoryOk
  <2>3. Back(q.head, d) = Back(g.head, d - 1) /\ Back(q.head, d) # next
    BY <1>0, <1>1, <1>2, <2>1, <2>2 DEF Back, Lines
  <2>4. Back(g.head, d - 1) \in Lines /\ Back(g.head, d - 1) # g.head
    BY <2>1, <2>2, BackInRing
  <2> HIDE DEF next
  <2>5. /\ p.cells[Back(g.head, d - 1)] = g.cells[Back(g.head, d - 1)]
        /\ p.lengths[Back(g.head, d - 1)] = g.lengths[Back(g.head, d - 1)]
    BY <2>4 DEF NewestOnly
  <2>6. /\ q.cells[Back(g.head, d - 1)] = p.cells[Back(g.head, d - 1)]
        /\ q.lengths[Back(g.head, d - 1)] = p.lengths[Back(g.head, d - 1)]
    BY <1>0, <1>4, <2>3, <2>4 DEF HistoryOk
  <2>7. /\ g.cells[Back(g.head, d - 1)] = h.cells[Back(h.head, (d - 1) - n)]
        /\ g.lengths[Back(g.head, d - 1)] = h.lengths[Back(h.head, (d - 1) - n)]
    BY <2>1 DEF Adds
  <2> QED
    BY <2>1, <2>3, <2>5, <2>6, <2>7
<1>6. q.head = IF h.head + (n + 1) < HistoryLines THEN h.head + (n + 1) ELSE h.head + (n + 1) - HistoryLines
  BY <1>0, <1>1, <1>2 DEF Lines
<1>7. q.count = IF h.count + (n + 1) < HistoryLines THEN h.count + (n + 1) ELSE HistoryLines
  BY <1>0, <1>1, <1>2
<1>8. q.column < Width /\ n + 2 = (n + 1) + 1
  BY <1>1, <1>2
<1> QED
  BY <1>1, <1>5, <1>6, <1>7, <1>8 DEF Adds, q

\* One unit adds a line or none.
LEMMA UnitAdds ==
    ASSUME NEW h, NEW g, NEW n, HistoryOk(h), Adds(h, g, n), n + 1 \in 0 .. HistoryLines - 1,
           NEW unit \in Units
    PROVE  Adds(h, HistoryPut(g, unit), n) \/ Adds(h, HistoryPut(g, unit), n + 1)
<1>1. HistoryOk(g) /\ g.column \in 0 .. Width - 1 /\ Width \in Nat \ {0}
  BY GeometryAssumption DEF Adds, HistoryOk
<1>2. NewestOnly(g, g)
  BY <1>1 DEF NewestOnly
<1>3. ASSUME NEW col \in 0 .. Width - 1, HistoryPut(g, unit) = [g EXCEPT !.column = col]
      PROVE  Adds(h, HistoryPut(g, unit), n)
  <2> DEFINE p == [g EXCEPT !.column = col]
  <2>1. /\ DOMAIN p = DOMAIN g /\ p.cells = g.cells /\ p.lengths = g.lengths
        /\ p.head = g.head /\ p.count = g.count /\ p.column = col /\ col \in 0 .. Width /\ col < Width
    BY <1>1 DEF HistoryOk
  <2> HIDE DEF p
  <2>2. NewestOnly(g, p)
    BY <1>1, <2>1 DEF NewestOnly, HistoryOk
  <2>3. Adds(h, p, n)
    BY <2>1, <2>2, NewestAdds
  <2> QED
    BY <1>3, <2>3 DEF p
<1>4. CASE unit = BS
  <2> DEFINE col == IF g.column = 0 THEN 0 ELSE g.column - 1
  <2>1. col \in 0 .. Width - 1
    BY <1>1
  <2>2. HistoryPut(g, unit) = [g EXCEPT !.column = col]
    BY <1>4 DEF HistoryPut, BS, CR, LF
  <2> HIDE DEF col
  <2> QED
    BY <1>3, <2>1, <2>2
<1>5. CASE unit = CR
  <2>1. 0 \in 0 .. Width - 1
    BY <1>1
  <2>2. HistoryPut(g, unit) = [g EXCEPT !.column = 0]
    BY <1>5 DEF HistoryPut, BS, CR, LF
  <2> QED
    BY <1>3, <2>1, <2>2
<1>6. CASE unit = LF
  <2>1. HistoryPut(g, unit) = advance_line(g)
    BY <1>6 DEF HistoryPut, BS, CR, LF
  <2> QED
    BY <1>2, <2>1, AdvanceAdds
<1>7. CASE unit \in Chars
  <2> DEFINE p == PutHistory(g, unit)
  <2>0. unit # BS /\ unit # CR /\ unit # LF
    BY <1>7, CharsAssumption
  <2>1. HistoryPut(g, unit) = IF p.column = Width THEN advance_line(p) ELSE p
    BY <2>0 DEF HistoryPut, PutHistory
  <2>2. HistoryOk(p) /\ p.head = g.head /\ p.count = g.count /\ p.column = g.column + 1
    BY <1>1, <1>7, PutHistoryOk
  <2>3. /\ p.cells = [g.cells EXCEPT ![g.head][g.column] = unit]
        /\ p.lengths = [g.lengths EXCEPT ![g.head] = IF @ > g.column THEN @ ELSE g.column + 1]
    BY <1>1 DEF HistoryOk, PutHistory
  <2> HIDE DEF p
  <2>4. NewestOnly(g, p)
    <3>1. \A l \in Lines : l # g.head => p.cells[l] = g.cells[l] /\ p.lengths[l] = g.lengths[l]
      BY <1>1, <2>3 DEF HistoryOk
    <3> QED
      BY <2>2, <3>1 DEF NewestOnly
  <2>5. CASE p.column = Width
    BY <2>1, <2>4, <2>5, AdvanceAdds
  <2>6. CASE p.column # Width
    <3>1. p.column < Width
      BY <1>1, <2>2, <2>6
    <3> QED
      BY <2>1, <2>4, <2>6, <3>1, NewestAdds
  <2> QED
    BY <2>5, <2>6
<1> QED
  BY <1>4, <1>5, <1>6, <1>7 DEF Units

\* A text adds at most as many lines as it has units.
LEMMA TextAdds ==
    ASSUME NEW h, NEW units \in Seq(Units), HistoryOk(h), h.column < Width, Len(units) < HistoryLines
    PROVE  \E n \in 0 .. HistoryLines - 1 : Adds(h, HistoryWrite(h, units), n)
<1> DEFINE run == HistoryRun(h, units)
           S == {i \in Nat : i <= Len(units) => \E n \in 0 .. i : Adds(h, run[i], n)}
<1>1. Len(units) \in Nat /\ HistoryLines \in Nat
  BY GeometryAssumption
<1>2. IsHistoryRun(run, h, units, Len(units))
  BY <1>1, HistoryRunIs
<1> HIDE DEF run
<1>3. run[0] = h /\ \A i \in 1 .. Len(units) : run[i] = HistoryPut(run[i - 1], units[i])
  BY <1>1, <1>2 DEF IsHistoryRun
<1>4. Adds(h, h, 0)
  <2>1. h.head \in Nat /\ h.head < HistoryLines /\ h.count \in 1 .. HistoryLines
    BY <1>1 DEF HistoryOk, Lines
  <2>2. \A d \in 1 .. HistoryLines - 1 : d - 0 = d
    BY <1>1
  <2> QED
    BY <1>1, <2>1, <2>2 DEF Adds
<1>5. ASSUME NEW i \in Nat, i \in S PROVE i + 1 \in S
  <2> SUFFICES ASSUME i + 1 <= Len(units) PROVE \E n \in 0 .. i + 1 : Adds(h, run[i + 1], n)
    OBVIOUS
  <2>1. PICK n \in 0 .. i : Adds(h, run[i], n)
    BY <1>1, <1>5
  <2>2. run[i + 1] = HistoryPut(run[i], units[i + 1]) /\ units[i + 1] \in Units
    BY <1>1, <1>3
  <2>3. n + 1 \in 0 .. HistoryLines - 1 /\ n \in 0 .. i + 1 /\ n + 1 \in 0 .. i + 1
    BY <1>1
  <2>4. Adds(h, run[i + 1], n) \/ Adds(h, run[i + 1], n + 1)
    BY <2>1, <2>2, <2>3, UnitAdds
  <2> QED
    BY <2>3, <2>4
<1>6. \E n \in 0 .. Len(units) : Adds(h, run[Len(units)], n)
  <2>1. 0 \in S
    BY <1>3, <1>4
  <2> HIDE DEF S
  <2>2. Nat \subseteq S
    BY <1>5, <2>1, SetInduction
  <2> QED
    BY <1>1, <2>2 DEF S
<1>7. HistoryWrite(h, units) = run[Len(units)]
  BY HistoryWriteIs DEF run
<1> QED
  BY <1>1, <1>6, <1>7

\* What is kept of a line.
KeptLines == [length : 0 .. Width, cells : [Columns -> Chars]]

\* The lines kept are the ones counted back from the newest.
LEMMA KeptIs ==
    ASSUME NEW h, HistoryOk(h)
    PROVE  /\ Kept(h) \in Seq(KeptLines) /\ Len(Kept(h)) = h.count
           /\ \A i \in 1 .. h.count :
                 Kept(h)[i] = [length |-> h.lengths[Back(h.head, h.count - i)],
                               cells |-> h.cells[Back(h.head, h.count - i)]]
<1>1. h.count \in 1 .. HistoryLines /\ HistoryLines \in Nat /\ h.head \in Lines
  BY GeometryAssumption DEF HistoryOk
<1>2. ASSUME NEW i \in 1 .. h.count
      PROVE  /\ Physical(h, i - 1) = Back(h.head, h.count - i)
             /\ Back(h.head, h.count - i) \in Lines
  <2> DEFINE d == h.count - i
  <2>1. d \in 0 .. h.count - 1 /\ h.count - 1 - d = i - 1 /\ d \in 0 .. HistoryLines - 1
    BY <1>1
  <2> HIDE DEF d
  <2>2. Physical(h, i - 1) = Back(h.head, d) /\ Back(h.head, d) \in Lines
    BY <1>1, <2>1, PhysicalIsBack, BackInRing
  <2> QED
    BY <2>2 DEF d
<1> DEFINE line(i) == [length |-> h.lengths[Back(h.head, h.count - i)],
                       cells |-> h.cells[Back(h.head, h.count - i)]]
<1>3. \A i \in 1 .. h.count : line(i) \in KeptLines
  BY <1>2 DEF KeptLines, HistoryOk
<1>4. Kept(h) = [i \in 1 .. h.count |-> line(i)]
  BY <1>2 DEF Kept
<1> HIDE DEF line
<1>5. Kept(h) \in Seq(KeptLines) /\ Len(Kept(h)) = h.count
  BY <1>1, <1>3, <1>4
<1> QED
  BY <1>4, <1>5 DEF line

\* When lines were added, the ones above them that still fit have stayed.
LEMMA AddsStays ==
    ASSUME NEW h, NEW g, NEW n, HistoryOk(h), Adds(h, g, n)
    PROVE  LinesStay(h, g)
<1> DEFINE all == h.count + n
           dropped == IF all > HistoryLines THEN all - HistoryLines ELSE 0
           old == SubSeq(Kept(h), dropped + 1, h.count - 1)
           m == h.count - 1 - dropped
<1>1. /\ HistoryOk(g) /\ h.count \in 1 .. HistoryLines /\ HistoryLines \in Nat \ {0}
      /\ h.head \in Lines /\ n \in 0 .. HistoryLines - 1
      /\ g.head = IF h.head + n < HistoryLines THEN h.head + n ELSE h.head + n - HistoryLines
      /\ g.count = IF all < HistoryLines THEN all ELSE HistoryLines
  BY GeometryAssumption DEF HistoryOk, Adds
<1>2. (g.head - h.head) % HistoryLines = n
  BY <1>1 DEF Lines
<1>3. /\ g.count = all - dropped /\ dropped \in Nat /\ m \in Nat /\ dropped + m = h.count - 1
      /\ g.count = m + 1 + n
  BY <1>1
<1>4. /\ Kept(h) \in Seq(KeptLines) /\ Len(Kept(h)) = h.count
      /\ Kept(g) \in Seq(KeptLines) /\ Len(Kept(g)) = g.count
      /\ \A i \in 1 .. h.count : Kept(h)[i] = [length |-> h.lengths[Back(h.head, h.count - i)],
                                               cells |-> h.cells[Back(h.head, h.count - i)]]
      /\ \A i \in 1 .. g.count : Kept(g)[i] = [length |-> g.lengths[Back(g.head, g.count - i)],
                                               cells |-> g.cells[Back(g.head, g.count - i)]]
  BY <1>1, KeptIs
<1>5. ASSUME NEW j \in 1 .. m
      PROVE  Kept(g)[j] = Kept(h)[dropped + j]
  <2> DEFINE d == g.count - j
  <2>1. /\ d \in n + 1 .. HistoryLines - 1 /\ d - n = h.count - (dropped + j)
        /\ j \in 1 .. g.count /\ dropped + j \in 1 .. h.count
    BY <1>1, <1>3
  <2>2. Kept(g)[j] = [length |-> g.lengths[Back(g.head, d)], cells |-> g.cells[Back(g.head, d)]]
    BY <1>4, <2>1
  <2>3. Kept(h)[dropped + j] = [length |-> h.lengths[Back(h.head, h.count - (dropped + j))],
                                cells |-> h.cells[Back(h.head, h.count - (dropped + j))]]
    <3> HIDE DEF dropped
    <3> QED
      BY <1>4, <2>1
  <2> HIDE DEF d, dropped
  <2>4. /\ g.cells[Back(g.head, d)] = h.cells[Back(h.head, d - n)]
        /\ g.lengths[Back(g.head, d)] = h.lengths[Back(h.head, d - n)]
    BY <2>1 DEF Adds
  <2> QED
    BY <2>1, <2>2, <2>3, <2>4
<1> HIDE DEF dropped, m, all
<1>6. old \in Seq(KeptLines) /\ Len(old) = m /\ \A j \in 1 .. m : old[j] = Kept(h)[dropped + j]
  <2>1. \A i \in dropped + 1 .. h.count - 1 : Kept(h)[i] \in KeptLines
    BY <1>1, <1>3, <1>4
  <2>2. /\ dropped + 1 \in Int /\ h.count - 1 \in Int
        /\ (h.count - 1) - (dropped + 1) + 1 = m
        /\ \A j \in 1 .. m : dropped + 1 + j - 1 = dropped + j
    BY <1>1, <1>3
  <2>3. /\ old \in Seq(KeptLines)
        /\ Len(old) = IF dropped + 1 <= h.count - 1 THEN (h.count - 1) - (dropped + 1) + 1 ELSE 0
        /\ \A j \in 1 .. (h.count - 1) - (dropped + 1) + 1 : old[j] = Kept(h)[dropped + 1 + j - 1]
    BY <2>1, <2>2, SubSeqProperties
  <2> HIDE DEF old
  <2>4. Len(old) = m
    BY <1>1, <1>3, <2>2, <2>3
  <2> QED
    BY <2>2, <2>3, <2>4
<1> HIDE DEF old
<1>7. SubSeq(old, 1, m) = SubSeq(Kept(g), 1, m)
  <2> DEFINE one == SubSeq(old, 1, m)
             two == SubSeq(Kept(g), 1, m)
  <2>1. /\ \A j \in 1 .. m : old[j] \in KeptLines /\ Kept(g)[j] \in KeptLines
        /\ m \in Int /\ m - 1 + 1 = m /\ \A j \in 1 .. m : 1 + j - 1 = j
    <3>1. \A j \in 1 .. m : j \in 1 .. g.count
      BY <1>1, <1>3
    <3> QED
      BY <1>3, <1>4, <1>6, <3>1
  <2>2. /\ one \in Seq(KeptLines) /\ Len(one) = IF 1 <= m THEN m - 1 + 1 ELSE 0
        /\ \A j \in 1 .. m - 1 + 1 : one[j] = old[1 + j - 1]
    BY <2>1, SubSeqProperties
  <2>3. /\ two \in Seq(KeptLines) /\ Len(two) = IF 1 <= m THEN m - 1 + 1 ELSE 0
        /\ \A j \in 1 .. m - 1 + 1 : two[j] = Kept(g)[1 + j - 1]
    BY <2>1, SubSeqProperties
  <2> HIDE DEF one, two
  <2>4. Len(one) = Len(two) /\ Len(one) = m
    BY <1>3, <2>2, <2>3
  <2>5. \A j \in 1 .. Len(one) : one[j] = two[j]
    BY <1>5, <1>6, <2>1, <2>2, <2>3, <2>4
  <2>6. one = two
    BY <2>2, <2>3, <2>4, <2>5, SeqEqual
  <2> QED
    BY <2>6 DEF one, two
<1>8. IsPrefix(old, Kept(g))
  <2>1. Len(old) <= Len(Kept(g))
    BY <1>1, <1>3, <1>4, <1>6
  <2> QED
    BY <1>6, <1>7, <2>1 DEF IsPrefix
<1> QED
  BY <1>2, <1>3, <1>8 DEF LinesStay, all, dropped, old

\* A history that differs in the view alone.
LEMMA SameStays ==
    ASSUME NEW h, NEW g, HistoryInv(h), g.cells = h.cells, g.lengths = h.lengths, g.head = h.head,
           g.count = h.count, g.column = h.column, DOMAIN g = DOMAIN h
    PROVE  LinesStay(h, g)
<1>1. HistoryOk(g) /\ g.column < Width
  BY DEF HistoryInv, HistoryOk
<1>2. /\ HistoryLines \in Nat \ {0} /\ h.head \in Nat /\ h.head < HistoryLines
      /\ h.count \in 1 .. HistoryLines
  BY GeometryAssumption DEF HistoryInv, HistoryOk, Lines
<1>3. \A d \in 1 .. HistoryLines - 1 : d - 0 = d
  BY <1>2
<1>4. Adds(h, g, 0)
  BY <1>1, <1>2, <1>3 DEF Adds
<1> QED
  BY <1>4, AddsStays DEF HistoryInv

\* No write loses a line that still fits in the ring or changes one above the
\* newest (write and advance_line of console_history.rs), for every text that is
\* shorter than the ring has lines; a longer one may go round the ring.
THEOREM OldLinesKept ==
    ASSUME \A text \in Texts : Len(text) < HistoryLines
    PROVE  ConsoleSpec => OldLinesStay
<1>1. ConsoleInv /\ [ConsoleNext]_consoleVars => [hist' = NewHistory \/ LinesStay(hist, hist')]_consoleVars
  <2> SUFFICES ASSUME ConsoleInv, ConsoleNext PROVE hist' = NewHistory \/ LinesStay(hist, hist')
    OBVIOUS
  <2>0. HistoryInv(hist)
    BY DEF ConsoleInv
  <2>1. CASE \E units \in Texts : Continues(units) /\ Write(units)
    <3>1. PICK units \in Texts : Write(units)
      BY <2>1
    <3> DEFINE bottom == [hist EXCEPT !.view_offset = 0]
    <3>2. hist' = HistoryWrite(bottom, units)
      BY <3>1 DEF Write
    <3>3. /\ DOMAIN bottom = DOMAIN hist /\ bottom.cells = hist.cells /\ bottom.lengths = hist.lengths
          /\ bottom.head = hist.head /\ bottom.count = hist.count /\ bottom.column = hist.column
      BY <2>0 DEF HistoryInv, HistoryOk
    <3> HIDE DEF bottom
    <3>4. HistoryOk(bottom) /\ bottom.column < Width /\ HistoryOk(hist)
      BY <2>0, <3>3 DEF HistoryInv, HistoryOk
    <3>5. units \in Seq(Units) /\ Len(units) < HistoryLines
      BY TextsAssumption DEF Units
    <3>6. PICK n \in 0 .. HistoryLines - 1 : Adds(bottom, hist', n)
      BY <3>2, <3>4, <3>5, TextAdds
    <3>7. Adds(hist, hist', n)
      BY <3>3, <3>6 DEF Adds
    <3> QED
      BY <3>4, <3>7, AddsStays
  <2>2. CASE \E up \in BOOLEAN : Page(up)
    <3>1. PICK offset : hist' = [hist EXCEPT !.view_offset = offset]
      BY <2>2 DEF Page
    <3>2. /\ DOMAIN hist' = DOMAIN hist /\ hist'.cells = hist.cells /\ hist'.lengths = hist.lengths
          /\ hist'.head = hist.head /\ hist'.count = hist.count /\ hist'.column = hist.column
      BY <2>0, <3>1 DEF HistoryInv, HistoryOk
    <3> QED
      BY <2>0, <3>2, SameStays
  <2>3. CASE ResetConsole
    BY <2>3 DEF ResetConsole
  <2>4. CASE \E line \in StatusLines : RenderStatus(line)
    <3>1. hist' = hist
      BY <2>4 DEF RenderStatus
    <3> QED
      BY <2>0, <3>1, SameStays
  <2> QED
    BY <2>1, <2>2, <2>3, <2>4 DEF ConsoleNext
<1> QED
  BY <1>1, ConsoleInvariance, PTL DEF ConsoleSpec, OldLinesStay

-----------------------------------------------------------------------------
(* The line that is typed.                                                  *)

\* The newest line holds the first n units of text and the next goes behind
\* them.
LineShows(h, text, n) ==
    /\ h.column = n
    /\ \A c \in Columns : h.cells[h.head][c] = IF c < n THEN text[c + 1] ELSE Blank

\* One more character, short of the edge.
LEMMA TypedShows ==
    ASSUME NEW h, NEW text, NEW n \in Nat, HistoryOk(h), LineShows(h, text, n), n + 1 < Width,
           text[n + 1] \in Chars
    PROVE  /\ HistoryOk(HistoryPut(h, text[n + 1]))
           /\ LineShows(HistoryPut(h, text[n + 1]), text, n + 1)
<1> DEFINE unit == text[n + 1]
           g == PutHistory(h, unit)
<1>1. h.column = n /\ n < Width /\ h.head \in Lines /\ Width \in Nat /\ unit \in Chars
  BY GeometryAssumption DEF LineShows, HistoryOk
<1>2. unit # BS /\ unit # CR /\ unit # LF
  BY <1>1, CharsAssumption
<1>3. /\ HistoryOk(g) /\ g.head = h.head /\ g.column = n + 1
      /\ \A l \in Lines, c \in Columns :
            g.cells[l][c] = IF l = h.head /\ c = h.column THEN unit ELSE h.cells[l][c]
  <2> HIDE DEF unit
  <2> QED
    BY <1>1, PutHistoryOk
<1>4. HistoryPut(h, unit) = IF g.column = Width THEN advance_line(g) ELSE g
  BY <1>2 DEF HistoryPut, PutHistory
<1> HIDE DEF g
<1>5. HistoryPut(h, unit) = g
  BY <1>1, <1>3, <1>4
<1>6. \A c \in Columns : g.cells[g.head][c] = IF c < n + 1 THEN text[c + 1] ELSE Blank
  <2> TAKE c \in Columns
  <2>1. c \in Int /\ (c < n + 1 <=> c < n \/ c = n)
    BY <1>1 DEF Columns
  <2>2. h.cells[h.head][c] = IF c < n THEN text[c + 1] ELSE Blank
    BY DEF LineShows
  <2>3. g.cells[g.head][c] = IF c = n THEN unit ELSE h.cells[h.head][c]
    BY <1>1, <1>3
  <2>4. CASE c = n
    BY <2>1, <2>3, <2>4
  <2>5. CASE c # n
    BY <2>1, <2>2, <2>3, <2>5
  <2> QED
    BY <2>4, <2>5
<1> QED
  BY <1>3, <1>5, <1>6 DEF LineShows

\* CR LF begins an empty line.
LEMMA NewLineShows ==
    ASSUME NEW h, HistoryOk(h), NEW text
    PROVE  LET g == HistoryPut(HistoryPut(h, CR), LF)
           IN  HistoryOk(g) /\ LineShows(g, text, 0)
<1> DEFINE p == [h EXCEPT !.column = 0]
           g == advance_line(p)
           next == IF p.head + 1 = HistoryLines THEN 0 ELSE p.head + 1
<1>1. HistoryPut(h, CR) = p /\ HistoryPut(p, LF) = g
  BY DEF HistoryPut, BS, CR, LF
<1>2. HistoryOk(p)
  <2>1. /\ DOMAIN p = DOMAIN h /\ p.cells = h.cells /\ p.lengths = h.lengths
        /\ p.head = h.head /\ p.count = h.count /\ p.column = 0 /\ 0 \in 0 .. Width
    BY GeometryAssumption DEF HistoryOk
  <2> HIDE DEF p
  <2> QED
    BY <2>1 DEF HistoryOk
<1> HIDE DEF p
<1>3. /\ HistoryOk(g) /\ g.head = next /\ next \in Lines /\ g.column = 0
      /\ \A l \in Lines, c \in Columns :
            g.cells[l][c] = IF l = next THEN Blank ELSE p.cells[l][c]
  BY <1>2, AdvanceOk
<1> HIDE DEF g, next
<1>4. \A c \in Columns : ~(c < 0) /\ g.cells[g.head][c] = Blank
  BY <1>3, GeometryAssumption DEF Columns
<1>5. LineShows(g, text, 0)
  BY <1>3, <1>4 DEF LineShows
<1> QED
  BY <1>1, <1>3, <1>5

\* A text that goes on with the prompt after its first k units.
LEMMA PromptShows ==
    ASSUME NEW h, NEW units \in Seq(Units), NEW k \in Nat, Len(units) = k + Len(PromptText),
           \A i \in 1 .. Len(PromptText) : units[k + i] = PromptText[i],
           HistoryOk(HistoryRun(h, units)[k]), LineShows(HistoryRun(h, units)[k], PromptText, 0),
           Len(PromptText) < Width
    PROVE  LineShows(HistoryWrite(h, units), PromptText, Len(PromptText))
<1> DEFINE run == HistoryRun(h, units)
           n == Len(PromptText)
           S == {i \in Nat : i <= n => HistoryOk(run[k + i]) /\ LineShows(run[k + i], PromptText, i)}
<1>1. /\ n \in Nat /\ Width \in Nat /\ Len(units) = k + n /\ Len(units) \in Nat
      /\ \A i \in 1 .. n : PromptText[i] \in Chars
  BY LiveAssumption, GeometryAssumption
<1>2. IsHistoryRun(run, h, units, Len(units))
  BY <1>1, HistoryRunIs
<1>3. HistoryWrite(h, units) = run[k + n]
  BY <1>1, HistoryWriteIs
<1>4. HistoryOk(run[k]) /\ LineShows(run[k], PromptText, 0)
  OBVIOUS
<1> HIDE DEF run
<1>5. 0 \in S
  BY <1>4
<1>6. ASSUME NEW i \in Nat, i \in S PROVE i + 1 \in S
  <2> SUFFICES ASSUME i + 1 <= n
               PROVE  HistoryOk(run[k + (i + 1)]) /\ LineShows(run[k + (i + 1)], PromptText, i + 1)
    OBVIOUS
  <2>1. HistoryOk(run[k + i]) /\ LineShows(run[k + i], PromptText, i)
    BY <1>1, <1>6
  <2>2. /\ k + (i + 1) \in 1 .. Len(units) /\ (k + (i + 1)) - 1 = k + i /\ k + (i + 1) # 0
        /\ k + (i + 1) \in 0 .. Len(units) /\ i + 1 \in 1 .. n /\ i + 1 < Width
    BY <1>1
  <2>3. run[k + (i + 1)] = HistoryPut(run[k + i], PromptText[i + 1])
    BY <1>2, <2>2 DEF IsHistoryRun
  <2> QED
    BY <1>1, <2>1, <2>2, <2>3, TypedShows
<1>7. LineShows(run[k + n], PromptText, n)
  <2> HIDE DEF S
  <2>1. Nat \subseteq S
    BY <1>5, <1>6, SetInduction
  <2> QED
    BY <1>1, <2>1 DEF S
<1> QED
  BY <1>3, <1>7

\* Erasing the last character: back, a blank over it, back again.
LEMMA ErasedShows ==
    ASSUME NEW h, NEW text, NEW n \in Nat, HistoryOk(h), LineShows(h, text, n + 1), n + 1 < Width
    PROVE  LineShows(HistoryPut(HistoryPut(HistoryPut(h, BS), Blank), BS), text, n)
<1> DEFINE p == [h EXCEPT !.column = n]
           q == PutHistory(p, Blank)
           g == [q EXCEPT !.column = n]
<1>1. /\ h.column = n + 1 /\ Width \in Nat /\ h.head \in Lines /\ Blank \in Chars
      /\ n \in Columns /\ n < Width /\ n \in 0 .. Width
      /\ DOMAIN h = {"cells", "lengths", "head", "count", "column", "view_offset"}
  BY GeometryAssumption, CharsAssumption DEF LineShows, HistoryOk, Columns
<1>2. HistoryPut(h, BS) = p
  BY <1>1 DEF HistoryPut, BS, CR, LF
<1>3. HistoryOk(p) /\ p.column = n /\ p.head = h.head /\ p.cells = h.cells
  <2>1. /\ DOMAIN p = DOMAIN h /\ p.cells = h.cells /\ p.lengths = h.lengths
        /\ p.head = h.head /\ p.count = h.count /\ p.column = n
    BY <1>1
  <2> HIDE DEF p
  <2> QED
    BY <1>1, <2>1 DEF HistoryOk
<1> HIDE DEF p
<1>4. Blank # BS /\ Blank # CR /\ Blank # LF
  BY CharsAssumption
<1>5. HistoryPut(p, Blank) = IF q.column = Width THEN advance_line(q) ELSE q
  BY <1>4 DEF HistoryPut, PutHistory
<1>6. /\ HistoryOk(q) /\ q.head = h.head /\ q.column = n + 1
      /\ \A l \in Lines, c \in Columns :
            q.cells[l][c] = IF l = h.head /\ c = n THEN Blank ELSE h.cells[l][c]
  BY <1>1, <1>3, PutHistoryOk
<1> HIDE DEF q
<1>7. HistoryPut(p, Blank) = q
  BY <1>1, <1>5, <1>6
<1>8. HistoryPut(q, BS) = g
  BY <1>6 DEF HistoryPut, BS, CR, LF
<1>9. g.column = n /\ g.head = q.head /\ g.cells = q.cells
  BY <1>6 DEF HistoryOk
<1> HIDE DEF g
<1>10. \A c \in Columns : g.cells[g.head][c] = IF c < n THEN text[c + 1] ELSE Blank
  <2> TAKE c \in Columns
  <2>1. c \in Int /\ (c < n + 1 <=> c < n \/ c = n)
    BY <1>1 DEF Columns
  <2>2. h.cells[h.head][c] = IF c < n + 1 THEN text[c + 1] ELSE Blank
    BY DEF LineShows
  <2>3. g.cells[g.head][c] = IF c = n THEN Blank ELSE h.cells[h.head][c]
    BY <1>1, <1>6, <1>9
  <2> QED
    BY <2>1, <2>2, <2>3
<1> QED
  BY <1>2, <1>7, <1>8, <1>9, <1>10 DEF LineShows

\* The units the calls of one key write.
UnitsOf(made) == FlattenSeq([i \in 1 .. Len(made) |-> Shown(made[i])])

\* No call writes nothing.
LEMMA UnitsOfNone == UnitsOf(<< >>) = << >>
  BY DEF UnitsOf, FlattenSeq

\* One call writes its own units.
LEMMA UnitsOfOne ==
    ASSUME NEW a
    PROVE  UnitsOf(<<a>>) = Shown(a)
<1> DEFINE shown == [i \in 1 .. Len(<<a>>) |-> Shown(<<a>>[i])]
<1>1. Len(shown) = 1 /\ shown[1] = Shown(a)
  OBVIOUS
<1> HIDE DEF shown
<1> DEFINE flat == CHOOSE f : f = [i \in 1 .. Len(shown) |->
                                     IF i = 1 THEN shown[i] ELSE f[i - 1] \o shown[i]]
           one == [i \in 1 .. 1 |-> shown[1]]
<1>2. FlattenSeq(shown) = flat[1]
  BY <1>1 DEF FlattenSeq
<1>3. one = [i \in 1 .. Len(shown) |-> IF i = 1 THEN shown[i] ELSE one[i - 1] \o shown[i]]
  BY <1>1
<1>4. flat = [i \in 1 .. Len(shown) |-> IF i = 1 THEN shown[i] ELSE flat[i - 1] \o shown[i]]
  <2> HIDE DEF one
  <2> QED
    BY <1>3
<1> HIDE DEF flat
<1>5. flat[1] = shown[1]
  BY <1>1, <1>4
<1> QED
  BY <1>1, <1>2, <1>5 DEF UnitsOf, shown

\* Two calls write theirs one behind the other.
LEMMA UnitsOfTwo ==
    ASSUME NEW a, NEW b
    PROVE  UnitsOf(<<a, b>>) = Shown(a) \o Shown(b)
<1> DEFINE shown == [i \in 1 .. Len(<<a, b>>) |-> Shown(<<a, b>>[i])]
<1>1. Len(shown) = 2 /\ shown[1] = Shown(a) /\ shown[2] = Shown(b)
  OBVIOUS
<1> HIDE DEF shown
<1> DEFINE flat == CHOOSE f : f = [i \in 1 .. Len(shown) |->
                                     IF i = 1 THEN shown[i] ELSE f[i - 1] \o shown[i]]
           two == [i \in 1 .. 2 |-> IF i = 1 THEN shown[1] ELSE shown[1] \o shown[2]]
<1>2. FlattenSeq(shown) = flat[2]
  BY <1>1 DEF FlattenSeq
<1>3. two = [i \in 1 .. Len(shown) |-> IF i = 1 THEN shown[i] ELSE two[i - 1] \o shown[i]]
  BY <1>1
<1>4. flat = [i \in 1 .. Len(shown) |-> IF i = 1 THEN shown[i] ELSE flat[i - 1] \o shown[i]]
  <2> HIDE DEF two
  <2> QED
    BY <1>3
<1> HIDE DEF flat
<1>5. flat[1] = shown[1] /\ flat[2] = flat[1] \o shown[2]
  BY <1>1, <1>4
<1> QED
  BY <1>1, <1>2, <1>5 DEF UnitsOf, shown

\* What each call writes.
LEMMA ShownIs ==
    /\ \A index : Shown(CallPrompt(index)) = PromptText
    /\ \A index, line : Shown(CallAccepted(index, line)) = <<CR, LF>>
    /\ \A index : Shown(CallRejected(index)) = <<CR, LF>>
    /\ \A key : Shown(CallLive(key)) = <<key>>
    /\ Shown(CallErase) = <<BS, Blank, BS>>
  BY DEF Shown, CallPrompt, CallAccepted, CallRejected, CallLive, CallErase

\* Texts of one and of three units, and the histories after CR LF.
LEMMA ShortRuns ==
    ASSUME NEW h, NEW units \in Seq(Units)
    PROVE  /\ HistoryRun(h, units)[0] = h
           /\ Len(units) >= 1 => HistoryRun(h, units)[1] = HistoryPut(h, units[1])
           /\ Len(units) >= 2 =>
                 HistoryRun(h, units)[2] = HistoryPut(HistoryPut(h, units[1]), units[2])
           /\ Len(units) >= 3 =>
                 HistoryRun(h, units)[3] =
                     HistoryPut(HistoryPut(HistoryPut(h, units[1]), units[2]), units[3])
<1> DEFINE run == HistoryRun(h, units)
<1>1. Len(units) \in Nat
  OBVIOUS
<1>2. IsHistoryRun(run, h, units, Len(units))
  BY <1>1, HistoryRunIs
<1> HIDE DEF run
<1>3. run[0] = h /\ \A i \in 1 .. Len(units) : run[i] = HistoryPut(run[i - 1], units[i])
  BY <1>1, <1>2 DEF IsHistoryRun
<1>4. Len(units) >= 1 => run[1] = HistoryPut(run[0], units[1])
  BY <1>1, <1>3
<1>5. Len(units) >= 2 => run[2] = HistoryPut(run[1], units[2]) /\ Len(units) >= 1
  BY <1>1, <1>3
<1>6. Len(units) >= 3 => run[3] = HistoryPut(run[2], units[3]) /\ Len(units) >= 2
  BY <1>1, <1>3
<1> QED
  BY <1>3, <1>4, <1>5, <1>6 DEF run

-----------------------------------------------------------------------------
(* Typing.                                                                  *)

LiveInv == ConsoleInv /\ EditorTypeOK

\* The prompt and the line end before the edge of the text.
ShortLine == Len(PromptText) + Len(editor.buffer) < Width

\* The newest line shows the prompt and the buffer; while a line is discarded it is empty.
LineInv ==
    ~overflow =>
        IF editor.discard THEN LineShows(hist, PromptText, 0)
        ELSE LineShows(hist, PromptText \o editor.buffer, Len(PromptText) + Len(editor.buffer))

\* Only the first n characters of the text matter.
LEMMA LineSame ==
    ASSUME NEW h, NEW one, NEW two, NEW n \in Nat, LineShows(h, one, n),
           \A i \in 1 .. n : one[i] = two[i]
    PROVE  LineShows(h, two, n)
<1>1. \A c \in Columns : c < n => c + 1 \in 1 .. n
  BY GeometryAssumption DEF Columns
<1> QED
  BY <1>1 DEF LineShows

\* What is written goes behind the newest line, whatever page is shown.
LEMMA Wrote ==
    ASSUME ConsoleInv, NEW units, Write(units)
    PROVE  \E b : /\ HistoryOk(b) /\ hist' = HistoryWrite(b, units)
                  /\ b.column = hist.column /\ b.head = hist.head /\ b.cells = hist.cells
<1> DEFINE b == [hist EXCEPT !.view_offset = 0]
<1>1. hist' = HistoryWrite(b, units)
  BY DEF Write
<1>2. HistoryOk(hist)
  BY DEF ConsoleInv, HistoryInv
<1>3. /\ DOMAIN b = DOMAIN hist /\ b.cells = hist.cells /\ b.lengths = hist.lengths
      /\ b.head = hist.head /\ b.count = hist.count /\ b.column = hist.column
  BY <1>2 DEF HistoryOk
<1> HIDE DEF b
<1>4. HistoryOk(b)
  BY <1>2, <1>3 DEF HistoryOk
<1> QED
  BY <1>1, <1>3, <1>4

\* A text of the line editor: it does not begin with LF.
LineText(units) == Text(units) /\ (units # << >> => units[1] # LF)

\* The texts that keys write.
LEMMA LiveTexts ==
    /\ LineText(PromptText) /\ PromptText # << >> /\ LineText(<<CR, LF>>) /\ LineText(<<CR, LF>> \o PromptText)
    /\ LineText(<<BS, Blank, BS>>) /\ \A key \in Printable : LineText(<<key>>)
    /\ <<CR, LF>> \o PromptText # << >> /\ Len(PromptText) \in Nat
    /\ Len(<<CR, LF>> \o PromptText) = 2 + Len(PromptText)
    /\ (<<CR, LF>> \o PromptText)[1] = CR /\ (<<CR, LF>> \o PromptText)[2] = LF
    /\ \A i \in 1 .. Len(PromptText) : (<<CR, LF>> \o PromptText)[2 + i] = PromptText[i]
<1>1. /\ PromptText \in Seq(Chars) /\ PromptText # << >> /\ Printable \subseteq Chars
      /\ BS \in Units /\ CR \in Units /\ LF \in Units /\ Blank \in Units /\ Chars \subseteq Units
      /\ LF \notin Chars /\ BS # LF /\ CR # LF /\ Blank # LF
  BY LiveAssumption, CharsAssumption DEF Units, BS, CR, LF
<1>2. Len(PromptText) \in Nat /\ \A i \in 1 .. Len(PromptText) : PromptText[i] \in Chars
  BY <1>1
<1>3. PromptText \in Seq(Units)
  BY <1>1
<1>4. LineText(PromptText)
  BY <1>1, <1>2, <1>3 DEF LineText, Text
<1>5. LineText(<<CR, LF>>) /\ LineText(<<BS, Blank, BS>>) /\ \A key \in Printable : LineText(<<key>>)
  <2>1. LineText(<<CR, LF>>)
    BY <1>1 DEF LineText, Text
  <2>2. LineText(<<BS, Blank, BS>>)
    BY <1>1 DEF LineText, Text
  <2>3. ASSUME NEW key \in Printable PROVE LineText(<<key>>)
    BY <1>1 DEF LineText, Text
  <2> QED
    BY <2>1, <2>2, <2>3
<1> DEFINE two == <<CR, LF>>
           all == two \o PromptText
<1>6. two \in Seq(Units) /\ Len(two) = 2 /\ two[1] = CR /\ two[2] = LF
  BY <1>1
<1> HIDE DEF two
<1>7. /\ all \in Seq(Units) /\ Len(all) = Len(two) + Len(PromptText)
      /\ \A i \in 1 .. Len(two) + Len(PromptText) :
            all[i] = IF i <= Len(two) THEN two[i] ELSE PromptText[i - Len(two)]
  BY <1>3, <1>6, ConcatProperties
<1> HIDE DEF all
<1>8. Len(all) = 2 + Len(PromptText) /\ all[1] = CR /\ all[2] = LF
  BY <1>2, <1>6, <1>7
<1>9. \A i \in 1 .. Len(PromptText) : all[2 + i] = PromptText[i]
  <2> TAKE i \in 1 .. Len(PromptText)
  <2>1. 2 + i \in 1 .. 2 + Len(PromptText) /\ ~(2 + i <= 2) /\ (2 + i) - 2 = i
    BY <1>2
  <2> QED
    BY <1>6, <1>7, <2>1
<1>10. ASSUME NEW i \in 2 .. Len(all), all[i] = LF PROVE all[i - 1] = CR
  <2>2. CASE i = 2
    BY <1>8, <2>2
  <2>3. CASE i > 2
    <3>1. i - 2 \in 1 .. Len(PromptText) /\ 2 + (i - 2) = i
      BY <1>2, <1>8, <2>3
    <3> QED
      BY <1>1, <1>2, <1>9, <1>10, <3>1
  <2> QED
    BY <1>2, <1>8, <2>2, <2>3
<1>11. LineText(all) /\ all # << >>
  BY <1>1, <1>2, <1>7, <1>8, <1>10 DEF LineText, Text
<1> QED
  BY <1>1, <1>2, <1>4, <1>5, <1>8, <1>9, <1>11 DEF all, two

\* A key writes the units of its calls, or nothing when it makes none.
LEMMA TypeKeyIs ==
    ASSUME NEW key, TypeKey(key)
    PROVE  /\ ProcessKey(key)
           /\ LET units == UnitsOf(process_key(editor, key).calls)
              IN  IF units # << >> THEN Write(units) ELSE UNCHANGED consoleVars
  BY DEF TypeKey, UnitsOf

\* A key that writes nothing keeps the console as it is.
LEMMA KeptInv ==
    ASSUME ConsoleInv, UNCHANGED consoleVars
    PROVE  ConsoleInv'
<1>1. UNCHANGED <<hist, screen, status>>
  BY DEF consoleVars
<1> QED
  BY <1>1 DEF ConsoleInv, ScreenShowsHistory

\* The line after a key: the editor and what is written go together.
LEMMA TypeLine ==
    ASSUME LiveInv, NEW key \in Keys, TypeKey(key)
    PROVE  ConsoleInv' /\ (LineInv /\ ShortLine /\ ShortLine' => LineInv')
<1> DEFINE result == process_key(editor, key)
           index == editor.prompt_index
           units == UnitsOf(result.calls)
           P == Len(PromptText)
<1>1. /\ ConsoleInv /\ EditorShape(editor) /\ ~overflow
      /\ editor' = result.editor /\ overflow' = result.overflow
      /\ IF units # << >> THEN Write(units) ELSE UNCHANGED consoleVars
      /\ editor.discard => editor.buffer = << >>
  BY TypeKeyIs DEF LiveInv, EditorTypeOK, ProcessKey
<1>2. /\ editor.buffer \in Seq(Printable) /\ Len(editor.buffer) \in Nat /\ P \in Nat
      /\ Width \in Nat /\ PromptText \in Seq(Chars) /\ Printable \subseteq Chars
      /\ editor.buffer \in Seq(Chars) /\ Len(<< >>) = 0 /\ PromptText \o << >> = PromptText
      /\ editor.discard \in BOOLEAN
  BY <1>1, LiveAssumption, GeometryAssumption DEF EditorShape
<1> HIDE DEF P
<1>3. ASSUME LineText(units), units # << >> PROVE ConsoleInv' /\ Write(units)
  BY <1>1, <1>3, WriteInv DEF LineText, Continues
<1>4. ASSUME units = << >> PROVE ConsoleInv' /\ hist' = hist
  BY <1>1, <1>4, KeptInv DEF consoleVars
<1>5. CASE Leaves(result, editor.buffer, index, editor.discard, "none", << >>)
  <2>1. /\ units = << >> /\ editor'.buffer = editor.buffer /\ editor'.discard = editor.discard
        /\ overflow' = FALSE
    BY <1>1, <1>5, UnitsOfNone DEF Leaves
  <2> QED
    BY <1>1, <1>4, <2>1 DEF LineInv
<1>6. CASE editor.discard /\ Leaves(result, editor.buffer, index + 1, FALSE, key, <<CallPrompt(index + 1)>>)
  <2>1. /\ result.calls = <<CallPrompt(index + 1)>> /\ editor'.buffer = << >>
        /\ editor'.discard = FALSE /\ overflow' = FALSE
    BY <1>1, <1>6 DEF Leaves
  <2>2. units = PromptText
    BY <2>1, UnitsOfOne, ShownIs
  <2> HIDE DEF units
  <2>3. ConsoleInv' /\ Write(units) /\ PromptText \in Seq(Units)
    BY <1>3, <2>2, LiveTexts DEF LineText, Text
  <2>4. PICK b : /\ HistoryOk(b) /\ hist' = HistoryWrite(b, PromptText)
                 /\ b.column = hist.column /\ b.head = hist.head /\ b.cells = hist.cells
    BY <1>1, <2>2, <2>3, Wrote
  <2>5. ASSUME LineInv, ShortLine PROVE LineShows(hist', PromptText, P)
    <3>1. LineShows(b, PromptText, 0)
      BY <1>1, <1>6, <2>4, <2>5 DEF LineInv, LineShows
    <3>2. HistoryRun(b, PromptText)[0] = b
      BY <2>3, ShortRuns
    <3>3. /\ 0 \in Nat /\ Len(PromptText) = 0 + Len(PromptText) /\ Len(PromptText) < Width
          /\ \A i \in 1 .. Len(PromptText) : PromptText[0 + i] = PromptText[i]
      BY <1>2, <2>5 DEF ShortLine, P
    <3>4. LineShows(HistoryWrite(b, PromptText), PromptText, Len(PromptText))
      BY <2>3, <2>4, <3>1, <3>2, <3>3, PromptShows
    <3> QED
      BY <2>4, <3>4 DEF P
  <2>6. P + Len(editor'.buffer) = P /\ PromptText \o editor'.buffer = PromptText
    BY <1>2, <2>1
  <2> QED
    BY <2>1, <2>3, <2>5, <2>6 DEF LineInv, P
<1>7. CASE /\ ~editor.discard
           /\ Leaves(result, << >>, index + 1, FALSE, key,
                     <<CallAccepted(index, editor.buffer), CallPrompt(index + 1)>>)
  <2> DEFINE all == <<CR, LF>> \o PromptText
  <2>1. /\ result.calls = <<CallAccepted(index, editor.buffer), CallPrompt(index + 1)>>
        /\ editor'.buffer = << >> /\ editor'.discard = FALSE /\ overflow' = FALSE
    BY <1>1, <1>7 DEF Leaves
  <2>2. units = all
    <3> DEFINE a == CallAccepted(index, editor.buffer)
               b == CallPrompt(index + 1)
    <3>1. Shown(a) = <<CR, LF>> /\ Shown(b) = PromptText
      BY ShownIs
    <3> HIDE DEF a, b
    <3>2. UnitsOf(<<a, b>>) = Shown(a) \o Shown(b)
      BY UnitsOfTwo
    <3>3. result.calls = <<a, b>>
      BY <2>1 DEF a, b
    <3> QED
      BY <3>1, <3>2, <3>3
  <2>3. /\ LineText(all) /\ all # << >> /\ Len(all) = 2 + Len(PromptText) /\ all[1] = CR /\ all[2] = LF
        /\ \A i \in 1 .. Len(PromptText) : all[2 + i] = PromptText[i]
    BY LiveTexts
  <2> HIDE DEF units, all
  <2>4. ConsoleInv' /\ Write(units) /\ all \in Seq(Units)
    BY <1>3, <2>2, <2>3 DEF LineText, Text
  <2>5. PICK b : /\ HistoryOk(b) /\ hist' = HistoryWrite(b, all)
                 /\ b.column = hist.column /\ b.head = hist.head /\ b.cells = hist.cells
    BY <1>1, <2>2, <2>4, Wrote
  <2>6. ASSUME ShortLine PROVE LineShows(hist', PromptText, P)
    <3>1. HistoryRun(b, all)[2] = HistoryPut(HistoryPut(b, CR), LF)
      BY <1>2, <2>3, <2>4, ShortRuns DEF P
    <3>2. HistoryOk(HistoryRun(b, all)[2]) /\ LineShows(HistoryRun(b, all)[2], PromptText, 0)
      BY <2>5, <3>1, NewLineShows
    <3>3. Len(PromptText) < Width /\ 2 \in Nat
      BY <1>2, <2>6 DEF ShortLine, P
    <3>4. LineShows(HistoryWrite(b, all), PromptText, Len(PromptText))
      BY <2>3, <2>4, <3>2, <3>3, PromptShows
    <3> QED
      BY <2>5, <3>4 DEF P
  <2>7. P + Len(editor'.buffer) = P /\ PromptText \o editor'.buffer = PromptText
    BY <1>2, <2>1
  <2> QED
    BY <2>1, <2>4, <2>6, <2>7 DEF LineInv, P
<1>8. CASE /\ ~editor.discard /\ editor.buffer # << >>
           /\ Leaves(result, SubSeq(editor.buffer, 1, Len(editor.buffer) - 1), index, FALSE, "none",
                     <<CallErase>>)
  <2> DEFINE three == <<BS, Blank, BS>>
             B == editor.buffer
             C == SubSeq(B, 1, Len(B) - 1)
             n == P + Len(C)
  <2>1. /\ result.calls = <<CallErase>> /\ editor'.buffer = C
        /\ editor'.discard = FALSE /\ overflow' = FALSE
    BY <1>1, <1>8 DEF Leaves
  <2>2. units = three
    BY <2>1, UnitsOfOne, ShownIs
  <2>3. LineText(three) /\ three # << >> /\ Len(three) = 3 /\ three[1] = BS /\ three[2] = Blank /\ three[3] = BS
    BY LiveTexts
  <2>4. /\ C \in Seq(Chars) /\ Len(B) = Len(C) + 1 /\ Len(C) \in Nat /\ n \in Nat
        /\ \A i \in 1 .. Len(C) : C[i] = B[i]
    BY <1>2, <1>8
  <2> HIDE DEF units, three, C
  <2>5. ConsoleInv' /\ Write(units) /\ three \in Seq(Units)
    BY <1>3, <2>2, <2>3 DEF LineText, Text
  <2>6. PICK b : /\ HistoryOk(b) /\ hist' = HistoryWrite(b, three)
                 /\ b.column = hist.column /\ b.head = hist.head /\ b.cells = hist.cells
    BY <1>1, <2>2, <2>5, Wrote
  <2>7. ASSUME LineInv, ShortLine PROVE LineShows(hist', PromptText \o C, n)
    <3>1. LineShows(hist, PromptText \o B, n + 1) /\ n + 1 < Width
      BY <1>1, <1>2, <1>8, <2>4, <2>7 DEF LineInv, ShortLine, P
    <3>2. LineShows(b, PromptText \o B, n + 1)
      BY <2>6, <3>1 DEF LineShows
    <3>3. hist' = HistoryPut(HistoryPut(HistoryPut(b, BS), Blank), BS)
      <4>1. HistoryWrite(b, three) = HistoryRun(b, three)[3]
        BY <2>3, HistoryWriteIs
      <4>2. HistoryRun(b, three)[3] = HistoryPut(HistoryPut(HistoryPut(b, three[1]), three[2]), three[3])
        BY <2>3, <2>5, ShortRuns
      <4> QED
        BY <2>3, <2>6, <4>1, <4>2
    <3>4. LineShows(hist', PromptText \o B, n)
      <4> DEFINE text == PromptText \o B
      <4> HIDE DEF text, n
      <4>1. LineShows(b, text, n + 1) /\ n + 1 < Width /\ n \in Nat
        BY <2>4, <3>1, <3>2 DEF text
      <4>2. LineShows(HistoryPut(HistoryPut(HistoryPut(b, BS), Blank), BS), text, n)
        BY <2>6, <4>1, ErasedShows
      <4> QED
        BY <3>3, <4>2 DEF text
    <3>5. \A i \in 1 .. n : (PromptText \o B)[i] = (PromptText \o C)[i]
      BY <1>2, <2>4 DEF P
    <3> QED
      BY <2>4, <3>4, <3>5, LineSame
  <2> QED
    BY <2>1, <2>5, <2>7 DEF LineInv, P
<1>9. CASE /\ key \in Printable /\ ~editor.discard
           /\ Leaves(result, Append(editor.buffer, key), index, FALSE, "none", <<CallLive(key)>>)
  <2> DEFINE one == <<key>>
             B == editor.buffer
             C == Append(B, key)
             n == P + Len(B)
  <2>1. /\ result.calls = <<CallLive(key)>> /\ editor'.buffer = C
        /\ editor'.discard = FALSE /\ overflow' = FALSE
    BY <1>1, <1>9 DEF Leaves
  <2>2. units = one
    BY <2>1, UnitsOfOne, ShownIs
  <2>3. LineText(one) /\ one # << >> /\ Len(one) = 1 /\ one[1] = key
    BY <1>9, LiveTexts
  <2>4. /\ C \in Seq(Chars) /\ Len(C) = Len(B) + 1 /\ n \in Nat /\ key \in Chars
        /\ \A i \in 1 .. Len(B) : C[i] = B[i]
        /\ C[Len(B) + 1] = key
    BY <1>2, <1>9
  <2> HIDE DEF units, one, C
  <2>5. ConsoleInv' /\ Write(units) /\ one \in Seq(Units)
    BY <1>3, <2>2, <2>3 DEF LineText, Text
  <2>6. PICK b : /\ HistoryOk(b) /\ hist' = HistoryWrite(b, one)
                 /\ b.column = hist.column /\ b.head = hist.head /\ b.cells = hist.cells
    BY <1>1, <2>2, <2>5, Wrote
  <2>7. ASSUME LineInv, ShortLine' PROVE LineShows(hist', PromptText \o C, n + 1)
    <3> DEFINE text == PromptText \o C
    <3>1. LineShows(hist, PromptText \o B, n) /\ n + 1 < Width
      BY <1>1, <1>2, <1>9, <2>1, <2>4, <2>7 DEF LineInv, ShortLine, P
    <3>2. (\A i \in 1 .. n : (PromptText \o B)[i] = text[i]) /\ text[n + 1] = key
      BY <1>2, <2>4 DEF P
    <3> HIDE DEF text, n
    <3>3. LineShows(hist, text, n)
      BY <2>4, <3>1, <3>2, LineSame
    <3>4. LineShows(b, text, n)
      BY <2>6, <3>3 DEF LineShows
    <3>5. hist' = HistoryPut(b, key)
      <4>1. HistoryWrite(b, one) = HistoryRun(b, one)[1]
        BY <2>3, HistoryWriteIs
      <4>2. HistoryRun(b, one)[1] = HistoryPut(b, one[1])
        BY <2>3, <2>5, ShortRuns
      <4> QED
        BY <2>3, <2>6, <4>1, <4>2
    <3>6. LineShows(HistoryPut(b, text[n + 1]), text, n + 1)
      BY <2>4, <2>6, <3>1, <3>2, <3>4, TypedShows
    <3> QED
      BY <3>2, <3>5, <3>6 DEF text
  <2>8. P + Len(editor'.buffer) = n + 1
    BY <1>2, <2>1, <2>4
  <2> QED
    BY <2>1, <2>5, <2>7, <2>8 DEF LineInv, P
<1>10. CASE ~editor.discard /\ Leaves(result, << >>, index, TRUE, "none", <<CallRejected(index)>>)
  <2> DEFINE two == <<CR, LF>>
  <2>1. /\ result.calls = <<CallRejected(index)>> /\ editor'.buffer = << >>
        /\ editor'.discard = TRUE /\ overflow' = FALSE
    BY <1>1, <1>10 DEF Leaves
  <2>2. units = two
    BY <2>1, UnitsOfOne, ShownIs
  <2>3. LineText(two) /\ two # << >> /\ Len(two) = 2 /\ two[1] = CR /\ two[2] = LF
    BY LiveTexts
  <2> HIDE DEF units, two
  <2>4. ConsoleInv' /\ Write(units) /\ two \in Seq(Units)
    BY <1>3, <2>2, <2>3 DEF LineText, Text
  <2>5. PICK b : /\ HistoryOk(b) /\ hist' = HistoryWrite(b, two)
                 /\ b.column = hist.column /\ b.head = hist.head /\ b.cells = hist.cells
    BY <1>1, <2>2, <2>4, Wrote
  <2>6. HistoryWrite(b, two) = HistoryRun(b, two)[2]
    BY <2>3, HistoryWriteIs
  <2>7. HistoryRun(b, two)[2] = HistoryPut(HistoryPut(b, two[1]), two[2])
    BY <2>3, <2>4, ShortRuns
  <2>8. LineShows(hist', PromptText, 0)
    BY <2>3, <2>5, <2>6, <2>7, NewLineShows
  <2> QED
    BY <2>1, <2>4, <2>8 DEF LineInv
<1>11. CASE Overflows(result, index)
  <2>1. result.calls = << >> /\ overflow' = TRUE
    BY <1>1, <1>11 DEF Overflows
  <2>2. units = << >>
    BY <2>1, UnitsOfNone
  <2> QED
    BY <1>4, <2>1, <2>2 DEF LineInv
<1> QED
  BY <1>1, <1>5, <1>6, <1>7, <1>8, <1>9, <1>10, <1>11, KeyIs

\* Behind the first prompt.
LEMMA LiveStarts == LiveInit => LiveInv /\ (ShortLine => LineInv)
<1> SUFFICES ASSUME LiveInit PROVE LiveInv /\ (ShortLine => LineInv)
  OBVIOUS
<1> DEFINE s == SetCursor(ClearScreen, 0, 1)
           g == HistoryWrite(NewHistory, PromptText)
           t == write_content_with_wrap(s, PromptText, 0)
<1>1. /\ EditorInit /\ status \in [Columns -> Chars] /\ hist = g /\ screen = PaintStatus(t, status)
  BY StatusAssumption DEF LiveInit
<1>2. /\ EditorTypeOK /\ editor.buffer = << >> /\ editor.discard = FALSE
  BY <1>1, EditorStarts DEF EditorInv, EditorInit, NewEditor
<1>3. /\ HistoryOk(NewHistory) /\ NewHistory.column = 0 /\ NewHistory.view_offset = 0
      /\ NewHistory.count = 1 /\ NewHistory.head = 0 /\ NewHistory.column < Width
      /\ \A l \in Lines, c \in Columns : NewHistory.cells[l][c] = Blank
  BY NewHistoryInv DEF HistoryInv, NewHistory, BlankLine
<1>4. Width \in Nat \ {0} /\ Rows \in Nat \ {0} /\ HistoryLines \in Nat \ {0} /\ Blank \in Chars
  BY GeometryAssumption, CharsAssumption
<1>5. /\ ScreenOk(ClearScreen)
      /\ \A r \in ScreenRows, c \in Columns : ClearScreen.cells[r][c] = Blank
  BY <1>4 DEF ScreenOk, ClearScreen, ScreenLine, ScreenRows, Columns
<1>6. ScreenOk(s) /\ s.cells = ClearScreen.cells /\ s.column = 0 /\ s.row = 1
  BY <1>4, <1>5 DEF ScreenOk, SetCursor, ScreenRows
<1> HIDE DEF s
<1>7. Shows(NewHistory, s) /\ Used(NewHistory) = 1
  <2>1. Used(NewHistory) = 1
    BY <1>3, <1>4 DEF Used
  <2>2. \A r \in 1 .. Rows, c \in Columns : s.cells[r][c] = Blank
    BY <1>4, <1>5, <1>6 DEF ScreenRows
  <2>3. /\ \A d \in 0 .. Used(NewHistory) - 1 : d = 0
        /\ Back(0, 0) = 0 /\ 0 \in Lines /\ 1 \in 1 .. Rows
    BY <1>4, <2>1 DEF Back, Lines
  <2>4. \A r \in Used(NewHistory) + 1 .. Rows : r \in 1 .. Rows
    BY <1>4, <2>1
  <2>5. ASSUME NEW d \in 0 .. Used(NewHistory) - 1, NEW c \in Columns
        PROVE  s.cells[Used(NewHistory) - d][c] = NewHistory.cells[Back(NewHistory.head, d)][c]
    BY <1>3, <2>1, <2>2, <2>3
  <2> QED
    BY <1>6, <2>1, <2>2, <2>4, <2>5 DEF Shows
<1>8. LineText(PromptText) /\ PromptText \in Seq(Units) /\ Len(PromptText) \in Nat
  BY LiveTexts DEF LineText, Text
<1>9. /\ HistoryOk(g) /\ g.column < Width /\ g.view_offset = 0
      /\ ScreenOk(t) /\ Shows(g, t) /\ t.column = g.column
  BY <1>3, <1>6, <1>7, <1>8, TextShows DEF Begins, LineText
<1> HIDE DEF g, t
<1>10. /\ ScreenOk(screen) /\ screen.column = t.column /\ screen.row = t.row
       /\ \A c \in Columns : screen.cells[0][c] = status[c]
       /\ \A r \in 1 .. Rows, c \in Columns : screen.cells[r][c] = t.cells[r][c]
  BY <1>1, <1>9, PaintStatusIs
<1>11. Shows(g, screen)
  <2>1. Used(g) \in 1 .. Rows /\ Rows \in Nat
    BY <1>9, GeometryAssumption DEF HistoryOk, Used
  <2>2. \A d \in 0 .. Used(g) - 1 : Used(g) - d \in 1 .. Rows
    BY <2>1
  <2>3. \A r \in Used(g) + 1 .. Rows : r \in 1 .. Rows
    BY <2>1
  <2> QED
    BY <1>9, <1>10, <2>2, <2>3 DEF Shows
<1>12. ScreenShowsHistory
  BY <1>1, <1>9, <1>10, <1>11, BottomIsShown DEF ScreenShowsHistory
<1>13. HistoryInv(hist)
  <2>1. 0 \in 0 .. LastPage(g)
    BY <1>9, GeometryAssumption DEF HistoryOk, LastPage
  <2> QED
    BY <1>1, <1>9, <2>1 DEF HistoryInv
<1>14. LiveInv
  BY <1>1, <1>2, <1>10, <1>12, <1>13 DEF LiveInv, ConsoleInv
<1>15. ASSUME ShortLine PROVE LineInv
  <2>1. LineShows(NewHistory, PromptText, 0)
    <3>1. 0 \in Lines /\ \A c \in Columns : ~(c < 0)
      BY <1>4 DEF Lines, Columns
    <3> QED
      BY <1>3, <3>1 DEF LineShows
  <2>2. HistoryRun(NewHistory, PromptText)[0] = NewHistory
    BY <1>8, ShortRuns
  <2>3. /\ Len(PromptText) < Width /\ 0 \in Nat /\ Len(PromptText) = 0 + Len(PromptText)
        /\ \A i \in 1 .. Len(PromptText) : PromptText[0 + i] = PromptText[i]
    BY <1>2, <1>4, <1>8, <1>15 DEF ShortLine
  <2>4. LineShows(g, PromptText, Len(PromptText))
    BY <1>3, <1>8, <2>1, <2>2, <2>3, PromptShows DEF g
  <2>5. PromptText \o editor.buffer = PromptText /\ Len(PromptText) + Len(editor.buffer) = Len(PromptText)
    BY <1>2, <1>8
  <2> QED
    BY <1>1, <1>2, <2>4, <2>5 DEF LineInv
<1> QED
  BY <1>14, <1>15

\* Paging moves the view and not the line.
LEMMA PageLine ==
    ASSUME LiveInv, NEW up \in BOOLEAN, Page(up), UNCHANGED editorVars
    PROVE  LiveInv' /\ (LineInv => LineInv')
<1>1. PICK offset : hist' = [hist EXCEPT !.view_offset = offset]
  BY DEF Page
<1>2. HistoryOk(hist) /\ UNCHANGED <<editor, overflow, calls, keys>>
  BY DEF LiveInv, ConsoleInv, HistoryInv, editorVars
<1>3. hist'.column = hist.column /\ hist'.head = hist.head /\ hist'.cells = hist.cells
  BY <1>1, <1>2 DEF HistoryOk
<1>4. ConsoleInv' /\ EditorTypeOK'
  BY <1>2, PageInv DEF LiveInv, EditorTypeOK
<1> QED
  BY <1>2, <1>3, <1>4 DEF LiveInv, LineInv, LineShows

\* A key or a page keeps the invariant, and the line on the screen as long as it
\* is short of the edge before and after.
LEMMA LiveStep ==
    ASSUME LiveInv, [LiveNext]_liveVars
    PROVE  LiveInv' /\ (LineInv /\ ShortLine /\ ShortLine' => LineInv')
<1>1. CASE \E key \in Keys : TypeKey(key)
  BY <1>1, TypeLine, TypeKeyIs, KeyStep DEF LiveInv
<1>2. CASE \E up \in BOOLEAN : Page(up) /\ UNCHANGED editorVars
  BY <1>2, PageLine
<1>3. CASE UNCHANGED liveVars
  <2>1. UNCHANGED <<hist, screen, status, editor, overflow, calls, keys>>
    BY <1>3 DEF liveVars, consoleVars, editorVars
  <2>2. ConsoleInv'
    BY <2>1, KeptInv DEF consoleVars, LiveInv
  <2>3. EditorTypeOK'
    BY <2>1 DEF LiveInv, EditorTypeOK
  <2> QED
    BY <2>1, <2>2, <2>3 DEF LiveInv, LineInv, LineShows
<1> QED
  BY <1>1, <1>2, <1>3 DEF LiveNext

\* The editor in front of the console is the editor: what is proved of it holds there.
THEOREM LiveIsEditor == LiveSpec => EditorSpec
<1>1. LiveInit => EditorInit
  BY DEF LiveInit
<1>2. [LiveNext]_liveVars => [EditorNext]_editorVars
  <2> SUFFICES ASSUME [LiveNext]_liveVars PROVE [EditorNext]_editorVars
    OBVIOUS
  <2>1. CASE \E key \in Keys : TypeKey(key)
    BY <2>1, TypeKeyIs DEF EditorNext
  <2>2. CASE \E up \in BOOLEAN : Page(up) /\ UNCHANGED editorVars
    BY <2>2
  <2>3. CASE UNCHANGED liveVars
    BY <2>3 DEF liveVars
  <2> QED
    BY <2>1, <2>2, <2>3 DEF LiveNext
<1> QED
  BY <1>1, <1>2, PTL DEF LiveSpec, EditorSpec

\* Whatever is typed and however long the lines are, the firmware shows what the
\* program believes it shows.
THEOREM LiveScreen == LiveSpec => []ScreenShowsHistory
<1>1. LiveInv /\ [LiveNext]_liveVars => LiveInv'
  BY LiveStep
<1>2. LiveInv => ScreenShowsHistory
  BY DEF LiveInv, ConsoleInv
<1> QED
  BY <1>1, <1>2, LiveStarts, PTL DEF LiveSpec

\* As long as the prompt and the line stay short of the edge, the row of the cursor shows
\* them and nothing else, and the cursor stands behind them (erase_last and live_ascii of
\* model_repl.rs over write of console_history.rs), whatever was typed before.
THEOREM ShortLinesAreShown ==
    LiveSpec /\ []ShortLine => [](CursorMarksInput /\ RowShowsLine)
<1>1. LiveInv /\ [LiveNext]_liveVars => LiveInv'
  BY LiveStep
<1>2. LiveInv /\ [LiveNext]_liveVars /\ LineInv /\ ShortLine /\ ShortLine' => LineInv'
  BY LiveStep
<1>3. LiveInv /\ LineInv /\ ShortLine => CursorMarksInput /\ RowShowsLine
  <2> SUFFICES ASSUME LiveInv, LineInv, ShortLine,
                      ~overflow, ~editor.discard, hist.view_offset = 0
               PROVE  /\ screen.column = (Len(PromptText) + Len(editor.buffer)) % Width
                      /\ LET text == PromptText \o editor.buffer
                         IN  /\ screen.column = Len(text)
                             /\ \A c \in Columns :
                                   screen.cells[screen.row][c] = IF c < Len(text) THEN text[c + 1] ELSE Blank
    BY DEF CursorMarksInput, RowShowsLine
  <2> DEFINE text == PromptText \o editor.buffer
             n == Len(PromptText) + Len(editor.buffer)
  <2>1. /\ HistoryOk(hist) /\ ScreenShowsHistory /\ editor.buffer \in Seq(Printable)
        /\ LineShows(hist, text, n) /\ n < Width
    BY DEF LiveInv, ConsoleInv, HistoryInv, EditorTypeOK, EditorShape, LineInv, ShortLine
  <2>2. /\ Len(text) = n /\ n \in Nat /\ Width \in Nat \ {0} /\ Rows \in Nat
    BY <2>1, LiveAssumption, GeometryAssumption
  <2> HIDE DEF text, n
  <2>3. n % Width = n
    BY <2>1, <2>2
  <2>4. Shows(hist, screen) /\ screen.column = hist.column
    BY <2>1, BottomView, ShownAtBottom DEF ScreenShowsHistory
  <2>5. /\ screen.row = Used(hist) /\ Used(hist) \in 1 .. Rows
        /\ \A c \in Columns : screen.cells[Used(hist) - 0][c] = hist.cells[Back(hist.head, 0)][c]
    <3>1. Used(hist) \in 1 .. Rows
      BY <2>1, BottomView
    <3>2. 0 \in 0 .. Used(hist) - 1
      BY <2>2, <3>1
    <3> QED
      BY <2>4, <3>1, <3>2 DEF Shows
  <2>6. Back(hist.head, 0) = hist.head /\ Used(hist) - 0 = screen.row
    BY <2>1, <2>2, <2>5, GeometryAssumption DEF Back, HistoryOk, Lines
  <2>7. hist.column = n /\ \A c \in Columns : hist.cells[hist.head][c] = IF c < n THEN text[c + 1] ELSE Blank
    BY <2>1 DEF LineShows
  <2>8. \A c \in Columns : screen.cells[screen.row][c] = IF c < n THEN text[c + 1] ELSE Blank
    BY <2>5, <2>6, <2>7
  <2>9. screen.column = n /\ n = n % Width
    BY <2>3, <2>4, <2>7
  <2> QED
    BY <2>2, <2>8, <2>9 DEF text, n
<1> QED
  BY <1>1, <1>2, <1>3, LiveStarts, PTL DEF LiveSpec

\* The cursor by itself: "a visible cursor marks the live input position" (README of
\* the repository), as long as no line has reached the edge.
THEOREM CursorIsMarked == LiveSpec /\ []ShortLine => []CursorMarksInput
<1>1. LiveSpec /\ []ShortLine => [](CursorMarksInput /\ RowShowsLine)
  BY ShortLinesAreShown
<1> QED
  BY <1>1, PTL

=============================================================================
