----------------------------- MODULE ReplProofs -----------------------------
(***************************************************************************)
(* Proofs about the engine's token interface and about the conversation    *)
(* controller that calls it.                                               *)
(*                                                                         *)
(* The engine comes first, for every context, prefix limit and vocabulary, *)
(* and for a client that calls it in any order with any arguments.  The    *)
(* lemmas speak of the calls as operators, so that they hold for every     *)
(* caller.  None of the properties is inductive alone: a prefix can only   *)
(* be taken from a prompt that was evaluated from position 0 on, which     *)
(* follows from ResetAligned, and whether the budget fits depends on the   *)
(* types.                                                                  *)
(*                                                                         *)
(* Then the controller, for every template, reserve and set of questions:  *)
(* what a reply is computed from is its prompt, the cache is the committed *)
(* conversation, and controller and engine never disagree.                 *)
(***************************************************************************)
EXTENDS ModelRepl, EngineClient, SequenceTheorems, TLAPS

-----------------------------------------------------------------------------
(* The inductive invariant, of an engine e.                                 *)

\* PrefixBacked, BudgetFits and NoHoles of e.
Backed(e) ==
    e.prefix # << >> =>
        /\ e.state # "FAULTED"
        /\ Len(e.prefix) <= e.position
        /\ \A i \in 1 .. Len(e.prefix) : e.kv[i - 1] = e.prefix[i]

Budgeted(e) ==
    e.state \in {"READY", "EOS"} =>
        /\ e.emitted \in 1 .. e.reserve
        /\ e.position + (e.reserve - e.emitted) < Context

Written(e) ==
    e.state # "FAULTED" => \A i \in 0 .. e.position - 1 : e.kv[i] \in Vocab

\* A reset engine stands behind its retained prefix, or at position 0.
ResetAligned(e) == e.state = "RESET" => e.position = Len(e.prefix)

Sound(e) ==
    /\ e \in Engines
    /\ Backed(e)
    /\ Budgeted(e)
    /\ Written(e)
    /\ ResetAligned(e)

-----------------------------------------------------------------------------
(* Resets.                                                                  *)

\* InferenceEngine::build returns a sound engine.
LEMMA NewSound == Sound(NewEngine)
BY ContextAssumption
   DEF NewEngine, Sound, Engines, EngineStates, Positions, Tokens, Backed, Budgeted,
       Written, ResetAligned

\* reset_state returns a sound engine without a prefix, whatever happened.
LEMMA ResetSound ==
    ASSUME NEW e \in Engines
    PROVE  /\ Sound(reset_state(e))
           /\ reset_state(e).prefix = << >>
           /\ reset_state(e).state = "RESET"
           /\ reset_state(e).position = 0
<1> DEFINE f == reset_state(e)
<1>1. f = [state |-> "RESET", position |-> 0, reserve |-> 0, emitted |-> 0,
           selected |-> NoToken, prefix |-> << >>, kv |-> e.kv]
  BY DEF reset_state, NewEngine
<1>2. f \in Engines
  BY <1>1, ContextAssumption DEF Engines, EngineStates
<1>3. Backed(f) /\ Budgeted(f) /\ Written(f) /\ ResetAligned(f)
  BY <1>1 DEF Backed, Budgeted, Written, ResetAligned
<1> QED
  BY <1>1, <1>2, <1>3 DEF Sound

\* reset_to_prefix keeps a prefix only where the cache holds it.
LEMMA ResetToPrefixSound ==
    ASSUME NEW e, Sound(e)
    PROVE  Sound(reset_to_prefix(e))
<1>0. e \in Engines
  BY DEF Sound
<1>1. CASE ~PrefixUsable(e)
  BY <1>0, <1>1, ResetSound DEF reset_to_prefix
<1>2. CASE PrefixUsable(e)
  <2> DEFINE f == reset_to_prefix(e)
  <2>1. /\ f = [state |-> "RESET", position |-> Len(e.prefix), reserve |-> 0,
                emitted |-> 0, selected |-> NoToken, prefix |-> e.prefix, kv |-> e.kv]
    BY <1>2 DEF reset_to_prefix, reset_state, NewEngine
  <2>2. Len(e.prefix) \in 0 .. e.position /\ e.state # "FAULTED"
    BY <1>0, <1>2 DEF Sound, Backed, Engines, PrefixUsable
  <2>3. f \in Engines
    BY <1>0, <2>1, <2>2, ContextAssumption DEF Engines, EngineStates
  <2>4. Backed(f) /\ Budgeted(f) /\ ResetAligned(f)
    BY <2>1, <2>2, <1>2 DEF Backed, Budgeted, ResetAligned, Sound, PrefixUsable
  <2>5. Written(f)
    BY <1>0, <2>1, <2>2 DEF Written, Sound, Engines
  <2> QED
    BY <2>3, <2>4, <2>5 DEF Sound
<1> QED
  BY <1>1, <1>2

-----------------------------------------------------------------------------
(* Evaluation.                                                              *)

\* Evaluated writes the tokens from the position on and nothing in front of it.
LEMMA EvaluatedEffect ==
    ASSUME NEW e \in Engines, NEW tokens \in Seq(Vocab), NEW n \in 0 .. Len(tokens),
           e.position + n <= Context
    PROVE  LET f == Evaluated(e, tokens, n)
           IN  /\ f \in Engines
               /\ f = [state |-> e.state, position |-> e.position + n,
                       reserve |-> e.reserve, emitted |-> e.emitted,
                       selected |-> e.selected, prefix |-> e.prefix, kv |-> f.kv]
               /\ \A i \in 0 .. e.position - 1 : f.kv[i] = e.kv[i]
               /\ \A i \in 1 .. n : f.kv[e.position + i - 1] = tokens[i]
<1> DEFINE f == Evaluated(e, tokens, n)
           new == [i \in Positions |->
                     IF i \in e.position .. e.position + n - 1
                     THEN tokens[i - e.position + 1]
                     ELSE e.kv[i]]
<1>1. f = [state |-> e.state, position |-> e.position + n,
           reserve |-> e.reserve, emitted |-> e.emitted,
           selected |-> e.selected, prefix |-> e.prefix, kv |-> new]
  <2> DEFINE moved == [e EXCEPT !.position = e.position + n]
  <2>1. moved = [state |-> e.state, position |-> e.position + n,
                 reserve |-> e.reserve, emitted |-> e.emitted,
                 selected |-> e.selected, prefix |-> e.prefix, kv |-> e.kv]
    BY DEF Engines
  <2>2. f = [moved EXCEPT !.kv = new]
    BY Zenon DEF Evaluated
  <2> HIDE DEF moved, new
  <2> QED
    BY <2>1, <2>2
<1>2. new \in [Positions -> Tokens]
  <2> SUFFICES ASSUME NEW i \in Positions
               PROVE  new[i] \in Tokens
    OBVIOUS
  <2>1. CASE i \in e.position .. e.position + n - 1
    <3>1. i - e.position + 1 \in 1 .. Len(tokens)
      BY <2>1, ContextAssumption DEF Engines, Positions
    <3> QED
      BY <2>1, <3>1 DEF Tokens
  <2>2. CASE i \notin e.position .. e.position + n - 1
    BY <2>2 DEF Engines
  <2> QED
    BY <2>1, <2>2
<1>3. f \in Engines
  <2>1. e.position + n \in 0 .. Context
    BY ContextAssumption DEF Engines
  <2> QED
    BY <1>1, <1>2, <2>1 DEF Engines
<1>4. \A i \in 0 .. e.position - 1 : f.kv[i] = e.kv[i]
  BY <1>1, ContextAssumption DEF Engines, Positions
<1>5. \A i \in 1 .. n : f.kv[e.position + i - 1] = tokens[i]
  <2> SUFFICES ASSUME NEW i \in 1 .. n
               PROVE  new[e.position + i - 1] = tokens[i]
    BY <1>1
  <2>1. e.position + i - 1 \in Positions
    BY ContextAssumption DEF Engines, Positions
  <2>2. e.position + i - 1 \in e.position .. e.position + n - 1
    BY DEF Engines
  <2>3. (e.position + i - 1) - e.position + 1 = i
    BY DEF Engines
  <2> QED
    BY <2>1, <2>2, <2>3
<1>6. f.kv = new
  BY <1>1
<1> QED
  BY <1>1, <1>3, <1>4, <1>5, <1>6

\* A faulted engine is sound: it has no prefix and promises nothing.
LEMMA FaultSound ==
    ASSUME NEW e \in Engines
    PROVE  Sound(fault(e)) /\ fault(e).state = "FAULTED"
<1>1. fault(e) = [state |-> "FAULTED", position |-> e.position, reserve |-> e.reserve,
                  emitted |-> e.emitted, selected |-> e.selected, prefix |-> << >>,
                  kv |-> e.kv]
  <2> DEFINE faulted == [e EXCEPT !.state = "FAULTED"]
  <2>1. faulted = [state |-> "FAULTED", position |-> e.position, reserve |-> e.reserve,
                   emitted |-> e.emitted, selected |-> e.selected,
                   prefix |-> e.prefix, kv |-> e.kv]
    BY DEF Engines
  <2>2. fault(e) = [faulted EXCEPT !.prefix = << >>]
    BY Zenon DEF fault
  <2> HIDE DEF faulted
  <2> QED
    BY <2>1, <2>2
<1>2. fault(e) \in Engines
  BY <1>1 DEF Engines, EngineStates
<1> QED
  BY <1>1, <1>2 DEF Sound, Backed, Budgeted, Written, ResetAligned

\* So is one that failed in the middle of its tokens.
LEMMA EvaluationFaultsSound ==
    ASSUME NEW e \in Engines, NEW tokens \in Seq(Vocab),
           e.position + Len(tokens) <= Context,
           NEW f \in EvaluationFaults(e, tokens)
    PROVE  Sound(f) /\ f.state = "FAULTED"
<1>1. PICK n \in 0 .. Len(tokens) - 1 :
          \/ f = fault(Evaluated(e, tokens, n))
          \/ f = fault([Evaluated(e, tokens, n) EXCEPT !.kv[e.position + n] = Torn])
  BY DEF EvaluationFaults
<1>2. Evaluated(e, tokens, n) \in Engines
  BY EvaluatedEffect, ContextAssumption DEF Engines
<1>3. [Evaluated(e, tokens, n) EXCEPT !.kv[e.position + n] = Torn] \in Engines
  BY <1>2 DEF Engines, Tokens
<1> QED
  BY <1>1, <1>2, <1>3, FaultSound

\* What an evaluation must have left for its result to be published: the
\* prefix in the cache, a budget that fits, and no hole.
Publishable(e) ==
    /\ e \in Engines
    /\ Len(e.prefix) <= e.position
    /\ \A i \in 1 .. Len(e.prefix) : e.kv[i - 1] = e.prefix[i]
    /\ e.emitted \in 1 .. e.reserve
    /\ e.position + (e.reserve - e.emitted) < Context
    /\ \A i \in 0 .. e.position - 1 : e.kv[i] \in Vocab

\* publish_step either selects a token and leaves everything else alone, or
\* faults.
LEMMA PublishedSound ==
    ASSUME NEW e, Publishable(e), NEW outcome \in Published(e)
    PROVE  /\ Sound(outcome.engine)
           /\ ~outcome.ok => outcome.engine.state = "FAULTED"
           /\ outcome.ok =>
                 /\ outcome.engine.state \in {"READY", "EOS"}
                 /\ outcome.engine.position = e.position
                 /\ outcome.engine.reserve = e.reserve
                 /\ outcome.engine.emitted = e.emitted
                 /\ outcome.engine.prefix = e.prefix
                 /\ outcome.engine.kv = e.kv
<1>0. e \in Engines
  BY DEF Publishable
<1>1. CASE outcome = Refused(fault(e))
  BY <1>0, <1>1, FaultSound DEF Refused
<1>2. CASE outcome # Refused(fault(e))
  <2>1. PICK token \in Selectable :
            outcome = Ok([e EXCEPT !.selected = token,
                                   !.state = IF token = EosToken THEN "EOS" ELSE "READY"])
    BY <1>2 DEF Published
  <2> DEFINE next == IF token = EosToken THEN "EOS" ELSE "READY"
             chosen == [e EXCEPT !.selected = token]
             f == outcome.engine
  <2>2. chosen = [state |-> e.state, position |-> e.position, reserve |-> e.reserve,
                  emitted |-> e.emitted, selected |-> token, prefix |-> e.prefix,
                  kv |-> e.kv]
    BY <1>0 DEF Engines
  <2>3. f = [chosen EXCEPT !.state = next]
    BY <2>1, Zenon DEF Ok
  <2>4. next \in {"READY", "EOS"}
    OBVIOUS
  <2> HIDE DEF chosen, next
  <2>5. f = [state |-> next, position |-> e.position, reserve |-> e.reserve,
             emitted |-> e.emitted, selected |-> token, prefix |-> e.prefix,
             kv |-> e.kv]
    BY <2>2, <2>3
  <2>6. f \in Engines
    BY <1>0, <2>4, <2>5, VocabAssumption DEF Engines, EngineStates
  <2>7. Backed(f) /\ Budgeted(f) /\ Written(f) /\ ResetAligned(f)
    BY <2>4, <2>5 DEF Publishable, Backed, Budgeted, Written, ResetAligned
  <2>8. Sound(f)
    BY <2>6, <2>7 DEF Sound
  <2> HIDE DEF f
  <2>9. outcome.ok
    BY <2>1, Zenon DEF Ok
  <2> QED
    BY <2>4, <2>5, <2>8, <2>9 DEF f
<1> QED
  BY <1>1, <1>2

\* What a call that evaluates these tokens from the engine's position on does:
\* it leaves a sound engine, and if it succeeds the cache holds the tokens behind
\* what it held before.  Calls that are admitted fail by a fault only.
Consumes(e, tokens, reserve, emitted, admitted, outcome) ==
    /\ Sound(outcome.engine)
    /\ ~outcome.ok => outcome.engine.state = "FAULTED" \/ (outcome.engine = e /\ ~admitted)
    /\ outcome.ok =>
          /\ tokens \in Seq(Vocab)
          /\ outcome.engine.state \in {"READY", "EOS"}
          /\ outcome.engine.position = e.position + Len(tokens)
          /\ outcome.engine.reserve = reserve
          /\ outcome.engine.emitted = emitted
          /\ outcome.engine.prefix = e.prefix
          /\ \A i \in 0 .. e.position - 1 : outcome.engine.kv[i] = e.kv[i]
          /\ \A i \in 1 .. Len(tokens) :
                outcome.engine.kv[e.position + i - 1] = tokens[i]

\* What prefill_inner asks of its arguments, and decode_inner of the engine.
PrefillAdmits(e, tokens, reserve, append) ==
    /\ reserve \in 1 .. Context
    /\ tokens # << >>
    /\ ~append => Len(tokens) < Context
    /\ e.position + Len(tokens) + reserve <= Context
    /\ \A i \in 1 .. Len(tokens) : tokens[i] \in Vocab

DecodeAdmits(e, token, greedy) ==
    /\ e.state \notin {"FAULTED", "RESET"}
    /\ greedy => e.state # "EOS" /\ token = e.selected
    /\ token \in Vocab
    /\ e.emitted < e.reserve
    /\ e.position < Context

\* The engine that has evaluated these tokens and counts its predictions.
Counted(e, tokens, count) == [Evaluated(e, tokens, Len(tokens)) EXCEPT !.emitted = count]

Completes(e, tokens, count) ==
    LET g == Counted(e, tokens, count)
    IN  /\ Publishable(g)
        /\ g.position = e.position + Len(tokens)
        /\ g.prefix = e.prefix /\ g.reserve = e.reserve /\ g.emitted = count
        /\ \A i \in 0 .. e.position - 1 : g.kv[i] = e.kv[i]
        /\ \A i \in 1 .. Len(tokens) : g.kv[e.position + i - 1] = tokens[i]

\* It can be published, if the predictions still allowed fit behind the tokens.
LEMMA EvaluatedPublishable ==
    ASSUME NEW e, e \in Engines, Backed(e), Written(e), e.state # "FAULTED",
           NEW tokens \in Seq(Vocab), NEW count \in 1 .. e.reserve,
           e.position + Len(tokens) + (e.reserve - count) < Context
    PROVE  Completes(e, tokens, count)
<1> DEFINE f == Evaluated(e, tokens, Len(tokens))
           g == Counted(e, tokens, count)
           n == Len(tokens)
<1>0. n \in Nat /\ e.position \in Nat /\ e.reserve \in 0 .. Context /\ Context \in Nat
  BY ContextAssumption DEF Engines
<1>1. n \in 0 .. Len(tokens) /\ e.position + n <= Context
  BY <1>0
<1>2. /\ f \in Engines
      /\ f = [state |-> e.state, position |-> e.position + n,
              reserve |-> e.reserve, emitted |-> e.emitted,
              selected |-> e.selected, prefix |-> e.prefix, kv |-> f.kv]
      /\ \A i \in 0 .. e.position - 1 : f.kv[i] = e.kv[i]
      /\ \A i \in 1 .. n : f.kv[e.position + i - 1] = tokens[i]
  BY <1>1, EvaluatedEffect
<1>a. g = [f EXCEPT !.emitted = count]
  BY Zenon DEF Counted
<1> HIDE DEF f, g, n
<1>3. g = [state |-> e.state, position |-> e.position + n,
           reserve |-> e.reserve, emitted |-> count,
           selected |-> e.selected, prefix |-> e.prefix, kv |-> f.kv]
  BY <1>a, <1>2
<1>4. g \in Engines
  <2>1. e.position + n \in 0 .. Context /\ count \in 0 .. Context
    BY <1>0, <1>1 DEF n
  <2>2. f.kv \in [Positions -> Tokens]
    BY <1>2 DEF Engines
  <2> QED
    BY <1>3, <2>1, <2>2 DEF Engines
<1>5. Len(g.prefix) <= g.position /\ g.prefix = e.prefix
  <2>1. Len(e.prefix) <= e.position
    BY <1>0 DEF Backed, Engines
  <2> QED
    BY <1>0, <1>3, <2>1 DEF Engines
<1>6. \A i \in 1 .. Len(g.prefix) : g.kv[i - 1] = g.prefix[i]
  <2> SUFFICES ASSUME NEW i \in 1 .. Len(e.prefix)
               PROVE  f.kv[i - 1] = e.prefix[i]
    BY <1>3
  <2>1. e.prefix # << >> /\ Len(e.prefix) \in Nat
    BY DEF Engines
  <2>2. i - 1 \in 0 .. e.position - 1
    BY <1>0, <2>1 DEF Backed
  <2> QED
    BY <1>2, <2>1, <2>2 DEF Backed
<1>7. g.position + (g.reserve - g.emitted) < Context /\ g.emitted \in 1 .. g.reserve
  BY <1>0, <1>3 DEF n
<1>8. \A i \in 0 .. g.position - 1 : g.kv[i] \in Vocab
  <2> SUFFICES ASSUME NEW i \in 0 .. (e.position + n) - 1
               PROVE  f.kv[i] \in Vocab
    BY <1>3
  <2>1. CASE i \in 0 .. e.position - 1
    BY <1>2, <2>1 DEF Written
  <2>2. CASE i \notin 0 .. e.position - 1
    <3> DEFINE k == i - e.position + 1
    <3>1. k \in 1 .. n /\ i = e.position + k - 1
      BY <1>0, <2>2 DEF n
    <3>2. tokens[k] \in Vocab
      BY <3>1 DEF n
    <3> QED
      BY <1>2, <3>1, <3>2
  <2> QED
    BY <2>1, <2>2
<1> QED
  BY <1>2, <1>3, <1>4, <1>5, <1>6, <1>7, <1>8 DEF Completes, Publishable, f, g, n

-----------------------------------------------------------------------------
(* The calls.                                                               *)

\* prefill_inner, whose callers have excluded a faulted engine.
LEMMA PrefillInnerSound ==
    ASSUME NEW e, Sound(e), e.state # "FAULTED", NEW S, NEW tokens \in Seq(S),
           NEW reserve \in Nat, NEW append \in BOOLEAN,
           NEW outcome \in prefill_inner(e, tokens, reserve, append)
    PROVE  Consumes(e, tokens, reserve, 1, PrefillAdmits(e, tokens, reserve, append), outcome)
<1> DEFINE begun == [e EXCEPT !.reserve = reserve, !.emitted = 0]
           done  == [Evaluated(begun, tokens, Len(tokens)) EXCEPT !.emitted = 1]
           refusal == \/ reserve \notin 1 .. Context
                      \/ tokens = << >>
                      \/ ~append /\ Len(tokens) >= Context
                      \/ e.position + Len(tokens) + reserve > Context
                      \/ \E i \in 1 .. Len(tokens) : tokens[i] \notin Vocab
<1>0. e \in Engines
  BY DEF Sound
<1>1. CASE refusal
  <2>1. outcome = Refused(e)
    BY <1>1 DEF prefill_inner
  <2>2. ~PrefillAdmits(e, tokens, reserve, append)
    BY <1>0, <1>1, ContextAssumption DEF PrefillAdmits, Engines
  <2> QED
    BY <2>1, <2>2 DEF Refused, Consumes
<1>2. CASE ~refusal
  <2>1. outcome \in {Refused(f) : f \in EvaluationFaults(begun, tokens)}
                   \cup Published(done)
    BY <1>2, Zenon DEF prefill_inner
  <2>2. /\ reserve \in 1 .. Context
        /\ e.position + Len(tokens) + reserve <= Context
        /\ tokens \in Seq(Vocab)
    <3>1. \A i \in 1 .. Len(tokens) : tokens[i] \in Vocab
      BY <1>2
    <3>2. tokens \in Seq(Vocab)
      BY <3>1
    <3>3. ~(e.position + Len(tokens) + reserve > Context)
      BY <1>2
    <3>4. e.position + Len(tokens) + reserve \in Nat /\ Context \in Nat
      BY <1>0, ContextAssumption DEF Engines
    <3> QED
      BY <1>2, <3>2, <3>3, <3>4
  <2>3. begun = [state |-> e.state, position |-> e.position, reserve |-> reserve,
                 emitted |-> 0, selected |-> e.selected, prefix |-> e.prefix,
                 kv |-> e.kv]
    <3> DEFINE kept == [e EXCEPT !.reserve = reserve]
    <3>1. kept = [state |-> e.state, position |-> e.position, reserve |-> reserve,
                  emitted |-> e.emitted, selected |-> e.selected,
                  prefix |-> e.prefix, kv |-> e.kv]
      BY <1>0 DEF Engines
    <3>2. begun = [kept EXCEPT !.emitted = 0]
      BY Zenon
    <3> HIDE DEF kept, begun
    <3> QED
      BY <3>1, <3>2
  <2> HIDE DEF begun
  <2>4. begun \in Engines
    BY <1>0, <2>2, <2>3, ContextAssumption DEF Engines
  <2>5. Backed(begun) /\ Written(begun) /\ begun.state # "FAULTED"
    BY <2>3 DEF Sound, Backed, Written
  <2>6. CASE outcome \in {Refused(f) : f \in EvaluationFaults(begun, tokens)}
    <3>1. PICK f \in EvaluationFaults(begun, tokens) : outcome = Refused(f)
      BY <2>6
    <3>2. begun.position + Len(tokens) <= Context
      BY <1>0, <2>2, <2>3, ContextAssumption DEF Engines
    <3>3. Sound(f) /\ f.state = "FAULTED"
      BY <2>2, <2>4, <3>2, EvaluationFaultsSound
    <3> QED
      BY <3>1, <3>3 DEF Refused, Consumes
  <2>7. CASE outcome \in Published(done)
    <3>1. /\ 1 \in 1 .. begun.reserve
          /\ begun.position + Len(tokens) + (begun.reserve - 1) < Context
      BY <1>0, <2>2, <2>3, ContextAssumption DEF Engines
    <3>2. /\ Publishable(done)
          /\ done.position = begun.position + Len(tokens)
          /\ done.prefix = begun.prefix /\ done.reserve = begun.reserve /\ done.emitted = 1
          /\ \A i \in 0 .. begun.position - 1 : done.kv[i] = begun.kv[i]
          /\ \A i \in 1 .. Len(tokens) : done.kv[begun.position + i - 1] = tokens[i]
      <4>1. done = Counted(begun, tokens, 1)
        BY Zenon DEF Counted
      <4> HIDE DEF done
      <4>2. Completes(begun, tokens, 1)
        BY <2>2, <2>4, <2>5, <3>1, EvaluatedPublishable
      <4> QED
        BY <4>1, <4>2 DEF Completes
    <3>3. /\ begun.position = e.position /\ begun.prefix = e.prefix
          /\ begun.reserve = reserve /\ begun.kv = e.kv
      BY <2>3
    <3> HIDE DEF done
    <3> QED
      BY <2>2, <2>7, <3>2, <3>3, PublishedSound DEF Consumes
  <2> QED
    BY <2>1, <2>6, <2>7
<1> QED
  BY <1>1, <1>2

\* prefill, which a reset engine only does not refuse.
LEMMA PrefillSound ==
    ASSUME NEW e, Sound(e), NEW S, NEW tokens \in Seq(S), NEW reserve \in Nat,
           NEW outcome \in prefill(e, tokens, reserve)
    PROVE  /\ Consumes(e, tokens, reserve, 1,
                       e.state = "RESET" /\ PrefillAdmits(e, tokens, reserve, FALSE), outcome)
           /\ outcome.ok => e.state = "RESET"
<1>1. CASE e.state # "RESET"
  <2>1. outcome = Refused(e)
    BY <1>1 DEF prefill
  <2>2. ~outcome.ok /\ outcome.engine = e
    BY <2>1 DEF Refused
  <2> QED
    BY <1>1, <2>2 DEF Consumes
<1>2. CASE e.state = "RESET"
  <2>1. outcome \in prefill_inner(e, tokens, reserve, FALSE)
    BY <1>2 DEF prefill
  <2>2. Consumes(e, tokens, reserve, 1, PrefillAdmits(e, tokens, reserve, FALSE), outcome)
    BY <1>2, <2>1, PrefillInnerSound
  <2> QED
    BY <1>2, <2>2 DEF Consumes
<1> QED
  BY <1>1, <1>2

\* append_prefill, which continues a conversation.
LEMMA AppendPrefillSound ==
    ASSUME NEW e, Sound(e), NEW S, NEW tokens \in Seq(S), NEW reserve \in Nat,
           NEW outcome \in append_prefill(e, tokens, reserve)
    PROVE  Consumes(e, tokens, reserve, 1,
                    e.state \in {"READY", "EOS"} /\ PrefillAdmits(e, tokens, reserve, TRUE), outcome)
<1>1. CASE e.state \notin {"READY", "EOS"}
  <2>1. outcome = Refused(e)
    BY <1>1 DEF append_prefill
  <2>2. ~outcome.ok /\ outcome.engine = e
    BY <2>1 DEF Refused
  <2> QED
    BY <1>1, <2>2 DEF Consumes
<1>2. CASE e.state \in {"READY", "EOS"}
  <2>1. outcome \in prefill_inner(e, tokens, reserve, TRUE)
    BY <1>2 DEF append_prefill
  <2>2. Consumes(e, tokens, reserve, 1, PrefillAdmits(e, tokens, reserve, TRUE), outcome)
    BY <1>2, <2>1, PrefillInnerSound
  <2> QED
    BY <1>2, <2>2 DEF Consumes
<1> QED
  BY <1>1, <1>2

\* prefill_with_prefix: a prefix is retained only with the prompt that was
\* evaluated from position 0 on, and continued only in front of its prompt.
LEMMA PrefillWithPrefixSound ==
    ASSUME NEW e, Sound(e), NEW S, NEW tokens \in Seq(S), NEW count \in Nat,
           NEW reserve \in Nat,
           NEW outcome \in prefill_with_prefix(e, tokens, count, reserve)
    PROVE  Sound(outcome.engine)
<1>0. e \in Engines
  BY DEF Sound
<1>1. CASE count = 0 \/ count >= Len(tokens) \/ count > MaxTokens
  <2>1. outcome = Refused(reset_state(e))
    BY <1>1, Zenon DEF prefill_with_prefix
  <2> QED
    BY <1>0, <2>1, ResetSound DEF Refused
<1>2. CASE /\ ~(count = 0 \/ count >= Len(tokens) \/ count > MaxTokens)
           /\ e.prefix # << >> /\ PrefixMatches(e, tokens, count)
  <2>0. e.state = "RESET"
    BY <1>2 DEF PrefixMatches
  <2>1. outcome \in prefill_inner(e, SubSeq(tokens, count + 1, Len(tokens)), reserve, TRUE)
    BY <1>2, <2>0, Zenon DEF prefill_with_prefix
  <2>2. SubSeq(tokens, count + 1, Len(tokens)) \in Seq(S)
    BY <1>2
  <2>3. e.state # "FAULTED"
    BY <2>0
  <2> QED
    BY <2>1, <2>2, <2>3, PrefillInnerSound DEF Consumes
<1>3. CASE /\ ~(count = 0 \/ count >= Len(tokens) \/ count > MaxTokens)
           /\ e.prefix # << >> /\ ~PrefixMatches(e, tokens, count)
           /\ e.state # "RESET"
  <2>1. outcome = Refused(reset_state(e))
    BY <1>3 DEF prefill_with_prefix
  <2> QED
    BY <1>0, <2>1, ResetSound DEF Refused
<1>4. CASE /\ ~(count = 0 \/ count >= Len(tokens) \/ count > MaxTokens)
           /\ ~(e.prefix # << >> /\ PrefixMatches(e, tokens, count))
           /\ ~(e.prefix # << >> /\ e.state # "RESET")
  <2> DEFINE start == IF e.prefix # << >> THEN reset_state(e) ELSE e
             prefix == SubSeq(tokens, 1, count)
  <2>1. PICK called \in prefill(start, tokens, reserve) :
            outcome = IF called.ok
                      THEN Ok([called.engine EXCEPT !.prefix = prefix])
                      ELSE called
    BY <1>4, Zenon DEF prefill_with_prefix
  <2>2. Sound(start) /\ start.prefix = << >>
    BY <1>0, ResetSound
  <2> HIDE DEF start
  <2> DEFINE admitted == start.state = "RESET" /\ PrefillAdmits(start, tokens, reserve, FALSE)
  <2>3. Consumes(start, tokens, reserve, 1, admitted, called) /\ (called.ok => start.state = "RESET")
    BY <2>2, PrefillSound
  <2>4. CASE ~called.ok
    BY <2>1, <2>3, <2>4 DEF Consumes
  <2>5. CASE called.ok
    <3> DEFINE f == called.engine
               g == [f EXCEPT !.prefix = prefix]
    <3>1. /\ f \in Engines /\ Sound(f)
          /\ tokens \in Seq(Vocab)
          /\ f.state \in {"READY", "EOS"}
          /\ f.position = Len(tokens)
          /\ \A i \in 1 .. Len(tokens) : f.kv[i - 1] = tokens[i]
      <4>1. start.position = 0
        BY <2>2, <2>3, <2>5 DEF Sound, ResetAligned
      <4>2. /\ f \in Engines /\ Sound(f)
            /\ tokens \in Seq(Vocab)
            /\ f.state \in {"READY", "EOS"}
            /\ f.position = 0 + Len(tokens)
            /\ \A i \in 1 .. Len(tokens) : f.kv[0 + i - 1] = tokens[i]
        BY <2>3, <2>5, <4>1 DEF Consumes, Sound
      <4> HIDE DEF f
      <4> QED
        BY <4>2
    <3>2. count \in 1 .. Len(tokens) - 1
      BY <1>4
    <3>3. /\ prefix \in Seq(Vocab) /\ Len(prefix) = count
          /\ \A i \in 1 .. count : prefix[i] = tokens[i]
      BY <3>1, <3>2
    <3>4. outcome.engine = g
      BY <2>1, <2>5, Zenon DEF Ok
    <3> HIDE DEF f, prefix
    <3>5. g = [state |-> f.state, position |-> f.position, reserve |-> f.reserve,
               emitted |-> f.emitted, selected |-> f.selected, prefix |-> prefix,
               kv |-> f.kv]
      BY <3>1 DEF Engines
    <3> HIDE DEF g
    <3>6. g \in Engines
      BY <3>1, <3>3, <3>5 DEF Engines
    <3>7. Backed(g)
      BY <3>1, <3>2, <3>3, <3>5 DEF Backed
    <3>8. Budgeted(g) /\ Written(g) /\ ResetAligned(g)
      BY <3>1, <3>5 DEF Sound, Budgeted, Written, ResetAligned
    <3> QED
      BY <3>4, <3>6, <3>7, <3>8 DEF Sound
  <2> QED
    BY <2>4, <2>5
<1> QED
  BY <1>1, <1>2, <1>3, <1>4

LEMMA PrefixSet ==
    ASSUME NEW f \in Engines, NEW prefix
    PROVE  [f EXCEPT !.prefix = prefix] =
              [state |-> f.state, position |-> f.position, reserve |-> f.reserve,
               emitted |-> f.emitted, selected |-> f.selected, prefix |-> prefix,
               kv |-> f.kv]
  BY DEF Engines

\* The first prompt of a conversation, of a reset engine: it fails by a fault only,
\* and if it succeeds the cache holds the prompt and nothing else in front of the
\* position, whether the prefix was retained or evaluated.
Begins(tokens, count, reserve, outcome) ==
    /\ Sound(outcome.engine)
    /\ ~outcome.ok => outcome.engine.state = "FAULTED"
    /\ outcome.ok =>
          /\ outcome.engine.state \in {"READY", "EOS"}
          /\ outcome.engine.position = Len(tokens)
          /\ outcome.engine.reserve = reserve
          /\ outcome.engine.emitted = 1
          /\ outcome.engine.prefix = SubSeq(tokens, 1, count)
          /\ \A i \in 1 .. Len(tokens) : outcome.engine.kv[i - 1] = tokens[i]

LEMMA PrefillWithPrefixBegins ==
    ASSUME NEW e, Sound(e), e.state = "RESET", NEW tokens \in Seq(Vocab),
           NEW count \in 1 .. Len(tokens) - 1, count <= MaxTokens,
           e.prefix \in {<< >>, SubSeq(tokens, 1, count)},
           NEW reserve \in 1 .. Context, Len(tokens) + reserve <= Context,
           NEW outcome \in prefill_with_prefix(e, tokens, count, reserve)
    PROVE  Begins(tokens, count, reserve, outcome)
<1> DEFINE prefix == SubSeq(tokens, 1, count)
<1>0. /\ e \in Engines /\ Context \in Nat /\ MaxTokens \in Nat
      /\ ~(count = 0 \/ count >= Len(tokens) \/ count > MaxTokens)
  BY ContextAssumption, MaxTokensAssumption DEF Sound
<1>1. /\ prefix \in Seq(Vocab) /\ Len(prefix) = count /\ prefix # << >>
      /\ \A i \in 1 .. count : prefix[i] = tokens[i]
  OBVIOUS
<1>2. Sound(outcome.engine)
  BY PrefillWithPrefixSound
<1>3. CASE e.prefix # << >>
  <2> DEFINE rest == SubSeq(tokens, count + 1, Len(tokens))
             admitted == PrefillAdmits(e, rest, reserve, TRUE)
  <2>1. e.prefix = prefix /\ e.position = count
    BY <1>1, <1>3 DEF Sound, ResetAligned
  <2>2. PrefixMatches(e, tokens, count)
    BY <1>1, <2>1 DEF PrefixMatches
  <2>3. outcome \in prefill_inner(e, rest, reserve, TRUE)
    BY <1>0, <1>3, <2>2, Zenon DEF prefill_with_prefix
  <2>4. /\ rest \in Seq(Vocab) /\ Len(rest) = Len(tokens) - count /\ rest # << >>
        /\ \A i \in 1 .. Len(rest) : rest[i] = tokens[count + i]
    <3>1. rest \in Seq(Vocab) /\ Len(rest) = Len(tokens) - count
      OBVIOUS
    <3>2. \A i \in 1 .. Len(tokens) - count : rest[i] = tokens[count + i]
      OBVIOUS
    <3> HIDE DEF rest
    <3> QED
      BY <3>1, <3>2
  <2> HIDE DEF prefix, rest
  <2>5. admitted
    BY <1>0, <2>1, <2>4 DEF PrefillAdmits
  <2> HIDE DEF admitted
  <2>6. Consumes(e, rest, reserve, 1, admitted, outcome)
    <3>1. e.state # "FAULTED" /\ reserve \in Nat
      BY <1>0
    <3> QED
      BY <2>3, <2>4, <3>1, PrefillInnerSound DEF admitted
  <2>7. CASE ~outcome.ok
    BY <1>2, <2>5, <2>6, <2>7 DEF Consumes, Begins
  <2>8. CASE outcome.ok
    <3> DEFINE f == outcome.engine
    <3>1. /\ f.state \in {"READY", "EOS"} /\ f.position = e.position + Len(rest)
          /\ f.reserve = reserve /\ f.emitted = 1 /\ f.prefix = e.prefix
          /\ \A i \in 0 .. e.position - 1 : f.kv[i] = e.kv[i]
          /\ \A i \in 1 .. Len(rest) : f.kv[e.position + i - 1] = rest[i]
      BY <2>6, <2>8 DEF Consumes
    <3> HIDE DEF f
    <3>2. ASSUME NEW i \in 1 .. Len(tokens) PROVE f.kv[i - 1] = tokens[i]
      <4>1. CASE i <= count
        <5>1. e.kv[i - 1] = e.prefix[i]
          BY <1>1, <1>3, <2>1, <4>1 DEF Sound, Backed
        <5> QED
          BY <1>1, <2>1, <3>1, <4>1, <5>1
      <4>2. CASE i > count
        <5>1. i - count \in 1 .. Len(rest) /\ count + (i - count) = i
          BY <2>4, <4>2
        <5>2. f.kv[e.position + (i - count) - 1] = rest[i - count]
          BY <3>1, <5>1
        <5>3. rest[i - count] = tokens[count + (i - count)]
          BY <2>4, <5>1
        <5>4. e.position + (i - count) - 1 = i - 1
          BY <2>1
        <5> QED
          BY <5>1, <5>2, <5>3, <5>4
      <4> QED
        BY <4>1, <4>2
    <3>3. f.position = Len(tokens) /\ f.prefix = SubSeq(tokens, 1, count)
      BY <2>1, <2>4, <3>1 DEF prefix
    <3> QED
      BY <1>2, <2>8, <3>1, <3>2, <3>3 DEF Begins, f
  <2> QED
    BY <2>7, <2>8
<1>4. CASE e.prefix = << >>
  <2>1. PICK called \in prefill(e, tokens, reserve) :
            outcome = IF called.ok
                      THEN Ok([called.engine EXCEPT !.prefix = prefix])
                      ELSE called
    BY <1>0, <1>4, Zenon DEF prefill_with_prefix
  <2> DEFINE admitted == e.state = "RESET" /\ PrefillAdmits(e, tokens, reserve, FALSE)
  <2>2. e.position = 0
    BY <1>4 DEF Sound, ResetAligned
  <2>3. admitted
    BY <1>0, <2>2 DEF PrefillAdmits
  <2> HIDE DEF admitted
  <2>4. Consumes(e, tokens, reserve, 1, admitted, called)
    <3>1. reserve \in Nat
      BY <1>0
    <3> QED
      BY <3>1, PrefillSound DEF admitted
  <2>5. CASE ~called.ok
    BY <1>2, <2>1, <2>3, <2>4, <2>5 DEF Consumes, Begins
  <2>6. CASE called.ok
    <3> DEFINE f == called.engine
               g == [f EXCEPT !.prefix = prefix]
    <3>1. /\ f \in Engines /\ f.state \in {"READY", "EOS"}
          /\ f.position = 0 + Len(tokens) /\ f.reserve = reserve /\ f.emitted = 1
          /\ \A i \in 1 .. Len(tokens) : f.kv[0 + i - 1] = tokens[i]
      BY <2>2, <2>4, <2>6 DEF Consumes, Sound
    <3>2. outcome.engine = g /\ outcome.ok
      BY <2>1, <2>6, Zenon DEF Ok
    <3> HIDE DEF f, prefix
    <3>3. g = [state |-> f.state, position |-> f.position, reserve |-> f.reserve,
               emitted |-> f.emitted, selected |-> f.selected, prefix |-> prefix,
               kv |-> f.kv]
      BY <3>1, PrefixSet, Zenon
    <3> HIDE DEF g
    <3>4. /\ g.state \in {"READY", "EOS"} /\ g.position = Len(tokens)
          /\ g.reserve = reserve /\ g.emitted = 1 /\ g.prefix = prefix
          /\ \A i \in 1 .. Len(tokens) : g.kv[i - 1] = tokens[i]
      BY <3>1, <3>3
    <3> QED
      BY <1>2, <3>2, <3>4 DEF Begins, prefix
  <2> QED
    BY <2>5, <2>6
<1> QED
  BY <1>3, <1>4

\* decode and decode_selected: one token more, paid for by the budget.
LEMMA DecodeSound ==
    ASSUME NEW e, Sound(e), NEW token, NEW greedy \in BOOLEAN,
           NEW outcome \in decode_inner(e, token, greedy)
    PROVE  Consumes(e, <<token>>, e.reserve, e.emitted + 1, DecodeAdmits(e, token, greedy), outcome)
<1> DEFINE tokens == <<token>>
           done == [Evaluated(e, tokens, 1) EXCEPT !.emitted = e.emitted + 1]
           refusal == \/ e.state \in {"FAULTED", "RESET"}
                      \/ greedy /\ (e.state = "EOS" \/ token # e.selected)
                      \/ token \notin Vocab
                      \/ e.emitted >= e.reserve
                      \/ e.position >= Context
<1>0. e \in Engines
  BY DEF Sound
<1>1. CASE refusal
  <2>1. outcome = Refused(e)
    BY <1>1 DEF decode_inner
  <2>2. ~DecodeAdmits(e, token, greedy)
    BY <1>0, <1>1, ContextAssumption DEF DecodeAdmits, Engines
  <2> QED
    BY <2>1, <2>2 DEF Refused, Consumes
<1>2. CASE ~refusal
  <2>1. outcome \in {Refused(f) : f \in EvaluationFaults(e, tokens)} \cup Published(done)
    BY <1>2, Zenon DEF decode_inner
  <2>2. token \in Vocab /\ tokens \in Seq(Vocab) /\ Len(tokens) = 1
    BY <1>2
  <2>3. e.state \in {"READY", "EOS"} /\ e.state # "FAULTED"
    BY <1>0, <1>2 DEF Engines, EngineStates
  <2>4. /\ e.emitted + 1 \in 1 .. e.reserve
        /\ e.position + 1 + (e.reserve - (e.emitted + 1)) < Context
        /\ e.position + 1 <= Context
    BY <1>0, <1>2, <2>3, ContextAssumption DEF Sound, Budgeted, Engines
  <2>5. CASE outcome \in {Refused(f) : f \in EvaluationFaults(e, tokens)}
    <3>1. PICK f \in EvaluationFaults(e, tokens) : outcome = Refused(f)
      BY <2>5
    <3>2. e.position + Len(tokens) <= Context
      BY <2>2, <2>4
    <3> HIDE DEF tokens
    <3>3. Sound(f) /\ f.state = "FAULTED"
      BY <1>0, <2>2, <3>2, EvaluationFaultsSound
    <3> QED
      BY <3>1, <3>3 DEF Refused, Consumes
  <2>6. CASE outcome \in Published(done)
    <3> HIDE DEF tokens, done
    <3>1. /\ Publishable(done)
          /\ done.position = e.position + Len(tokens)
          /\ done.prefix = e.prefix /\ done.reserve = e.reserve /\ done.emitted = e.emitted + 1
          /\ \A i \in 0 .. e.position - 1 : done.kv[i] = e.kv[i]
          /\ \A i \in 1 .. Len(tokens) : done.kv[e.position + i - 1] = tokens[i]
      <4>0. done = Counted(e, tokens, e.emitted + 1)
        BY <2>2, Zenon DEF Counted, done
      <4>1. e.position + Len(tokens) + (e.reserve - (e.emitted + 1)) < Context
        BY <2>2, <2>4
      <4>2. Backed(e) /\ Written(e)
        BY DEF Sound
      <4> DEFINE count == e.emitted + 1
      <4>3. count \in 1 .. e.reserve /\ e.position + Len(tokens) + (e.reserve - count) < Context
        BY <2>4, <4>1
      <4> HIDE DEF count
      <4>4. Completes(e, tokens, count)
        BY <1>0, <2>2, <2>3, <4>2, <4>3, EvaluatedPublishable
      <4>5. count = e.emitted + 1 /\ done = Counted(e, tokens, count)
        BY <4>0 DEF count
      <4> QED
        BY <4>4, <4>5 DEF Completes
    <3>2. Consumes(e, tokens, e.reserve, e.emitted + 1, DecodeAdmits(e, token, greedy), outcome)
      BY <2>2, <2>6, <3>1, PublishedSound DEF Consumes
    <3> QED
      BY <3>2 DEF tokens
  <2> QED
    BY <2>1, <2>5, <2>6
<1> QED
  BY <1>1, <1>2
-----------------------------------------------------------------------------
(* The client.                                                              *)

\* Every call leaves a sound engine, whatever its arguments and its outcome.
LEMMA NextSound == Sound(engine) /\ [ClientNext]_engine => Sound(engine)'
<1> SUFFICES ASSUME Sound(engine), [ClientNext]_engine
             PROVE  Sound(engine')
  BY DEF Sound, Backed, Budgeted, Written, ResetAligned
<1>0. /\ engine \in Engines
      /\ \A prompt \in Prompts : prompt \in Seq(InputTokens)
      /\ \A reserve \in Reserves : reserve \in Nat
      /\ \A count \in Prefixes : count \in Nat
  BY ArgumentsAssumption DEF Sound
<1>1. ASSUME NEW prompt \in Prompts, NEW reserve \in Reserves, Prefill(prompt, reserve)
      PROVE  Sound(engine')
  <2>1. PICK outcome \in prefill(engine, prompt, reserve) : engine' = outcome.engine
    BY <1>1 DEF Prefill
  <2>2. Consumes(engine, prompt, reserve, 1,
                 engine.state = "RESET" /\ PrefillAdmits(engine, prompt, reserve, FALSE), outcome)
    BY <1>0, PrefillSound, Zenon
  <2> QED
    BY <2>1, <2>2 DEF Consumes
<1>2. ASSUME NEW prompt \in Prompts, NEW reserve \in Reserves,
             AppendPrefill(prompt, reserve)
      PROVE  Sound(engine')
  <2>1. PICK outcome \in append_prefill(engine, prompt, reserve) : engine' = outcome.engine
    BY <1>2 DEF AppendPrefill
  <2>2. Consumes(engine, prompt, reserve, 1,
                 engine.state \in {"READY", "EOS"} /\ PrefillAdmits(engine, prompt, reserve, TRUE),
                 outcome)
    BY <1>0, AppendPrefillSound, Zenon
  <2> QED
    BY <2>1, <2>2 DEF Consumes
<1>3. ASSUME NEW prompt \in Prompts, NEW reserve \in Reserves, NEW count \in Prefixes,
             PrefillWithPrefix(prompt, count, reserve)
      PROVE  Sound(engine')
  BY <1>0, <1>3, PrefillWithPrefixSound DEF PrefillWithPrefix
<1>4. ASSUME NEW token \in InputTokens, NEW greedy \in BOOLEAN, Decode(token, greedy)
      PROVE  Sound(engine')
  <2>1. PICK outcome \in decode_inner(engine, token, greedy) : engine' = outcome.engine
    BY <1>4 DEF Decode
  <2>2. Consumes(engine, <<token>>, engine.reserve, engine.emitted + 1,
                 DecodeAdmits(engine, token, greedy), outcome)
    BY DecodeSound, Zenon
  <2> QED
    BY <2>1, <2>2 DEF Consumes
<1>5. CASE Reset
  BY <1>0, <1>5, ResetSound DEF Reset
<1>6. CASE ResetToPrefix
  BY <1>6, ResetToPrefixSound DEF ResetToPrefix
<1>7. CASE UNCHANGED engine
  BY <1>7
<1> QED
  BY <1>1, <1>2, <1>3, <1>4, <1>5, <1>6, <1>7 DEF ClientNext

\* The engine is sound after every sequence of calls, in any order and with
\* any arguments: the inductive invariant the theorems below follow from.
THEOREM EngineInvariance == ClientSpec => []Sound(engine)
<1>1. ClientInit => Sound(engine)
  BY NewSound DEF ClientInit
<1> QED
  BY <1>1, NextSound, PTL DEF ClientSpec

\* No call, valid or refused, moves the position, the budget or a cached token
\* out of its range.
THEOREM EngineTypes == ClientSpec => []EngineTypeOK
<1>1. Sound(engine) => EngineTypeOK
  BY DEF Sound, EngineTypeOK
<1> QED
  BY <1>1, EngineInvariance, PTL

\* The prefix prefill_with_prefix compares with is always the one the cache
\* holds in front of the position.
THEOREM PrefixAlwaysBacked == ClientSpec => []PrefixBacked
<1>1. Sound(engine) => PrefixBacked
  BY DEF Sound, Backed, PrefixBacked
<1> QED
  BY <1>1, EngineInvariance, PTL

\* The predictions an engine may still make always fit behind its position:
\* decode never meets its position >= CONTEXT_LIMIT error.
THEOREM BudgetAlwaysFits == ClientSpec => []BudgetFits
<1>1. Sound(engine) => BudgetFits
  BY DEF Sound, Budgeted, BudgetFits
<1> QED
  BY <1>1, EngineInvariance, PTL

\* No position in front of the current one is torn or was never written,
\* unless the engine faulted.
THEOREM NoHolesEver == ClientSpec => []NoHoles
<1>1. Sound(engine) => NoHoles
  BY DEF Sound, Written, NoHoles
<1> QED
  BY <1>1, EngineInvariance, PTL

-----------------------------------------------------------------------------
(* Prompts.                                                                 *)

StartsWith(s, p) == Len(p) <= Len(s) /\ \A i \in 1 .. Len(p) : s[i] = p[i]

\* A conversation to be continued begins with the retained prefix, fits the
\* context and ends with the stop token.
Conversation(c) ==
    /\ c \in Seq(Vocab)
    /\ c # << >> => /\ Len(Prefix) < Len(c) /\ Len(c) <= Context
                    /\ StartsWith(c, Prefix)
                    /\ c[Len(c)] = IM_END

\* A prompt behind it: it begins with the prefix and with the conversation.
PromptBehind(c, prompt) ==
    /\ prompt \in Seq(Vocab)
    /\ Len(Prefix) < Len(prompt) /\ StartsWith(prompt, Prefix)
    /\ Len(c) < Len(prompt) /\ StartsWith(prompt, c)

LEMMA PrefixFacts == Prefix \in Seq(Vocab) /\ Len(Prefix) \in 1 .. MaxTokens
<1>1. /\ SystemMessage \in Seq(Vocab) /\ SystemMessage # << >>
      /\ UserOpen \in Seq(Vocab) /\ UserOpen # << >>
      /\ Len(SystemMessage) + Len(UserOpen) <= MaxTokens
  BY TemplateAssumption
<1>2. Prefix \in Seq(Vocab) /\ Len(Prefix) = Len(SystemMessage) + Len(UserOpen)
  BY <1>1, ConcatProperties DEF Prefix
<1>3. Len(SystemMessage) \in Nat \ {0} /\ Len(UserOpen) \in Nat \ {0}
  BY <1>1, EmptySeq
<1> QED
  BY <1>1, <1>2, <1>3, MaxTokensAssumption

LEMMA Longer ==
    ASSUME NEW s \in Seq(Vocab), NEW t \in Seq(Vocab)
    PROVE  /\ s \o t \in Seq(Vocab) /\ Len(s \o t) = Len(s) + Len(t)
           /\ StartsWith(s \o t, s)
  BY ConcatProperties DEF StartsWith

LEMMA StartsTransitively ==
    ASSUME NEW s \in Seq(Vocab), NEW t \in Seq(Vocab), NEW u \in Seq(Vocab),
           StartsWith(s, t), StartsWith(t, u)
    PROVE  StartsWith(s, u)
  BY DEF StartsWith

\* render_conversation puts a question behind the conversation.
LEMMA RenderedBehind ==
    ASSUME NEW c, Conversation(c), NEW user \in Seq(Vocab)
    PROVE  PromptBehind(c, Rendered(c, user))
<1> DEFINE base == IF c = << >> THEN SystemMessage ELSE c
           opened == base \o UserOpen
           asked == opened \o user
           prompt == asked \o UserClose
<1>1. /\ SystemMessage \in Seq(Vocab) /\ UserOpen \in Seq(Vocab) /\ UserClose \in Seq(Vocab)
      /\ Len(UserClose) > 0 /\ base \in Seq(Vocab) /\ c \in Seq(Vocab)
  BY TemplateAssumption, EmptySeq DEF Conversation
<1>2. Rendered(c, user) = prompt
  BY DEF Rendered
<1> HIDE DEF base
<1>3. opened \in Seq(Vocab) /\ Len(opened) = Len(base) + Len(UserOpen) /\ StartsWith(opened, base)
  BY <1>1, Longer
<1> HIDE DEF opened
<1>4. asked \in Seq(Vocab) /\ Len(asked) = Len(opened) + Len(user) /\ StartsWith(asked, opened)
  BY <1>3, Longer
<1> HIDE DEF asked
<1>5. /\ prompt \in Seq(Vocab) /\ Len(prompt) = Len(asked) + Len(UserClose)
      /\ StartsWith(prompt, asked)
  BY <1>1, <1>4, Longer
<1> HIDE DEF prompt
<1>6. StartsWith(prompt, opened) /\ Len(opened) < Len(prompt)
  <2>1. Len(user) >= 0 /\ Len(opened) \in Nat /\ Len(asked) \in Nat /\ Len(UserClose) \in Nat
    BY <1>1, <1>3, <1>4
  <2> QED
    BY <1>1, <1>3, <1>4, <1>5, <2>1, StartsTransitively
<1>7. CASE c = << >>
  <2>1. opened = Prefix
    BY <1>7 DEF opened, base, Prefix
  <2> QED
    BY <1>1, <1>2, <1>5, <1>6, <1>7, <2>1, EmptySeq DEF PromptBehind, StartsWith
<1>8. CASE c # << >>
  <2>1. base = c /\ StartsWith(c, Prefix) /\ Len(Prefix) < Len(c)
    BY <1>8 DEF base, Conversation
  <2>2. StartsWith(prompt, c) /\ Len(c) < Len(prompt)
    <3>1. Len(UserOpen) \in Nat /\ Len(c) \in Nat /\ Len(opened) \in Nat /\ Len(prompt) \in Nat
      BY <1>1, <1>3, <1>5
    <3> QED
      BY <1>1, <1>3, <1>5, <1>6, <2>1, <3>1, StartsTransitively
  <2>3. StartsWith(prompt, Prefix) /\ Len(Prefix) < Len(prompt)
    <3>1. Prefix \in Seq(Vocab) /\ Len(Prefix) \in Nat /\ Len(c) \in Nat /\ Len(prompt) \in Nat
      BY <1>1, <1>5, PrefixFacts
    <3> QED
      BY <1>1, <1>5, <2>1, <2>2, <3>1, StartsTransitively
  <2> QED
    BY <1>2, <1>5, <2>2, <2>3 DEF PromptBehind
<1> QED
  BY <1>7, <1>8

-----------------------------------------------------------------------------
(* The inductive invariant.                                                 *)

ErrorCodes == {"none", "TOKENIZE", "SAMPLE", "INFERENCE", "OUTPUT", "UTF8_INCOMPLETE",
               "HISTORY_STATE", "FATAL"}

Turns == [user         : Seq(Vocab),
          prompt_count : Int,
          append       : BOOLEAN,
          start        : Int,
          limit        : Int,
          generated    : Nat,
          previous     : Vocab \cup {NoToken},
          incomplete   : BOOLEAN,
          committed    : BOOLEAN,
          interrupted  : BOOLEAN,
          error        : ErrorCodes,
          reported     : BOOLEAN]

\* What holds wherever the controller stands.  The engine retains no prefix but
\* the template's.
Standing ==
    /\ Sound(engine)
    /\ engine.prefix \in {<< >>, Prefix}
    /\ Conversation(committed)
    /\ working \in Seq(Vocab)
    /\ turn \in Turns
    /\ turn.error # "HISTORY_STATE"

\* An engine that has evaluated the tokens up to its position and can go on.
Evaluating(tokens) ==
    /\ engine.state \in {"READY", "EOS"}
    /\ KvHolds(tokens, engine.position)

\* Outside a reply the engine was reset, or stands in front of the stop token that
\* ends the conversation.
Cached ==
    \/ cached_len = 0 /\ engine.state = "RESET"
    \/ /\ committed # << >>
       /\ cached_len = Len(committed) - 1
       /\ cached_len = engine.position
       /\ Evaluating(committed)

Resting == pc \in {"idle", "tokenize", "generate", "finish", "stopped"} => Cached

\* A turn that has not failed and not been committed.
Open == turn.error = "none" /\ ~turn.committed

Tokenizing == pc = "tokenize" => Open /\ turn.generated = 0

Prompted ==
    pc = "generate" =>
        /\ Open /\ turn.generated = 0
        /\ PromptBehind(committed, working)
        /\ turn.prompt_count = Len(working)
        /\ Len(working) <= PROMPT_LIMIT

\* Prompt, reply and limit fit the context.
Fits ==
    /\ Len(Prefix) < turn.prompt_count
    /\ StartsWith(working, Prefix)
    /\ Len(working) = turn.prompt_count + turn.generated
    /\ turn.limit \in 1 .. Context
    /\ turn.prompt_count + turn.limit <= Context
    /\ turn.generated <= turn.limit

Replying ==
    pc \in {"poll", "infer", "poll_again", "output", "advance"} =>
        /\ Open /\ Fits
        /\ pc \in {"infer", "poll_again", "output"} => turn.generated < turn.limit

\* Before the prompt is evaluated: behind the conversation, or behind the prefix
\* or at the beginning of a reset engine.
Starting ==
    pc \in {"poll", "infer"} /\ turn.generated = 0 =>
        /\ KvHolds(working, engine.position)
        /\ IF turn.append
           THEN /\ engine.state \in {"READY", "EOS"}
                /\ turn.start = engine.position
                /\ engine.position < Len(working)
           ELSE engine.state = "RESET"

\* A token was sampled and not stored yet.
Drawn ==
    pc \in {"poll_again", "output"} =>
        /\ Evaluating(working)
        /\ engine.position = Len(working)
        /\ engine.reserve = turn.limit
        /\ engine.emitted = turn.generated + 1
        /\ turn.previous \in Vocab

\* Either stop token is stored as IM_END.
AsStored(token) == IF token \in StopTokens THEN IM_END ELSE token

\* The last token of the reply is stored and not evaluated.
Stored ==
    pc = "advance" \/ (pc \in {"poll", "infer"} /\ turn.generated > 0) =>
        /\ Evaluating(working)
        /\ engine.position = Len(working) - 1
        /\ engine.reserve = turn.limit
        /\ engine.emitted = turn.generated
        /\ turn.previous \in Vocab
        /\ working[Len(working)] = AsStored(turn.previous)
        /\ pc # "advance" => turn.previous \notin StopTokens

\* A committed reply ends with the one token the engine has not evaluated.
Closing ==
    pc = "close" =>
        /\ turn.error = "INFERENCE" => engine.state = "FAULTED"
        /\ turn.committed => /\ turn.error = "none"
                             /\ committed # << >>
                             /\ engine.position = Len(committed) - 1
                             /\ Evaluating(committed)

ReplInv ==
    /\ Standing /\ Resting /\ Tokenizing /\ Prompted
    /\ Replying /\ Starting /\ Drawn /\ Stored /\ Closing

\* Without failing devices no turn ends with a fatal error.
Survives == ~ioFaults => pc # "stopped" /\ turn.error # "FATAL"

-----------------------------------------------------------------------------
(* The locals of a turn.                                                    *)

\* A fresh turn, as accepted starts it.
LEMMA NoTurnIsTurn ==
    /\ NoTurn \in Turns
    /\ NoTurn.error = "none" /\ NoTurn.generated = 0 /\ ~NoTurn.committed
<1>1. << >> \in Seq(Vocab) /\ NoToken \in Vocab \cup {NoToken} /\ "none" \in ErrorCodes
  BY DEF ErrorCodes
<1> QED
  BY <1>1 DEF NoTurn, Turns

LEMMA TurnBegun ==
    ASSUME NEW u \in Seq(Vocab)
    PROVE  /\ [NoTurn EXCEPT !.user = u] \in Turns
           /\ [NoTurn EXCEPT !.user = u].error = "none"
           /\ [NoTurn EXCEPT !.user = u].generated = 0
           /\ ~[NoTurn EXCEPT !.user = u].committed
  BY NoTurnIsTurn DEF Turns

\* A failure changes nothing but the error.
FailsWith(t, f, code) ==
    /\ f \in Turns
    /\ f.error = code
    /\ f.user = t.user /\ f.committed = t.committed /\ f.generated = t.generated

LEMMA TurnFailed ==
    ASSUME NEW t \in Turns, NEW code \in ErrorCodes
    PROVE  FailsWith(t, Fail(t, code), code)
  BY DEF FailsWith, Fail, Turns

LEMMA TurnClosed ==
    ASSUME NEW t \in Turns, NEW code \in ErrorCodes, NEW reported \in BOOLEAN
    PROVE  FailsWith(t, [Fail(t, code) EXCEPT !.reported = reported], code)
<1> DEFINE f == Fail(t, code)
<1>1. FailsWith(t, f, code)
  BY TurnFailed
<1>2. FailsWith(t, [f EXCEPT !.reported = reported], code)
  <2> HIDE DEF f
  <2> QED
    BY <1>1 DEF FailsWith, Turns
<1> QED
  BY <1>2

\* The start of generate sets where evaluation starts and what the reply may use.
Planned(t, u, append, start, limit) ==
    /\ u \in Turns
    /\ u.append = append /\ u.start = start /\ u.limit = limit
    /\ u.error = t.error /\ u.committed = t.committed /\ u.generated = t.generated
    /\ u.user = t.user /\ u.prompt_count = t.prompt_count

LEMMA TurnPlanned ==
    ASSUME NEW t \in Turns, NEW append \in BOOLEAN, NEW start \in Int, NEW limit \in Int,
           NEW u, u = [t EXCEPT !.append = append, !.start = start, !.limit = limit]
    PROVE  Planned(t, u, append, start, limit)
<1>1. u = [user |-> t.user, prompt_count |-> t.prompt_count, append |-> append,
           start |-> start, limit |-> limit, generated |-> t.generated,
           previous |-> t.previous, incomplete |-> t.incomplete,
           committed |-> t.committed, interrupted |-> t.interrupted,
           error |-> t.error, reported |-> t.reported]
  BY DEF Turns
<1> QED
  BY <1>1 DEF Turns, Planned

\* A token put out is counted.
Advanced(t, u) ==
    /\ u \in Turns
    /\ u.generated = t.generated + 1
    /\ u.error = t.error /\ u.committed = t.committed /\ u.previous = t.previous
    /\ u.user = t.user /\ u.prompt_count = t.prompt_count /\ u.limit = t.limit

LEMMA TurnAdvanced ==
    ASSUME NEW t \in Turns, NEW incomplete \in BOOLEAN,
           NEW u, u = [t EXCEPT !.generated = @ + 1, !.incomplete = incomplete]
    PROVE  Advanced(t, u)
<1>1. u = [user |-> t.user, prompt_count |-> t.prompt_count, append |-> t.append,
           start |-> t.start, limit |-> t.limit, generated |-> t.generated + 1,
           previous |-> t.previous, incomplete |-> incomplete,
           committed |-> t.committed, interrupted |-> t.interrupted,
           error |-> t.error, reported |-> t.reported]
  BY DEF Turns
<1> QED
  BY <1>1 DEF Turns, Advanced

-----------------------------------------------------------------------------
(* The resets of the engine.                                                *)

\* A reset engine that retains no prefix but the template's.
Rewound(e) == Sound(e) /\ e.state = "RESET" /\ e.prefix \in {<< >>, Prefix}

LEMMA ResetsRewind ==
    ASSUME NEW e, Sound(e), e.prefix \in {<< >>, Prefix}
    PROVE  Rewound(reset_to_prefix(e)) /\ Rewound(reset_state(e))
<1>1. Rewound(reset_state(e))
  BY ResetSound DEF Sound, Rewound
<1>2. CASE ~PrefixUsable(e)
  BY <1>1, <1>2 DEF reset_to_prefix
<1>3. CASE PrefixUsable(e)
  <2>1. reset_to_prefix(e) =
           [state |-> "RESET", position |-> Len(e.prefix), reserve |-> 0,
            emitted |-> 0, selected |-> NoToken, prefix |-> e.prefix, kv |-> e.kv]
    BY <1>3 DEF reset_to_prefix, reset_state, NewEngine
  <2> QED
    BY <1>1, <2>1, ResetToPrefixSound DEF Rewound
<1> QED
  BY <1>1, <1>2, <1>3

-----------------------------------------------------------------------------
(* From the entered line to the prompt.                                     *)

LEMMA InitInv == ReplInit => ReplInv
<1> SUFFICES ASSUME ReplInit PROVE ReplInv
  OBVIOUS
<1>1. << >> \in Seq(Vocab) /\ NoTurn \in Turns /\ NoTurn.error = "none"
  BY NoTurnIsTurn
<1>2. Standing
  BY <1>1, NewSound DEF ReplInit, Standing, Conversation, NewEngine
<1>3. Resting
  BY DEF ReplInit, Resting, Cached, NewEngine
<1> QED
  BY <1>2, <1>3 DEF ReplInit, ReplInv, Tokenizing, Prompted, Replying, Starting, Drawn,
                    Stored, Closing

LEMMA AcceptInv ==
    ASSUME ReplInv, NEW user \in UserTexts, Accept(user)
    PROVE  ReplInv'
<1> DEFINE begun == [NoTurn EXCEPT !.user = user]
<1>1. user \in Seq(Vocab) /\ "FATAL" \in ErrorCodes
  BY TemplateAssumption DEF ErrorCodes
<1>2. /\ begun \in Turns /\ NoTurn \in Turns /\ NoTurn.error = "none"
      /\ begun.error = "none" /\ begun.generated = 0 /\ ~begun.committed
  BY <1>1, NoTurnIsTurn, TurnBegun
<1>3. FailsWith(begun, Fail(begun, "FATAL"), "FATAL")
  BY <1>1, <1>2, TurnFailed
<1>4. /\ pc = "idle"
      /\ \/ pc' = "tokenize" /\ turn' = begun
         \/ pc' = "finish" /\ turn' = Fail(begun, "FATAL")
         \/ pc' = "stopped" /\ turn' = NoTurn
      /\ UNCHANGED <<engine, committed, cached_len, working>>
  BY DEF Accept, Continue, historyVars
<1> HIDE DEF begun
<1>5. Standing'
  BY <1>2, <1>3, <1>4 DEF ReplInv, Standing, FailsWith
<1>6. Resting'
  BY <1>4 DEF ReplInv, Resting, Cached, Evaluating, KvHolds
<1>7. Tokenizing'
  BY <1>2, <1>4 DEF Tokenizing, Open
<1> QED
  BY <1>4, <1>5, <1>6, <1>7 DEF ReplInv, Prompted, Replying, Starting, Drawn, Stored, Closing

\* The tokenizer never refuses the history.
LEMMA HistoryValid == ReplInv => ~HistoryInvalid
  BY ContextAssumption DEF ReplInv, Standing, Conversation, HistoryInvalid

LEMMA TokenizeFailsInv ==
    ASSUME ReplInv, TokenizeFails
    PROVE  ReplInv'
<1>1. ~HistoryInvalid
  BY HistoryValid
<1>2. /\ pc = "tokenize" /\ pc' = "finish"
      /\ turn' = Fail(turn, "TOKENIZE")
      /\ UNCHANGED <<engine, committed, cached_len, working>>
  BY <1>1 DEF TokenizeFails, Continue, historyVars
<1>3. FailsWith(turn, turn', "TOKENIZE")
  BY <1>2, TurnFailed DEF ReplInv, Standing, ErrorCodes
<1>4. Standing'
  BY <1>2, <1>3 DEF ReplInv, Standing, FailsWith
<1>5. Resting'
  BY <1>2 DEF ReplInv, Resting, Cached, Evaluating, KvHolds
<1> QED
  BY <1>2, <1>4, <1>5 DEF ReplInv, Tokenizing, Prompted, Replying, Starting, Drawn, Stored,
                          Closing

\* The effect of PromptReady: a prompt behind this conversation is ready, or its
\* record failed.
Ready(c, prompt) ==
    /\ Conversation(c)
    /\ PromptBehind(c, prompt)
    /\ Len(prompt) <= PROMPT_LIMIT

LEMMA PromptReadyInv ==
    ASSUME ReplInv, pc = "tokenize", NEW prompt, PromptReady(prompt),
           \/ UNCHANGED <<engine, cached_len, committed>>
           \/ Rewound(engine') /\ cached_len' = 0,
           Ready(committed', prompt)
    PROVE  ReplInv'
<1>0. turn \in Turns /\ Open /\ turn.generated = 0 /\ prompt \in Seq(Vocab)
  BY DEF ReplInv, Standing, Tokenizing, Ready, PromptBehind
<1> DEFINE prompted == [turn EXCEPT !.prompt_count = Len(prompt)]
<1>1. /\ prompted \in Turns /\ prompted.prompt_count = Len(prompt)
      /\ prompted.error = "none" /\ ~prompted.committed /\ prompted.generated = 0
  BY <1>0 DEF Turns, Open
<1>2. FailsWith(turn, Fail(turn, "FATAL"), "FATAL")
  BY <1>0, TurnFailed DEF ErrorCodes
<1>3. /\ working' = prompt
      /\ \/ pc' = "generate" /\ turn' = prompted
         \/ pc' = "finish" /\ turn' = Fail(turn, "FATAL")
  BY DEF PromptReady, Continue
<1> HIDE DEF prompted
<1>4. Standing'
  BY <1>0, <1>1, <1>2, <1>3 DEF ReplInv, Standing, FailsWith, Rewound, Ready
<1>5. Resting'
  <2>1. CASE UNCHANGED <<engine, cached_len, committed>>
    BY <2>1 DEF ReplInv, Resting, Cached, Evaluating, KvHolds
  <2>2. CASE Rewound(engine') /\ cached_len' = 0
    BY <2>2 DEF Resting, Cached, Rewound
  <2> QED
    BY <2>1, <2>2
<1>6. Prompted'
  BY <1>1, <1>3 DEF Prompted, Open, Ready
<1> QED
  BY <1>3, <1>4, <1>5, <1>6 DEF ReplInv, Tokenizing, Replying, Starting, Drawn, Stored, Closing

LEMMA UsePromptInv ==
    ASSUME ReplInv, UsePrompt
    PROVE  ReplInv'
<1> DEFINE prompt == Rendered(committed, turn.user)
<1>1. /\ pc = "tokenize" /\ PromptReady(prompt)
      /\ UNCHANGED <<engine, cached_len, committed>>
      /\ Decision = "Use"
  BY DEF UsePrompt, historyVars
<1>2. Len(prompt) <= PROMPT_LIMIT
  BY <1>1, Zenon DEF Decision, decide_history
<1>3. turn.user \in Seq(Vocab) /\ Conversation(committed)
  BY DEF ReplInv, Standing, Turns
<1>4. Ready(committed, prompt)
  BY <1>2, <1>3, RenderedBehind DEF Ready
<1> HIDE DEF prompt
<1> QED
  BY <1>1, <1>4, PromptReadyInv

LEMMA ResetHistoryInv ==
    ASSUME ReplInv, ResetHistory
    PROVE  ReplInv'
<1> DEFINE fresh == Rendered(<< >>, turn.user)
           rewound == reset_to_prefix(engine)
<1>0. Sound(engine) /\ engine.prefix \in {<< >>, Prefix} /\ turn.user \in Seq(Vocab)
  BY DEF ReplInv, Standing, Turns
<1>1. pc = "tokenize" /\ Decision = "Reset"
  BY DEF ResetHistory
<1>2. Len(fresh) <= PROMPT_LIMIT
  BY <1>1 DEF Decision, decide_history
<1>3. Conversation(<< >>)
  BY DEF Conversation
<1>4. Ready(<< >>, fresh)
  BY <1>0, <1>2, <1>3, RenderedBehind DEF Ready
<1>5. Rewound(rewound) /\ Rewound(reset_state(rewound))
  <2>1. Rewound(rewound)
    BY <1>0, ResetsRewind
  <2> HIDE DEF rewound
  <2> QED
    BY <2>1, ResetsRewind DEF Rewound
<1>6. \/ /\ engine' = IF rewound.position > Len(fresh)
                      THEN reset_state(rewound) ELSE rewound
         /\ cached_len' = 0
         /\ committed' = << >>
         /\ PromptReady(fresh)
      \/ /\ working' = fresh
         /\ Continue("finish", Fail(turn, "FATAL"))
         /\ UNCHANGED <<engine, committed, cached_len>>
  BY DEF ResetHistory, historyVars
<1> HIDE DEF fresh, rewound
<1>7. CASE /\ Rewound(engine') /\ cached_len' = 0 /\ committed' = << >>
           /\ PromptReady(fresh)
  BY <1>1, <1>4, <1>7, PromptReadyInv
<1>8. CASE /\ working' = fresh
           /\ Continue("finish", Fail(turn, "FATAL"))
           /\ UNCHANGED <<engine, committed, cached_len>>
  <2>1. FailsWith(turn, turn', "FATAL") /\ pc' = "finish"
    BY <1>8, TurnFailed DEF ReplInv, Standing, ErrorCodes, Continue
  <2>2. Standing'
    BY <1>4, <1>8, <2>1 DEF ReplInv, Standing, FailsWith, Ready, PromptBehind
  <2>3. Resting'
    BY <1>1, <1>8 DEF ReplInv, Resting, Cached, Evaluating, KvHolds
  <2> QED
    BY <2>1, <2>2, <2>3 DEF ReplInv, Tokenizing, Prompted, Replying, Starting, Drawn,
                            Stored, Closing
<1> QED
  BY <1>5, <1>6, <1>7, <1>8

LEMMA RejectPromptInv ==
    ASSUME ReplInv, RejectPrompt
    PROVE  ReplInv'
<1>1. /\ pc = "tokenize" /\ pc' = "finish"
      /\ turn' = turn \/ turn' = Fail(turn, "FATAL")
      /\ UNCHANGED <<engine, committed, cached_len, working>>
  BY DEF RejectPrompt, Continue, historyVars
<1>2. turn' \in Turns /\ turn'.error # "HISTORY_STATE"
  <2>1. FailsWith(turn, Fail(turn, "FATAL"), "FATAL")
    BY TurnFailed DEF ReplInv, Standing, ErrorCodes
  <2> QED
    BY <1>1, <2>1 DEF ReplInv, Standing, FailsWith
<1>3. Standing' /\ Resting'
  BY <1>1, <1>2 DEF ReplInv, Standing, Resting, Cached, Evaluating, KvHolds
<1> QED
  BY <1>1, <1>3 DEF ReplInv, Tokenizing, Prompted, Replying, Starting, Drawn, Stored, Closing

-----------------------------------------------------------------------------
(* From the prompt to the first token.                                      *)

\* Where the engine stands when generate begins, and what it holds there.
Stands(start) ==
    /\ start = engine.position
    /\ KvHolds(working, start)
    /\ IF cached_len # 0
       THEN engine.state \in {"READY", "EOS"} /\ start < Len(working)
       ELSE engine.state = "RESET"

\* Engine and history never disagree about where evaluation starts.
LEMMA StartFound ==
    ASSUME ReplInv, pc = "generate"
    PROVE  AppendStart # -1 /\ Stands(AppendStart)
<1>0. /\ Sound(engine) /\ engine.prefix \in {<< >>, Prefix} /\ engine.position \in Nat
      /\ Conversation(committed) /\ working \in Seq(Vocab)
      /\ PromptBehind(committed, working) /\ Cached
  BY ContextAssumption DEF ReplInv, Standing, Sound, Engines, Prompted, Resting
<1>1. Prefix \in Seq(Vocab) /\ Len(Prefix) \in Nat \ {0} /\ Len(Prefix) < Len(working)
  BY <1>0, PrefixFacts, MaxTokensAssumption DEF PromptBehind
<1>2. CASE cached_len = 0 /\ engine.state = "RESET"
  <2>1. engine.position = Len(engine.prefix)
    BY <1>0, <1>2 DEF Sound, ResetAligned
  <2>2. \A i \in 1 .. engine.position : engine.kv[i - 1] = engine.prefix[i]
    BY <1>0, <2>1 DEF Sound, Backed
  <2>3. AppendStart = engine.position
    <3>1. CASE engine.prefix = Prefix
      <4>1. engine.position = Len(Prefix)
        BY <2>1, <3>1
      <4> QED
        BY <1>1, <1>2, <4>1 DEF AppendStart
    <3>2. CASE engine.prefix = << >>
      <4>1. engine.position = 0
        BY <2>1, <3>2
      <4> QED
        BY <1>1, <1>2, <4>1 DEF AppendStart
    <3> QED
      BY <1>0, <3>1, <3>2
  <2>4. KvHolds(working, engine.position)
    BY <1>0, <1>1, <2>1, <2>2 DEF KvHolds, PromptBehind, StartsWith
  <2> QED
    BY <1>0, <1>2, <2>3, <2>4 DEF Stands
<1>3. CASE /\ committed # << >> /\ cached_len = Len(committed) - 1
           /\ cached_len = engine.position /\ Evaluating(committed)
  <2>1. /\ committed \in Seq(Vocab) /\ Len(Prefix) < Len(committed)
        /\ Len(committed) < Len(working) /\ StartsWith(working, committed)
    BY <1>0, <1>3 DEF Conversation, PromptBehind
  <2>2. cached_len \in Nat \ {0} /\ cached_len < Len(working) /\ cached_len < Len(committed)
    BY <1>1, <1>3, <2>1, <1>0
  <2>3. \A i \in 1 .. cached_len : working[i] = committed[i]
    BY <1>0, <2>1, <2>2 DEF StartsWith
  <2>4. SubSeq(working, 1, cached_len) = SubSeq(committed, 1, cached_len)
    <3> DEFINE w == SubSeq(working, 1, cached_len)
               c == SubSeq(committed, 1, cached_len)
    <3>1. /\ w \in Seq(Vocab) /\ Len(w) = cached_len
          /\ \A i \in 1 .. cached_len : w[i] = working[i]
      BY <1>0, <2>2, SubSeqProperties
    <3>2. /\ c \in Seq(Vocab) /\ Len(c) = cached_len
          /\ \A i \in 1 .. cached_len : c[i] = committed[i]
      BY <2>1, <2>2, SubSeqProperties
    <3> HIDE DEF w, c
    <3>3. w = c
      BY <2>2, <2>3, <3>1, <3>2, SeqEqual
    <3> QED
      BY <3>3 DEF w, c
  <2>5. AppendStart = cached_len
    <3>1. cached_len + 1 = Len(committed) /\ cached_len # 0
      BY <1>3, <2>1, <2>2, <1>0
    <3> QED
      BY <1>3, <2>2, <2>4, <3>1, Zenon DEF AppendStart
  <2>6. KvHolds(working, engine.position)
    BY <1>0, <1>3, <2>2, <2>3 DEF KvHolds, Evaluating
  <2> QED
    BY <1>3, <2>2, <2>5, <2>6 DEF Stands, Evaluating
<1> QED
  BY <1>0, <1>2, <1>3 DEF Cached

LEMMA BeginGenerationInv ==
    ASSUME ReplInv, BeginGeneration
    PROVE  ReplInv'
<1>1. pc = "generate"
  BY DEF BeginGeneration
<1>2. AppendStart # -1 /\ Stands(AppendStart)
  BY <1>1, StartFound
<1>3. /\ pc' = "poll"
      /\ turn' = [turn EXCEPT !.append = (cached_len # 0), !.start = AppendStart,
                              !.limit = GenerationLimit]
      /\ UNCHANGED <<engine, committed, cached_len, working>>
  BY <1>2, Zenon DEF BeginGeneration, Continue, historyVars
<1>4. /\ Sound(engine) /\ engine.position \in Nat /\ working \in Seq(Vocab) /\ turn \in Turns
      /\ Open /\ turn.generated = 0 /\ turn.prompt_count = Len(working)
      /\ Len(working) <= PROMPT_LIMIT /\ PromptBehind(committed, working)
  BY <1>1, ContextAssumption DEF ReplInv, Standing, Sound, Engines, Prompted
<1>5. AppendStart \in Int
  BY <1>2, <1>4 DEF Stands
<1>6. GenerationLimit \in 1 .. Context - Len(working)
  BY <1>4, ContextAssumption, ReserveAssumption DEF GenerationLimit, PROMPT_LIMIT
<1>7. /\ turn' \in Turns
      /\ turn'.append = (cached_len # 0) /\ turn'.start = AppendStart
      /\ turn'.limit = GenerationLimit /\ turn'.error = turn.error
      /\ turn'.committed = turn.committed /\ turn'.generated = turn.generated
      /\ turn'.prompt_count = turn.prompt_count
  <2>1. (cached_len # 0) \in BOOLEAN /\ GenerationLimit \in Int
    BY <1>4, <1>6, ContextAssumption
  <2>2. Planned(turn, turn', cached_len # 0, AppendStart, GenerationLimit)
    BY <1>3, <1>4, <1>5, <2>1, TurnPlanned, Zenon
  <2> QED
    BY <2>2 DEF Planned
<1>8. Standing'
  BY <1>3, <1>4, <1>7 DEF ReplInv, Standing, Open
<1>9. Replying'
  BY <1>3, <1>4, <1>6, <1>7, ContextAssumption DEF Replying, Open, Fits, PromptBehind
<1>10. Starting'
  BY <1>2, <1>3, <1>4, <1>7 DEF Starting, Stands, KvHolds
<1> QED
  BY <1>3, <1>4, <1>7, <1>8, <1>9, <1>10
     DEF ReplInv, Resting, Tokenizing, Prompted, Drawn, Stored, Closing

\* A turn is abandoned after a reset of the engine.
LEMMA AbandonedInv ==
    ASSUME ReplInv, Rewound(engine'), cached_len' = 0, committed' = committed,
           working' \in Seq(Vocab), pc' = "finish",
           turn' \in Turns, turn'.error # "HISTORY_STATE"
    PROVE  ReplInv'
<1>1. Standing'
  BY DEF ReplInv, Standing, Rewound
<1>2. Resting'
  BY DEF Resting, Cached, Rewound
<1> QED
  BY <1>1, <1>2 DEF ReplInv, Tokenizing, Prompted, Replying, Starting, Drawn, Stored, Closing

LEMMA StartRecordFailsInv ==
    ASSUME ReplInv, StartRecordFails
    PROVE  ReplInv'
<1>1. /\ engine' = reset_to_prefix(engine) /\ cached_len' = 0 /\ committed' = committed
      /\ working' = << >> /\ pc' = "finish" /\ turn' = Fail(turn, "FATAL")
  BY DEF StartRecordFails, ResetEngine, Continue, historyVars
<1>2. Rewound(engine')
  BY <1>1, ResetsRewind DEF ReplInv, Standing
<1>3. FailsWith(turn, turn', "FATAL") /\ working' \in Seq(Vocab)
  BY <1>1, TurnFailed DEF ReplInv, Standing, ErrorCodes
<1> QED
  BY <1>1, <1>2, <1>3, AbandonedInv DEF FailsWith

-----------------------------------------------------------------------------
(* The loop of generate.                                                    *)

\* The loop is left with a failure that is not the engine's, or with none.
LEMMA LeftInv ==
    ASSUME ReplInv, pc' = "close", UNCHANGED <<engine, committed, cached_len>>,
           working' \in Seq(Vocab),
           turn' \in Turns, turn'.error \notin {"HISTORY_STATE", "INFERENCE"}, ~turn'.committed
    PROVE  ReplInv'
<1>1. Standing'
  BY DEF ReplInv, Standing
<1>2. Closing'
  BY DEF Closing
<1> QED
  BY <1>1, <1>2
     DEF ReplInv, Resting, Tokenizing, Prompted, Replying, Starting, Drawn, Stored

\* The same with the error code that is set.
LEMMA LeftFailing ==
    ASSUME ReplInv, pc \in {"poll", "infer", "poll_again", "output", "advance"},
           pc' = "close", UNCHANGED <<engine, committed, cached_len, working>>,
           NEW code \in {"FATAL", "SAMPLE", "OUTPUT", "UTF8_INCOMPLETE"}, turn' = Fail(turn, code)
    PROVE  ReplInv'
<1>1. /\ code \in ErrorCodes /\ turn \in Turns /\ working \in Seq(Vocab) /\ ~turn.committed
  BY DEF ErrorCodes, ReplInv, Standing, Replying, Open
<1>2. FailsWith(turn, turn', code)
  BY <1>1, TurnFailed
<1> QED
  BY <1>1, <1>2, LeftInv DEF FailsWith

LEMMA PollInv ==
    ASSUME ReplInv, Poll
    PROVE  ReplInv'
<1>1. /\ pc \in {"poll", "poll_again"}
      /\ pc = "poll" => turn.generated < turn.limit
      /\ UNCHANGED <<engine, committed, cached_len, working>>
      /\ \/ pc' = (IF pc = "poll" THEN "infer" ELSE "output") /\ turn' = turn
         \/ pc' = "close" /\ turn' = [turn EXCEPT !.interrupted = TRUE]
         \/ pc' = "close" /\ turn' = Fail(turn, "FATAL")
  BY DEF Poll, Continue, historyVars
<1>2. CASE pc' = "close" /\ turn' = Fail(turn, "FATAL")
  BY <1>1, <1>2, LeftFailing
<1>3. CASE pc' = "close" /\ turn' = [turn EXCEPT !.interrupted = TRUE]
  <2>1. turn' \in Turns /\ turn'.error = "none" /\ ~turn'.committed
    BY <1>1, <1>3 DEF ReplInv, Standing, Replying, Open, Turns
  <2> QED
    BY <1>1, <1>3, <2>1, LeftInv DEF ReplInv, Standing
<1>4. CASE pc' = (IF pc = "poll" THEN "infer" ELSE "output") /\ turn' = turn
  <2>1. Standing'
    BY <1>1, <1>4 DEF ReplInv, Standing
  <2>2. Replying'
    BY <1>1, <1>4 DEF ReplInv, Replying, Open, Fits
  <2>3. Starting'
    BY <1>1, <1>4 DEF ReplInv, Starting, KvHolds
  <2>4. Drawn'
    BY <1>1, <1>4 DEF ReplInv, Drawn, Evaluating, KvHolds
  <2>5. Stored'
    BY <1>1, <1>4 DEF ReplInv, Stored, AsStored, Evaluating, KvHolds
  <2> QED
    BY <1>1, <1>4, <2>1, <2>2, <2>3, <2>4, <2>5
       DEF ReplInv, Resting, Tokenizing, Prompted, Closing
<1> QED
  BY <1>1, <1>2, <1>3, <1>4

LEMMA LimitReachedInv ==
    ASSUME ReplInv, LimitReached
    PROVE  ReplInv'
<1>1. /\ pc = "poll" /\ pc' = "close" /\ turn' = turn
      /\ UNCHANGED <<engine, committed, cached_len, working>>
  BY DEF LimitReached, Continue, historyVars
<1>2. turn \in Turns /\ working \in Seq(Vocab) /\ turn.error = "none" /\ ~turn.committed
  BY <1>1 DEF ReplInv, Standing, Replying, Open
<1> QED
  BY <1>1, <1>2, LeftInv

\* A call of the engine fails by a fault only; if it succeeds, the engine has evaluated
\* the tokens of the turn, all of them and nothing else.
Computed(outcome) ==
    /\ Sound(outcome.engine)
    /\ ~outcome.ok => outcome.engine.state = "FAULTED"
    /\ outcome.ok =>
          /\ outcome.engine.state \in {"READY", "EOS"}
          /\ outcome.engine.position = Len(working)
          /\ outcome.engine.reserve = turn.limit
          /\ outcome.engine.emitted = turn.generated + 1
          /\ outcome.engine.prefix \in {<< >>, Prefix}
          /\ \A i \in 1 .. Len(working) : outcome.engine.kv[i - 1] = working[i]

\* What a call that consumes the rest of these tokens comes to.
LEMMA ConsumesRest ==
    ASSUME Sound(engine), engine.prefix \in {<< >>, Prefix}, working \in Seq(Vocab),
           NEW rest \in Seq(Vocab), KvHolds(working, engine.position),
           engine.position + Len(rest) = Len(working),
           \A i \in 1 .. Len(rest) : rest[i] = working[engine.position + i],
           NEW outcome,
           Consumes(engine, rest, turn.limit, turn.generated + 1, TRUE, outcome)
    PROVE  Computed(outcome)
<1>1. engine.position \in Nat
  BY ContextAssumption DEF Sound, Engines
<1>2. ASSUME outcome.ok, NEW i \in 1 .. Len(working)
      PROVE  outcome.engine.kv[i - 1] = working[i]
  <2>1. CASE i <= engine.position
    <3>1. i - 1 \in 0 .. engine.position - 1
      BY <1>1, <2>1
    <3> QED
      BY <1>1, <1>2, <2>1, <3>1 DEF Consumes, KvHolds
  <2>2. CASE i > engine.position
    <3> DEFINE j == i - engine.position
    <3>1. j \in 1 .. Len(rest) /\ engine.position + j = i /\ engine.position + j - 1 = i - 1
      BY <1>1, <2>2
    <3> HIDE DEF j
    <3>2. outcome.engine.kv[engine.position + j - 1] = rest[j]
      BY <1>2, <3>1 DEF Consumes
    <3>3. rest[j] = working[engine.position + j]
      BY <3>1
    <3> QED
      BY <3>1, <3>2, <3>3
  <2> QED
    BY <1>1, <2>1, <2>2
<1>3. outcome.ok => /\ outcome.engine.state \in {"READY", "EOS"}
                    /\ outcome.engine.position = Len(working)
                    /\ outcome.engine.reserve = turn.limit
                    /\ outcome.engine.emitted = turn.generated + 1
                    /\ outcome.engine.prefix \in {<< >>, Prefix}
  BY DEF Consumes
<1>4. Sound(outcome.engine) /\ (~outcome.ok => outcome.engine.state = "FAULTED")
  BY DEF Consumes
<1> QED
  BY <1>2, <1>3, <1>4 DEF Computed

\* One token more.
LEMMA DecodeComputes ==
    ASSUME ReplInv, pc = "infer", turn.generated > 0,
           NEW outcome \in decode_inner(engine, turn.previous, FALSE)
    PROVE  Computed(outcome)
<1> DEFINE token == turn.previous
<1>0. /\ Sound(engine) /\ engine.prefix \in {<< >>, Prefix} /\ working \in Seq(Vocab)
      /\ turn \in Turns /\ Fits /\ turn.generated < turn.limit
      /\ engine.state \in {"READY", "EOS"} /\ KvHolds(working, engine.position)
      /\ engine.position = Len(working) - 1
      /\ engine.reserve = turn.limit /\ engine.emitted = turn.generated
      /\ token \in Vocab /\ working[Len(working)] = token
  BY DEF ReplInv, Standing, Replying, Stored, AsStored, Evaluating
<1>1. engine.position \in Nat /\ engine.position < Context
  BY <1>0, ContextAssumption DEF Sound, Engines, Fits, Turns
<1>2. DecodeAdmits(engine, token, FALSE)
  BY <1>0, <1>1, ContextAssumption DEF DecodeAdmits, Turns
<1>3. Consumes(engine, <<token>>, turn.limit, turn.generated + 1, TRUE, outcome)
  <2>1. Consumes(engine, <<token>>, engine.reserve, engine.emitted + 1,
                 DecodeAdmits(engine, token, FALSE), outcome)
    BY <1>0, DecodeSound, Zenon
  <2> QED
    BY <1>0, <1>2, <2>1 DEF Consumes
<1>4. /\ <<token>> \in Seq(Vocab) /\ Len(<<token>>) = 1 /\ <<token>>[1] = token
      /\ engine.position + 1 = Len(working)
  BY <1>0, <1>1
<1>5. \A i \in 1 .. Len(<<token>>) : <<token>>[i] = working[engine.position + i]
  BY <1>0, <1>4
<1> QED
  BY <1>0, <1>3, <1>4, <1>5, ConsumesRest

\* The rest of a prompt behind the cached conversation.
LEMMA AppendComputes ==
    ASSUME ReplInv, pc = "infer", turn.generated = 0, turn.append,
           NEW outcome \in append_prefill(engine, SubSeq(working, turn.start + 1, Len(working)),
                                          turn.limit)
    PROVE  Computed(outcome)
<1> DEFINE rest == SubSeq(working, turn.start + 1, Len(working))
<1>0. /\ Sound(engine) /\ engine.prefix \in {<< >>, Prefix} /\ working \in Seq(Vocab)
      /\ turn \in Turns /\ Fits
      /\ engine.state \in {"READY", "EOS"} /\ KvHolds(working, engine.position)
      /\ turn.start = engine.position /\ engine.position < Len(working)
  BY DEF ReplInv, Standing, Replying, Starting
<1>1. engine.position \in Nat /\ turn.limit \in 1 .. Context /\ turn.limit \in Nat
  BY <1>0, ContextAssumption DEF Sound, Engines, Fits
<1>2. /\ rest \in Seq(Vocab) /\ Len(rest) = Len(working) - engine.position
      /\ \A i \in 1 .. Len(rest) : rest[i] = working[engine.position + i]
  <2>1. turn.start + 1 \in 1 .. Len(working) + 1 /\ Len(working) \in turn.start .. Len(working)
    BY <1>0, <1>1
  <2>2. /\ rest \in Seq(Vocab) /\ Len(rest) = Len(working) - (turn.start + 1) + 1
        /\ \A i \in 1 .. Len(working) - (turn.start + 1) + 1 :
              rest[i] = working[turn.start + 1 + i - 1]
    BY <1>0, <1>1, <2>1, SubSeqProperties
  <2> QED
    BY <1>0, <1>1, <2>2
<1> HIDE DEF rest
<1>3. PrefillAdmits(engine, rest, turn.limit, TRUE)
  <2>1. rest # << >> /\ \A i \in 1 .. Len(rest) : rest[i] \in Vocab
    BY <1>0, <1>1, <1>2
  <2>2. engine.position + Len(rest) + turn.limit <= Context
    BY <1>0, <1>1, <1>2, ContextAssumption DEF Fits, Turns
  <2> QED
    BY <1>1, <2>1, <2>2 DEF PrefillAdmits
<1>4. Consumes(engine, rest, turn.limit, 1,
               engine.state \in {"READY", "EOS"} /\ PrefillAdmits(engine, rest, turn.limit, TRUE),
               outcome)
  <2>1. outcome \in append_prefill(engine, rest, turn.limit)
    BY DEF rest
  <2> QED
    BY <1>0, <1>1, <1>2, <2>1, AppendPrefillSound, Zenon
<1>5. Consumes(engine, rest, turn.limit, turn.generated + 1, TRUE, outcome)
  <2>1. turn.generated + 1 = 1
    OBVIOUS
  <2> QED
    BY <1>0, <1>3, <1>4, <2>1 DEF Consumes
<1>6. engine.position + Len(rest) = Len(working)
  BY <1>0, <1>1, <1>2
<1> QED
  BY <1>0, <1>2, <1>5, <1>6, ConsumesRest

\* The first prompt of a conversation.
LEMMA PrefillComputes ==
    ASSUME ReplInv, pc = "infer", turn.generated = 0, ~turn.append,
           NEW outcome \in prefill_with_prefix(engine, working, Len(Prefix), turn.limit)
    PROVE  Computed(outcome)
<1>0. /\ Sound(engine) /\ engine.prefix \in {<< >>, Prefix} /\ working \in Seq(Vocab)
      /\ turn \in Turns /\ Fits /\ engine.state = "RESET"
  BY DEF ReplInv, Standing, Replying, Starting
<1>1. Prefix \in Seq(Vocab) /\ Len(Prefix) \in 1 .. MaxTokens
  BY PrefixFacts
<1>2. SubSeq(working, 1, Len(Prefix)) = Prefix
  <2> DEFINE w == SubSeq(working, 1, Len(Prefix))
  <2>1. Len(Prefix) \in Nat /\ Len(Prefix) <= Len(working)
    BY <1>0, <1>1 DEF Fits, StartsWith
  <2>2. /\ w \in Seq(Vocab) /\ Len(w) = Len(Prefix)
        /\ \A i \in 1 .. Len(Prefix) : w[i] = working[i]
    BY <1>0, <1>1, <2>1, SubSeqProperties
  <2> HIDE DEF w
  <2>3. w = Prefix
    BY <1>0, <1>1, <2>1, <2>2, SeqEqual DEF Fits, StartsWith
  <2> QED
    BY <2>3 DEF w
<1>3. /\ Len(Prefix) \in 1 .. Len(working) - 1 /\ Len(Prefix) <= MaxTokens
      /\ turn.limit \in 1 .. Context /\ Len(working) + turn.limit <= Context
  BY <1>0, <1>1, MaxTokensAssumption, ContextAssumption DEF Fits, Turns
<1>4. Begins(working, Len(Prefix), turn.limit, outcome)
  BY <1>0, <1>2, <1>3, PrefillWithPrefixBegins, Zenon
<1> QED
  BY <1>0, <1>2, <1>4 DEF Begins, Computed

LEMMA EngineComputes ==
    ASSUME ReplInv, pc = "infer", NEW outcome \in EngineCall
    PROVE  Computed(outcome)
<1>1. turn.generated \in Nat /\ turn.append \in BOOLEAN
  BY DEF ReplInv, Standing, Turns
<1>2. CASE turn.generated > 0
  BY <1>2, DecodeComputes DEF EngineCall
<1>3. CASE turn.generated = 0 /\ turn.append
  BY <1>3, AppendComputes DEF EngineCall
<1>4. CASE turn.generated = 0 /\ ~turn.append
  BY <1>4, PrefillComputes DEF EngineCall
<1> QED
  BY <1>1, <1>2, <1>3, <1>4

LEMMA InferInv ==
    ASSUME ReplInv, Infer
    PROVE  ReplInv'
<1>1. pc = "infer" /\ committed' = committed
  BY DEF Infer, historyVars
<1>2. PICK outcome \in EngineCall :
          \/ /\ engine' = outcome.engine
             /\ \/ /\ outcome.ok
                   /\ \E token \in Sampled :
                         Continue("poll_again", [turn EXCEPT !.previous = token])
                \/ /\ outcome.ok
                   /\ Continue("close", Fail(turn, "SAMPLE"))
                \/ /\ ~outcome.ok
                   /\ Continue("close", Fail(turn, "INFERENCE"))
             /\ UNCHANGED <<cached_len, working>>
          \/ /\ engine' = reset_to_prefix(outcome.engine)
             /\ cached_len' = 0
             /\ working' = << >>
             /\ Continue("finish", Fail(turn, "FATAL"))
  BY DEF Infer
<1>3. Computed(outcome)
  BY <1>1, EngineComputes
<1>4. /\ Sound(outcome.engine) /\ outcome.engine.prefix \in {<< >>, Prefix}
  <2>1. CASE ~outcome.ok
    BY <1>3, <2>1 DEF Computed, Sound, Backed
  <2>2. CASE outcome.ok
    BY <1>3, <2>2 DEF Computed
  <2> QED
    BY <2>1, <2>2
<1>5. turn \in Turns /\ Open /\ Fits /\ turn.generated < turn.limit /\ working \in Seq(Vocab)
  BY <1>1 DEF ReplInv, Standing, Replying
<1>6. CASE /\ engine' = outcome.engine /\ outcome.ok
           /\ \E token \in Sampled :
                 Continue("poll_again", [turn EXCEPT !.previous = token])
           /\ UNCHANGED <<cached_len, working>>
  <2>1. PICK token \in Sampled :
            pc' = "poll_again" /\ turn' = [turn EXCEPT !.previous = token]
    BY <1>6 DEF Continue
  <2>2. token \in Vocab
    BY SampledAssumption
  <2>3. /\ turn' \in Turns /\ turn'.previous = token /\ turn'.error = turn.error
        /\ turn'.committed = turn.committed /\ turn'.generated = turn.generated
        /\ turn'.limit = turn.limit /\ turn'.prompt_count = turn.prompt_count
    BY <1>5, <2>1, <2>2 DEF Turns
  <2>4. Standing'
    BY <1>1, <1>4, <1>5, <1>6, <2>3 DEF ReplInv, Standing, Open
  <2>5. Replying'
    BY <1>5, <1>6, <2>3 DEF Replying, Open, Fits
  <2>6. Drawn'
    BY <1>3, <1>5, <1>6, <2>2, <2>3 DEF Drawn, Computed, Evaluating, KvHolds
  <2> QED
    BY <2>1, <2>4, <2>5, <2>6
       DEF ReplInv, Resting, Tokenizing, Prompted, Starting, Stored, Closing
<1>7. CASE /\ engine' = outcome.engine
           /\ \/ Continue("close", Fail(turn, "SAMPLE"))
              \/ ~outcome.ok /\ Continue("close", Fail(turn, "INFERENCE"))
           /\ UNCHANGED <<cached_len, working>>
  <2>1. /\ FailsWith(turn, Fail(turn, "SAMPLE"), "SAMPLE")
        /\ FailsWith(turn, Fail(turn, "INFERENCE"), "INFERENCE")
    BY <1>5, TurnFailed DEF ErrorCodes
  <2>2. /\ pc' = "close" /\ turn' \in Turns /\ ~turn'.committed
        /\ turn'.error # "HISTORY_STATE"
        /\ turn'.error = "INFERENCE" => engine'.state = "FAULTED"
    BY <1>3, <1>5, <1>7, <2>1 DEF Continue, FailsWith, Open, Computed
  <2>3. Standing'
    BY <1>1, <1>4, <1>5, <1>7, <2>2 DEF ReplInv, Standing
  <2>4. Closing'
    BY <2>2 DEF Closing
  <2> QED
    BY <2>2, <2>3, <2>4
       DEF ReplInv, Resting, Tokenizing, Prompted, Replying, Starting, Drawn, Stored
<1>8. CASE /\ engine' = reset_to_prefix(outcome.engine)
           /\ cached_len' = 0
           /\ working' = << >>
           /\ Continue("finish", Fail(turn, "FATAL"))
  <2>1. Rewound(engine')
    BY <1>4, <1>8, ResetsRewind
  <2>2. FailsWith(turn, turn', "FATAL") /\ working' \in Seq(Vocab) /\ pc' = "finish"
    BY <1>5, <1>8, TurnFailed DEF ErrorCodes, Continue
  <2> QED
    BY <1>1, <1>8, <2>1, <2>2, AbandonedInv DEF FailsWith
<1> QED
  BY <1>2, <1>6, <1>7, <1>8

LEMMA OutputInv ==
    ASSUME ReplInv, Output
    PROVE  ReplInv'
<1> DEFINE stored == AsStored(turn.previous)
<1>1. /\ pc = "output" /\ UNCHANGED <<engine, committed, cached_len>>
      /\ \/ /\ working' = Append(working, stored)
            /\ \E incomplete \in BOOLEAN :
                  Continue("advance", [turn EXCEPT !.generated = @ + 1,
                                                   !.incomplete = incomplete])
         \/ Continue("close", Fail(turn, "OUTPUT")) /\ UNCHANGED working
         \/ Continue("close", Fail(turn, "FATAL")) /\ UNCHANGED working
  BY DEF Output, AsStored, historyVars
<1>2. /\ turn \in Turns /\ Open /\ Fits /\ turn.generated < turn.limit
      /\ working \in Seq(Vocab) /\ Evaluating(working) /\ engine.position = Len(working)
      /\ engine.reserve = turn.limit /\ engine.emitted = turn.generated + 1
      /\ turn.previous \in Vocab
  BY <1>1 DEF ReplInv, Standing, Replying, Drawn
<1>3. stored \in Vocab /\ stored = AsStored(turn.previous)
  BY <1>2, VocabAssumption DEF AsStored, IM_END
<1> HIDE DEF stored
<1>4. CASE /\ working' = Append(working, stored)
           /\ \E incomplete \in BOOLEAN :
                 Continue("advance", [turn EXCEPT !.generated = @ + 1,
                                                  !.incomplete = incomplete])
  <2>1. PICK incomplete \in BOOLEAN :
            /\ pc' = "advance"
            /\ turn' = [turn EXCEPT !.generated = @ + 1, !.incomplete = incomplete]
    BY <1>4 DEF Continue
  <2>2. Advanced(turn, turn')
    BY <1>2, <2>1, TurnAdvanced, Zenon
  <2>3. /\ working' \in Seq(Vocab) /\ Len(working') = Len(working) + 1
        /\ \A i \in 1 .. Len(working) : working'[i] = working[i]
        /\ working'[Len(working')] = stored
    BY <1>2, <1>3, <1>4, AppendProperties
  <2>4. Standing'
    BY <1>1, <1>2, <2>2, <2>3 DEF ReplInv, Standing, Advanced, Open
  <2>5. Fits'
    <3>1. Len(Prefix) \in Nat
      BY PrefixFacts, MaxTokensAssumption
    <3>2. StartsWith(working', Prefix)
      BY <1>2, <2>3, <3>1 DEF Fits, StartsWith
    <3> QED
      BY <1>2, <2>2, <2>3, <3>2 DEF Fits, Turns, Advanced
  <2>6. Replying'
    BY <1>2, <2>1, <2>2, <2>5 DEF Replying, Open, Advanced
  <2>7. Evaluating(working')
    BY <1>2, <2>3 DEF Evaluating, KvHolds
  <2>8. Stored'
    <3>1. Evaluating(working)'
      BY <1>1, <2>7 DEF Evaluating, KvHolds
    <3>2. engine.position = Len(working') - 1 /\ engine.emitted = turn'.generated
      BY <1>2, <2>2, <2>3 DEF Advanced, Turns
    <3>3. working'[Len(working')] = AsStored(turn'.previous)
      BY <1>3, <2>2, <2>3 DEF Advanced
    <3>4. engine.reserve = turn'.limit /\ turn'.previous \in Vocab
      BY <1>2, <2>2 DEF Advanced
    <3> QED
      BY <1>1, <2>1, <3>1, <3>2, <3>3, <3>4 DEF Stored, AsStored, StopTokens, IM_END
  <2> QED
    BY <2>1, <2>4, <2>6, <2>8
       DEF ReplInv, Resting, Tokenizing, Prompted, Starting, Drawn, Closing
<1>5. CASE /\ UNCHANGED working /\ pc' = "close"
           /\ turn' = Fail(turn, "OUTPUT") \/ turn' = Fail(turn, "FATAL")
  BY <1>1, <1>5, LeftFailing
<1> QED
  BY <1>1, <1>4, <1>5 DEF Continue

LEMMA StatusFailsInv ==
    ASSUME ReplInv, StatusFails
    PROVE  ReplInv'
  BY LeftFailing DEF StatusFails, Continue, historyVars

LEMMA NextTokenInv ==
    ASSUME ReplInv, NextToken
    PROVE  ReplInv'
<1>1. /\ pc = "advance" /\ pc' = "poll" /\ turn' = turn
      /\ turn.previous \notin StopTokens
      /\ UNCHANGED <<engine, committed, cached_len, working>>
  BY DEF NextToken, Continue, historyVars
<1>2. Standing'
  BY <1>1 DEF ReplInv, Standing
<1>3. Replying'
  BY <1>1 DEF ReplInv, Replying, Open, Fits
<1>4. Stored'
  BY <1>1 DEF ReplInv, Stored, AsStored, Evaluating, KvHolds
<1>5. turn.generated > 0
  <2>1. /\ turn \in Turns /\ Fits /\ Evaluating(working) /\ Sound(engine)
        /\ engine.state \in {"READY", "EOS"} /\ engine.emitted = turn.generated
    BY <1>1 DEF ReplInv, Standing, Replying, Stored, Evaluating
  <2> QED
    BY <2>1 DEF Sound, Budgeted, Engines
<1>6. Starting'
  BY <1>1, <1>5 DEF Starting
<1> QED
  BY <1>1, <1>2, <1>3, <1>4, <1>6
     DEF ReplInv, Resting, Tokenizing, Prompted, Drawn, Closing

-----------------------------------------------------------------------------
(* The end of a turn.                                                       *)

LEMMA CommitReplyInv ==
    ASSUME ReplInv, CommitReply
    PROVE  ReplInv'
<1>1. /\ pc = "advance" /\ pc' = "close" /\ CanCommit
      /\ turn' = [turn EXCEPT !.committed = TRUE]
      /\ committed' = working
      /\ UNCHANGED <<engine, cached_len, working>>
  BY DEF CommitReply, Continue
<1>2. /\ turn \in Turns /\ turn.error = "none" /\ Fits /\ working \in Seq(Vocab)
      /\ Evaluating(working) /\ engine.position = Len(working) - 1
  BY <1>1 DEF ReplInv, Standing, Replying, Open, Stored
<1>3. turn' \in Turns /\ turn'.error = "none"
  BY <1>1, <1>2 DEF Turns
<1>4. Conversation(working) /\ working # << >>
  <2>1. Len(Prefix) \in Nat /\ Context \in Nat /\ Len(working) \in Nat
    BY <1>2, PrefixFacts, MaxTokensAssumption, ContextAssumption
  <2>2. Len(Prefix) < Len(working) /\ Len(working) <= Context /\ working[Len(working)] = IM_END
    BY <1>1, <1>2, <2>1 DEF CanCommit, Fits, Turns
  <2> QED
    BY <1>2, <2>1, <2>2 DEF Conversation, Fits
<1>5. Standing'
  BY <1>1, <1>3, <1>4 DEF ReplInv, Standing
<1>6. Closing'
  BY <1>1, <1>2, <1>3, <1>4 DEF Closing, Evaluating, KvHolds
<1> QED
  BY <1>1, <1>5, <1>6
     DEF ReplInv, Resting, Tokenizing, Prompted, Replying, Starting, Drawn, Stored

\* The stored stop token is always IM_END and fits: only a cut-off UTF-8 sequence
\* keeps a reply from being committed.
LEMMA CommitFailsInv ==
    ASSUME ReplInv, CommitFails
    PROVE  ReplInv'
<1>1. /\ pc = "advance" /\ pc' = "close"
      /\ UNCHANGED <<engine, committed, cached_len, working>>
      /\ turn.incomplete \/ ~CanCommit
      /\ turn' = Fail(turn, IF turn.incomplete THEN "UTF8_INCOMPLETE" ELSE "HISTORY_STATE")
      /\ turn.previous \in StopTokens
  BY DEF CommitFails, Continue, historyVars
<1>2. /\ turn \in Turns /\ Fits /\ working \in Seq(Vocab)
      /\ turn.previous \in StopTokens => working[Len(working)] = IM_END
  BY <1>1 DEF ReplInv, Standing, Replying, Stored, AsStored
<1>3. CanCommit
  <2>1. Len(Prefix) \in Nat /\ Context \in Nat /\ Len(working) \in Nat
    BY <1>2, PrefixFacts, MaxTokensAssumption, ContextAssumption
  <2>2. Len(working) \in 1 .. Context
    BY <1>2, <2>1 DEF Fits, Turns
  <2> QED
    BY <1>1, <1>2, <2>2 DEF CanCommit
<1>4. turn' = Fail(turn, "UTF8_INCOMPLETE")
  BY <1>1, <1>3
<1> QED
  BY <1>1, <1>4, LeftFailing

\* A committed turn finds the engine in front of the stop token.
LEMMA CloseErrorSound ==
    ASSUME ReplInv, pc = "close"
    PROVE  /\ CloseError \in ErrorCodes \ {"HISTORY_STATE"}
           /\ turn.committed => CloseError = "none"
<1>1. /\ turn \in Turns /\ turn.error # "HISTORY_STATE" /\ turn.error \in ErrorCodes
      /\ turn.committed => turn.error = "none" /\ engine.position = Len(committed) - 1
  BY DEF ReplInv, Standing, Closing, Turns
<1>2. CASE turn.error # "none"
  BY <1>1, <1>2, Zenon DEF CloseError
<1>3. CASE turn.error = "none" /\ turn.committed
  BY <1>1, <1>3 DEF CloseError, ErrorCodes
<1>4. CASE turn.error = "none" /\ ~turn.committed
  BY <1>1, <1>4 DEF CloseError, ErrorCodes
<1> QED
  BY <1>2, <1>3, <1>4

LEMMA CloseTurnInv ==
    ASSUME ReplInv, CloseTurn
    PROVE  ReplInv'
<1>1. /\ pc = "close" /\ committed' = committed /\ working' = << >> /\ pc' = "finish"
      /\ IF turn.committed
         THEN IF CloseError = "none"
              THEN cached_len' = Len(committed) - 1 /\ UNCHANGED engine
              ELSE ResetEngineFresh
         ELSE ResetEngine
      /\ \E reported \in BOOLEAN :
            \/ turn' = [Fail(turn, CloseError) EXCEPT !.reported = reported]
            \/ turn' = [Fail(turn, IF CloseError = "none" THEN "FATAL" ELSE CloseError)
                           EXCEPT !.reported = reported]
  BY DEF CloseTurn, Continue, historyVars
<1>2. /\ CloseError \in ErrorCodes \ {"HISTORY_STATE"}
      /\ turn.committed => CloseError = "none"
  BY <1>1, CloseErrorSound
<1>3. turn \in Turns
  BY DEF ReplInv, Standing
<1>4. turn' \in Turns /\ turn'.error # "HISTORY_STATE"
  <2> DEFINE code == IF CloseError = "none" THEN "FATAL" ELSE CloseError
  <2>1. code \in ErrorCodes \ {"HISTORY_STATE"}
    BY <1>2 DEF ErrorCodes
  <2>2. PICK reported \in BOOLEAN :
            \/ turn' = [Fail(turn, CloseError) EXCEPT !.reported = reported]
            \/ turn' = [Fail(turn, code) EXCEPT !.reported = reported]
    BY <1>1
  <2> HIDE DEF code
  <2>3. \/ FailsWith(turn, turn', CloseError)
        \/ FailsWith(turn, turn', code)
    BY <1>2, <1>3, <2>1, <2>2, TurnClosed
  <2> QED
    BY <1>2, <2>1, <2>3 DEF FailsWith
<1>5. CASE turn.committed
  <2>1. cached_len' = Len(committed) - 1 /\ UNCHANGED engine
    BY <1>1, <1>2, <1>5
  <2>2. /\ committed # << >> /\ engine.position = Len(committed) - 1
        /\ Evaluating(committed)
    BY <1>1, <1>5 DEF ReplInv, Closing
  <2>3. Standing'
    BY <1>1, <1>4, <2>1 DEF ReplInv, Standing
  <2>4. Resting'
    BY <1>1, <2>1, <2>2 DEF Resting, Cached, Evaluating, KvHolds
  <2> QED
    BY <1>1, <2>3, <2>4
       DEF ReplInv, Tokenizing, Prompted, Replying, Starting, Drawn, Stored, Closing
<1>6. CASE ~turn.committed
  <2>1. engine' = reset_to_prefix(engine) /\ cached_len' = 0
    BY <1>1, <1>6 DEF ResetEngine
  <2>2. Rewound(engine')
    BY <2>1, ResetsRewind DEF ReplInv, Standing
  <2> QED
    BY <1>1, <1>4, <2>1, <2>2, AbandonedInv
<1> QED
  BY <1>5, <1>6

LEMMA FinishTurnInv ==
    ASSUME ReplInv, FinishTurn
    PROVE  ReplInv'
<1>1. /\ pc = "finish" /\ pc' \in {"idle", "stopped"} /\ turn' = NoTurn
      /\ working' = << >>
      /\ UNCHANGED <<engine, committed, cached_len>>
  BY DEF FinishTurn, Continue, historyVars
<1>2. Standing'
  <2>1. turn' \in Turns /\ turn'.error # "HISTORY_STATE"
    BY <1>1, NoTurnIsTurn
  <2> QED
    BY <1>1, <2>1 DEF ReplInv, Standing
<1>3. Resting'
  BY <1>1 DEF ReplInv, Resting, Cached, Evaluating, KvHolds
<1> QED
  BY <1>1, <1>2, <1>3
     DEF ReplInv, Tokenizing, Prompted, Replying, Starting, Drawn, Stored, Closing

LEMMA NewSessionInv ==
    ASSUME ReplInv, NewSession
    PROVE  ReplInv'
<1>1. /\ pc = "idle" /\ pc' \in {"idle", "stopped"} /\ turn' = turn /\ working' = << >>
      /\ engine' = reset_state(engine) /\ cached_len' = 0 /\ committed' = << >>
  BY DEF NewSession, ResetEngineFresh
<1>2. Rewound(engine')
  BY <1>1, ResetsRewind DEF ReplInv, Standing
<1>3. Standing'
  BY <1>1, <1>2 DEF ReplInv, Standing, Rewound, Conversation
<1>4. Resting'
  BY <1>1, <1>2 DEF Resting, Cached, Rewound
<1> QED
  BY <1>1, <1>3, <1>4
     DEF ReplInv, Tokenizing, Prompted, Replying, Starting, Drawn, Stored, Closing

LEMMA InputFailsInv ==
    ASSUME ReplInv, InputFails
    PROVE  ReplInv'
<1>1. /\ pc = "idle" /\ pc' = "stopped"
      /\ UNCHANGED <<engine, committed, cached_len, working, turn>>
  BY DEF InputFails, historyVars
<1>2. Standing' /\ Resting'
  BY <1>1 DEF ReplInv, Standing, Resting, Cached, Evaluating, KvHolds
<1> QED
  BY <1>1, <1>2
     DEF ReplInv, Tokenizing, Prompted, Replying, Starting, Drawn, Stored, Closing

LEMMA StutterInv ==
    ASSUME ReplInv, UNCHANGED replVars
    PROVE  ReplInv'
<1>1. UNCHANGED <<engine, committed, cached_len, working, pc, turn>>
  BY DEF replVars, historyVars
<1> QED
  BY <1>1 DEF ReplInv, Standing, Resting, Cached, Tokenizing, Prompted, Replying, Fits,
              Starting, Drawn, Stored, AsStored, Closing, Open, Evaluating, KvHolds

-----------------------------------------------------------------------------
(* The theorems.                                                            *)

LEMMA ReplInvStep == ReplInv /\ [ReplNext]_replVars => ReplInv'
<1> SUFFICES ASSUME ReplInv, [ReplNext]_replVars PROVE ReplInv'
  OBVIOUS
<1>1. CASE \E user \in UserTexts : Accept(user)
  BY <1>1, AcceptInv
<1>2. CASE NewSession
  BY <1>2, NewSessionInv
<1>3. CASE InputFails
  BY <1>3, InputFailsInv
<1>4. CASE TokenizeFails
  BY <1>4, TokenizeFailsInv
<1>5. CASE UsePrompt
  BY <1>5, UsePromptInv
<1>6. CASE ResetHistory
  BY <1>6, ResetHistoryInv
<1>7. CASE RejectPrompt
  BY <1>7, RejectPromptInv
<1>8. CASE BeginGeneration
  BY <1>8, BeginGenerationInv
<1>9. CASE StartRecordFails
  BY <1>9, StartRecordFailsInv
<1>10. CASE Poll
  BY <1>10, PollInv
<1>11. CASE LimitReached
  BY <1>11, LimitReachedInv
<1>12. CASE Infer
  BY <1>12, InferInv
<1>13. CASE Output
  BY <1>13, OutputInv
<1>14. CASE StatusFails
  BY <1>14, StatusFailsInv
<1>15. CASE NextToken
  BY <1>15, NextTokenInv
<1>16. CASE CommitReply
  BY <1>16, CommitReplyInv
<1>17. CASE CommitFails
  BY <1>17, CommitFailsInv
<1>18. CASE CloseTurn
  BY <1>18, CloseTurnInv
<1>19. CASE FinishTurn
  BY <1>19, FinishTurnInv
<1>20. CASE UNCHANGED replVars
  BY <1>20, StutterInv
<1> QED
  BY <1>1, <1>2, <1>3, <1>4, <1>5, <1>6, <1>7, <1>8, <1>9, <1>10, <1>11, <1>12, <1>13,
     <1>14, <1>15, <1>16, <1>17, <1>18, <1>19, <1>20 DEF ReplNext, InputStep, TurnStep

\* Engine, history, cache and turn agree at every point of the controller.
THEOREM ReplInvariance == ReplSteps => []ReplInv
  BY InitInv, ReplInvStep, PTL DEF ReplSteps

\* A reply is computed from its prompt and from what was said of it before: nothing of
\* an abandoned turn, of another history or of an older prefix is attended to.
THEOREM AttendsToPromptAlways == ReplSteps => []AttendsToPrompt
<1>1. ReplInv => AttendsToPrompt
  <2> SUFFICES ASSUME ReplInv,
                      pc \in {"poll", "infer", "poll_again", "output", "advance"}
               PROVE  KvHolds(working, engine.position)
    BY DEF AttendsToPrompt
  <2>1. CASE pc \in {"poll_again", "output"}
    BY <2>1 DEF ReplInv, Drawn, Evaluating
  <2>2. CASE pc = "advance"
    BY <2>2 DEF ReplInv, Stored, Evaluating
  <2>3. CASE pc \in {"poll", "infer"}
    <3>1. turn.generated = 0 \/ turn.generated > 0
      BY DEF ReplInv, Standing, Turns
    <3> QED
      BY <2>3, <3>1 DEF ReplInv, Starting, Stored, Evaluating
  <2> QED
    BY <2>1, <2>2, <2>3
<1> QED
  BY <1>1, ReplInvariance, PTL

\* Between turns the cache is the committed conversation up to its last stop token,
\* or nothing of it.
THEOREM CacheAlwaysCommitted == ReplSteps => []CacheIsCommitted
<1>1. ReplInv => CacheIsCommitted
  <2> SUFFICES ASSUME ReplInv, pc = "idle"
               PROVE  \/ /\ cached_len = 0
                         /\ engine.state = "RESET"
                         /\ engine.position \in {0, Len(Prefix)}
                      \/ /\ cached_len = Len(committed) - 1
                         /\ cached_len = engine.position
                         /\ engine.state \in {"READY", "EOS"}
                         /\ KvHolds(committed, cached_len)
    BY DEF CacheIsCommitted
  <2>1. Cached /\ Sound(engine) /\ engine.prefix \in {<< >>, Prefix}
    BY DEF ReplInv, Resting, Standing
  <2>2. CASE cached_len = 0 /\ engine.state = "RESET"
    <3>1. engine.position = Len(engine.prefix)
      BY <2>1, <2>2 DEF Sound, ResetAligned
    <3> QED
      BY <2>1, <2>2, <3>1
  <2> QED
    BY <2>1, <2>2 DEF Cached, Evaluating
<1> QED
  BY <1>1, ReplInvariance, PTL

\* No sequence of turns, interrupts, errors and resets trips the defensive checks: the
\* history is never found inconsistent, and the engine refuses no call.
THEOREM ChecksFireNever == ReplSteps => []ChecksNeverFire
<1>1. ReplInv => ChecksNeverFire
  BY DEF ReplInv, Standing, Closing, ChecksNeverFire
<1> QED
  BY <1>1, ReplInvariance, PTL

-----------------------------------------------------------------------------
(* Survival.                                                                *)

\* Without failing devices no step of a turn fails for good.
LEMMA SurvivesStep == ReplInv /\ Survives /\ [ReplNext]_replVars => Survives'
<1> SUFFICES ASSUME ReplInv, Survives, [ReplNext]_replVars, ~ioFaults'
             PROVE  pc' # "stopped" /\ turn'.error # "FATAL"
  BY DEF Survives
<1>0. turn \in Turns /\ turn.error \in ErrorCodes
  BY DEF ReplInv, Standing, Turns
<1>1. ~ioFaults /\ pc # "stopped" /\ turn.error # "FATAL"
  BY DEF ReplNext, InputStep, TurnStep, replVars, Survives
<1>2. ASSUME NEW code \in ErrorCodes \ {"FATAL"}
      PROVE  Fail(turn, code).error # "FATAL"
  BY <1>0, TurnFailed DEF FailsWith
<1>3. NoTurn.error # "FATAL"
  BY NoTurnIsTurn
<1>4. CASE \E user \in UserTexts : Accept(user)
  <2>1. PICK user \in UserTexts : Accept(user)
    BY <1>4
  <2>2. user \in Seq(Vocab)
    BY TemplateAssumption
  <2>3. [NoTurn EXCEPT !.user = user].error = "none"
    BY <2>2, TurnBegun
  <2>4. pc' = "tokenize" /\ turn' = [NoTurn EXCEPT !.user = user]
    BY <1>1, <2>1 DEF Accept, Continue
  <2> QED
    BY <2>3, <2>4
<1>5. CASE NewSession \/ InputFails \/ UNCHANGED replVars
  BY <1>1, <1>5 DEF NewSession, InputFails, replVars
<1>6. CASE TokenizeFails
  BY <1>2, <1>6 DEF TokenizeFails, Continue, ErrorCodes
<1>7. CASE UsePrompt \/ ResetHistory
  <2>1. pc' = "generate"
    BY <1>1, <1>7 DEF UsePrompt, ResetHistory, PromptReady, Continue
  <2>2. PICK count : turn' = [turn EXCEPT !.prompt_count = count]
    BY <1>1, <1>7 DEF UsePrompt, ResetHistory, PromptReady, Continue
  <2>3. turn'.error = turn.error
    BY <1>0, <2>2 DEF Turns
  <2> QED
    BY <1>1, <2>1, <2>3
<1>8. CASE RejectPrompt \/ StartRecordFails \/ LimitReached \/ StatusFails \/ NextToken
  BY <1>1, <1>8 DEF RejectPrompt, StartRecordFails, LimitReached, StatusFails, NextToken,
                    Continue
<1>9. CASE BeginGeneration
  <2>1. AppendStart # -1 /\ pc' = "poll"
    BY <1>9, StartFound DEF BeginGeneration, Continue
  <2>2. turn' = [turn EXCEPT !.append = (cached_len # 0), !.start = AppendStart,
                             !.limit = GenerationLimit]
    BY <1>9, <2>1, Zenon DEF BeginGeneration, Continue
  <2>3. turn'.error = turn.error
    BY <1>0, <2>2 DEF Turns
  <2> QED
    BY <1>1, <2>1, <2>3
<1>10. CASE Poll
  <2>1. /\ pc' \in {"infer", "output", "close"}
        /\ turn' = turn \/ turn' = [turn EXCEPT !.interrupted = TRUE]
    BY <1>1, <1>10 DEF Poll, Continue
  <2>2. turn'.error = turn.error
    BY <1>0, <2>1 DEF Turns
  <2> QED
    BY <1>1, <2>1, <2>2
<1>11. CASE Infer
  <2>1. /\ pc' \in {"poll_again", "close"}
        /\ \/ \E token \in Sampled : turn' = [turn EXCEPT !.previous = token]
           \/ turn' = Fail(turn, "SAMPLE")
           \/ turn' = Fail(turn, "INFERENCE")
    BY <1>1, <1>11 DEF Infer, Continue
  <2>2. CASE \E token \in Sampled : turn' = [turn EXCEPT !.previous = token]
    BY <1>0, <1>1, <2>1, <2>2 DEF Turns
  <2>3. CASE turn' = Fail(turn, "SAMPLE") \/ turn' = Fail(turn, "INFERENCE")
    BY <1>2, <2>1, <2>3 DEF ErrorCodes
  <2> QED
    BY <2>1, <2>2, <2>3
<1>12. CASE Output
  <2>1. /\ pc' \in {"advance", "close"}
        /\ \/ \E incomplete \in BOOLEAN :
                 turn' = [turn EXCEPT !.generated = @ + 1, !.incomplete = incomplete]
           \/ turn' = Fail(turn, "OUTPUT")
    BY <1>1, <1>12 DEF Output, Continue
  <2>2. CASE \E incomplete \in BOOLEAN :
                 turn' = [turn EXCEPT !.generated = @ + 1, !.incomplete = incomplete]
    BY <1>0, <1>1, <2>1, <2>2 DEF Turns
  <2>3. CASE turn' = Fail(turn, "OUTPUT")
    BY <1>2, <2>1, <2>3 DEF ErrorCodes
  <2> QED
    BY <2>1, <2>2, <2>3
<1>13. CASE CommitReply
  <2>1. pc' = "close" /\ turn' = [turn EXCEPT !.committed = TRUE]
    BY <1>13 DEF CommitReply, Continue
  <2> QED
    BY <1>0, <1>1, <2>1 DEF Turns
<1>14. CASE CommitFails
  <2>1. /\ pc' = "close"
        /\ turn' = Fail(turn, "UTF8_INCOMPLETE") \/ turn' = Fail(turn, "HISTORY_STATE")
    BY <1>14 DEF CommitFails, Continue
  <2> QED
    BY <1>2, <2>1 DEF ErrorCodes
<1>15. CASE CloseTurn
  <2>1. /\ pc = "close" /\ pc' = "finish"
        /\ turn' = [Fail(turn, CloseError) EXCEPT !.reported = TRUE]
    BY <1>1, <1>15 DEF CloseTurn, Continue
  <2>2. CloseError \in ErrorCodes /\ CloseError # "FATAL"
    <3>1. CASE turn.error # "none"
      BY <1>0, <1>1, <3>1, Zenon DEF CloseError
    <3>2. CASE turn.error = "none"
      BY <3>2 DEF CloseError, ErrorCodes
    <3> QED
      BY <3>1, <3>2
  <2>3. FailsWith(turn, turn', CloseError)
    BY <1>0, <2>1, <2>2, TurnClosed
  <2> QED
    BY <2>1, <2>2, <2>3 DEF FailsWith
<1>16. CASE FinishTurn
  BY <1>1, <1>3, <1>16 DEF FinishTurn, Continue
<1> QED
  BY <1>4, <1>5, <1>6, <1>7, <1>8, <1>9, <1>10, <1>11, <1>12, <1>13, <1>14, <1>15, <1>16
     DEF ReplNext, InputStep, TurnStep

\* Failures of evaluation, sampling, tokenizing and decoding are survived, whatever they
\* come together with: only a failing device ends the REPL.
THEOREM AlwaysKeepsRunning == ReplSteps => []KeepsRunning
<1>1. ReplInit => Survives
  BY NoTurnIsTurn DEF ReplInit, Survives
<1>2. Survives => KeepsRunning
  BY DEF Survives, KeepsRunning
<1> QED
  BY <1>1, <1>2, ReplInvariance, SurvivesStep, PTL DEF ReplSteps

-----------------------------------------------------------------------------
(* The controller implements the conversation of Chat.                      *)

Asked == Rendered(committed, turn.user)

\* The reply so far follows the prompt of this turn's question and holds no stop token,
\* but for the one just stored.
Replied ==
    /\ turn.limit <= Reserve
    /\ turn.prompt_count = Len(Asked)
    /\ StartsWith(working, Asked)
    /\ \A i \in Len(Asked) + 1 .. Len(working) - (IF pc = "advance" THEN 1 ELSE 0) :
          working[i] \notin StopTokens

Dialogue ==
    /\ pc \in {"idle", "stopped"} => turn = NoTurn
    /\ pc = "generate" => working = Asked
    /\ pc \in {"poll", "infer", "poll_again", "output", "advance"} => Replied

\* A step within a turn that leaves question, history and answer as they are.
SameDialogue ==
    /\ pc \notin {"idle", "stopped"} /\ pc' \notin {"idle", "stopped"}
    /\ turn'.user = turn.user /\ turn'.committed = turn.committed
    /\ committed' = committed

LEMMA SameStutters == SameDialogue => UNCHANGED Chat!chatVars
  BY DEF SameDialogue, Chat!chatVars, ChatPhase

\* What follows when such a step leaves the loop of generate.
LEMMA SameEnds ==
    ASSUME SameDialogue, pc' \in {"close", "finish"}
    PROVE  Dialogue' /\ UNCHANGED Chat!chatVars
<1>1. Dialogue'
  BY DEF Dialogue
<1> QED
  BY <1>1, SameStutters

LEMMA FailsSame ==
    ASSUME NEW t \in Turns, NEW code
    PROVE  Fail(t, code).user = t.user /\ Fail(t, code).committed = t.committed
  BY DEF Fail, Turns

\* The steps that end the turn's work, and those that fail.
LEMMA EndsDialogue ==
    ASSUME ReplInv, pc' \in {"close", "finish"},
           \/ TokenizeFails \/ UsePrompt \/ RejectPrompt \/ BeginGeneration
           \/ StartRecordFails \/ Poll \/ LimitReached \/ Infer \/ Output
           \/ StatusFails \/ CommitFails \/ CloseTurn
    PROVE  Dialogue' /\ UNCHANGED Chat!chatVars
<1>0. turn \in Turns
  BY DEF ReplInv, Standing
<1>1. /\ pc \notin {"idle", "stopped"} /\ committed' = committed
  BY DEF TokenizeFails, UsePrompt, RejectPrompt, BeginGeneration, StartRecordFails, Poll,
         LimitReached, Infer, Output, StatusFails, CommitFails, CloseTurn, historyVars
<1>2. CASE CloseTurn
  <2>1. PICK code, reported : turn' = [Fail(turn, code) EXCEPT !.reported = reported]
    BY <1>2 DEF CloseTurn, Continue
  <2> DEFINE f == Fail(turn, code)
  <2>2. /\ f.user = turn.user /\ f.committed = turn.committed
        /\ [f EXCEPT !.reported = reported].user = f.user
        /\ [f EXCEPT !.reported = reported].committed = f.committed
    BY <1>0, FailsSame DEF Fail, Turns
  <2> QED
    BY <1>1, <2>1, <2>2, SameEnds DEF SameDialogue
<1>3. CASE ~CloseTurn
  <2>1. \/ \E code : turn' = Fail(turn, code)
        \/ turn' = turn
        \/ turn' = [turn EXCEPT !.interrupted = TRUE]
    BY <1>3 DEF TokenizeFails, UsePrompt, RejectPrompt, BeginGeneration, StartRecordFails,
         Poll, LimitReached, Infer, Output, StatusFails, CommitFails, Continue, PromptReady
  <2>2. turn'.user = turn.user /\ turn'.committed = turn.committed
    BY <1>0, <2>1, FailsSame DEF Turns
  <2> QED
    BY <1>1, <2>2, SameEnds DEF SameDialogue
<1> QED
  BY <1>2, <1>3

\* The other steps within a turn.
LEMMA PromptSame ==
    ASSUME ReplInv, UsePrompt, pc' = "generate"
    PROVE  Dialogue' /\ UNCHANGED Chat!chatVars
<1>1. /\ pc = "tokenize" /\ committed' = committed
      /\ working' = Rendered(committed, turn.user)
      /\ turn' = [turn EXCEPT !.prompt_count = Len(Rendered(committed, turn.user))]
  BY DEF UsePrompt, PromptReady, Continue, historyVars
<1>2. turn'.user = turn.user /\ turn'.committed = turn.committed
  BY <1>1 DEF ReplInv, Standing, Turns
<1>3. Dialogue'
  BY <1>1, <1>2 DEF Dialogue, Asked, Rendered
<1> QED
  BY <1>1, <1>2, <1>3, SameStutters DEF SameDialogue

LEMMA BeginSame ==
    ASSUME ReplInv, Dialogue, BeginGeneration, pc' = "poll"
    PROVE  Dialogue' /\ UNCHANGED Chat!chatVars
<1>1. pc = "generate" /\ AppendStart # -1 /\ Stands(AppendStart)
  BY StartFound DEF BeginGeneration
<1>2. /\ turn' = [turn EXCEPT !.append = (cached_len # 0), !.start = AppendStart,
                              !.limit = GenerationLimit]
      /\ UNCHANGED <<committed, working>>
  BY <1>1, Zenon DEF BeginGeneration, Continue, historyVars
<1>3. /\ Sound(engine) /\ turn \in Turns /\ working \in Seq(Vocab) /\ working = Asked
      /\ turn.prompt_count = Len(working)
  BY <1>1 DEF ReplInv, Standing, Prompted, Dialogue
<1>4. AppendStart \in Int /\ GenerationLimit \in Int /\ GenerationLimit <= Reserve
      /\ (cached_len # 0) \in BOOLEAN
  BY <1>1, <1>3, ContextAssumption, ReserveAssumption
     DEF Stands, Sound, Engines, GenerationLimit
<1>5. Planned(turn, turn', cached_len # 0, AppendStart, GenerationLimit)
  BY <1>2, <1>3, <1>4, TurnPlanned, Zenon
<1>6. Asked' = Asked
  BY <1>2, <1>5 DEF Asked, Rendered, Planned
<1>7. Dialogue'
  BY <1>2, <1>3, <1>4, <1>5, <1>6 DEF Dialogue, Replied, StartsWith, Planned
<1> QED
  BY <1>1, <1>2, <1>5, <1>7, SameStutters DEF SameDialogue, Planned

LEMMA PollSame ==
    ASSUME ReplInv, Dialogue, Poll, pc' \notin {"close", "finish"}
    PROVE  Dialogue' /\ UNCHANGED Chat!chatVars
<1>1. /\ pc \in {"poll", "poll_again"} /\ pc' \in {"infer", "output"} /\ turn' = turn
      /\ UNCHANGED <<committed, working>>
  BY DEF Poll, Continue, historyVars
<1>2. Dialogue'
  BY <1>1 DEF Dialogue, Replied, StartsWith, Asked, Rendered
<1> QED
  BY <1>1, <1>2, SameStutters DEF SameDialogue

LEMMA InferSame ==
    ASSUME ReplInv, Dialogue, Infer, pc' \notin {"close", "finish"}
    PROVE  Dialogue' /\ UNCHANGED Chat!chatVars
<1>1. /\ pc = "infer" /\ pc' = "poll_again" /\ UNCHANGED <<committed, working>>
      /\ \E token : turn' = [turn EXCEPT !.previous = token]
  BY DEF Infer, Continue, historyVars
<1>2. /\ turn'.user = turn.user /\ turn'.committed = turn.committed
      /\ turn'.limit = turn.limit /\ turn'.prompt_count = turn.prompt_count
  BY <1>1 DEF ReplInv, Standing, Turns
<1>3. Dialogue'
  BY <1>1, <1>2 DEF Dialogue, Replied, StartsWith, Asked, Rendered
<1> QED
  BY <1>1, <1>2, <1>3, SameStutters DEF SameDialogue

LEMMA OutputSame ==
    ASSUME ReplInv, Dialogue, Output, pc' \notin {"close", "finish"}
    PROVE  Dialogue' /\ UNCHANGED Chat!chatVars
<1>1. /\ pc = "output" /\ pc' = "advance" /\ committed' = committed
      /\ working' = Append(working, AsStored(turn.previous))
      /\ \E incomplete \in BOOLEAN :
            turn' = [turn EXCEPT !.generated = @ + 1, !.incomplete = incomplete]
  BY DEF Output, AsStored, Continue, historyVars
<1>2. /\ turn \in Turns /\ working \in Seq(Vocab) /\ turn.previous \in Vocab /\ Replied
  BY <1>1 DEF ReplInv, Standing, Drawn, Dialogue
<1>3. AsStored(turn.previous) \in Vocab
  BY <1>2, VocabAssumption DEF AsStored, IM_END
<1>4. Advanced(turn, turn')
  BY <1>1, <1>2, TurnAdvanced, Zenon
<1>5. /\ working' \in Seq(Vocab) /\ Len(working') = Len(working) + 1
      /\ \A i \in 1 .. Len(working) : working'[i] = working[i]
  BY <1>1, <1>2, <1>3, AppendProperties
<1>6. Asked' = Asked
  BY <1>1, <1>4 DEF Asked, Rendered, Advanced
<1>7. Asked \in Seq(Vocab)
  BY RenderedBehind DEF ReplInv, Standing, Turns, Asked, PromptBehind
<1>8. Replied'
  <2>1. StartsWith(working, Asked)'
    BY <1>2, <1>5, <1>6, <1>7 DEF Replied, StartsWith
  <2>2. \A i \in Len(Asked) + 1 .. Len(working') - 1 : working'[i] \notin StopTokens
    BY <1>1, <1>2, <1>5, <1>7 DEF Replied
  <2> QED
    BY <1>1, <1>2, <1>4, <1>6, <2>1, <2>2 DEF Replied, Advanced, StopTokens, IM_END
<1>9. Dialogue'
  BY <1>1, <1>8 DEF Dialogue
<1> QED
  BY <1>1, <1>4, <1>9, SameStutters DEF SameDialogue, Advanced

LEMMA NextTokenSame ==
    ASSUME ReplInv, Dialogue, NextToken
    PROVE  Dialogue' /\ UNCHANGED Chat!chatVars
<1>1. /\ pc = "advance" /\ pc' = "poll" /\ turn' = turn
      /\ turn.previous \notin StopTokens
      /\ UNCHANGED <<committed, working>>
  BY DEF NextToken, Continue, historyVars
<1>2. /\ working \in Seq(Vocab) /\ working[Len(working)] = turn.previous /\ Replied
  BY <1>1 DEF ReplInv, Standing, Stored, AsStored, Dialogue
<1>3. Asked \in Seq(Vocab)
  BY RenderedBehind DEF ReplInv, Standing, Turns, Asked, PromptBehind
<1>4. \A i \in Len(Asked) + 1 .. Len(working) : working[i] \notin StopTokens
  <2> SUFFICES ASSUME NEW i \in Len(Asked) + 1 .. Len(working)
               PROVE  working[i] \notin StopTokens
    OBVIOUS
  <2>1. CASE i = Len(working)
    BY <1>1, <1>2, <2>1
  <2>2. CASE i # Len(working)
    <3>1. i \in Len(Asked) + 1 .. Len(working) - 1
      BY <1>2, <1>3, <2>2
    <3> QED
      BY <1>1, <1>2, <3>1 DEF Replied
  <2> QED
    BY <2>1, <2>2
<1>5. Asked' = Asked /\ StopTokens' = StopTokens
  BY <1>1 DEF Asked, Rendered, StopTokens, IM_END
<1>6. Dialogue'
  BY <1>1, <1>2, <1>4, <1>5 DEF Dialogue, Replied, StartsWith
<1> QED
  BY <1>1, <1>6, SameStutters DEF SameDialogue

\* The steps that begin and end a turn.
LEMMA AcceptAsks ==
    ASSUME ReplInv, Dialogue, NEW user \in UserTexts, Accept(user)
    PROVE  Dialogue' /\ [Chat!Next]_(Chat!chatVars)
<1> DEFINE begun == [NoTurn EXCEPT !.user = user]
<1>1. /\ pc = "idle" /\ committed' = committed
      /\ \/ pc' = "tokenize" /\ turn' = begun
         \/ pc' = "finish" /\ turn' = Fail(begun, "FATAL")
         \/ pc' = "stopped" /\ turn' = NoTurn
  BY DEF Accept, Continue, historyVars
<1>2. user \in Seq(Vocab)
  BY TemplateAssumption
<1>3. begun \in Turns /\ begun.user = user /\ ~begun.committed
  BY <1>2, TurnBegun, NoTurnIsTurn DEF Turns
<1> HIDE DEF begun
<1>4. Fail(begun, "FATAL").user = user /\ ~Fail(begun, "FATAL").committed
  BY <1>3, FailsSame
<1>5. turn = NoTurn
  BY <1>1 DEF Dialogue
<1>6. CASE pc' \in {"tokenize", "finish"}
  <2>1. turn'.user = user /\ ~turn'.committed
    BY <1>1, <1>3, <1>4, <1>6
  <2>2. ChatPhase = "idle" /\ ChatPhase' = "asked"
    BY <1>1, <1>6, <2>1 DEF ChatPhase
  <2>3. Chat!Ask
    BY <1>1, <2>1, <2>2 DEF Chat!Ask
  <2>4. Dialogue'
    BY <1>6 DEF Dialogue
  <2> QED
    BY <2>3, <2>4 DEF Chat!Next
<1>7. CASE pc' = "stopped" /\ turn' = NoTurn
  BY <1>1, <1>5, <1>7 DEF Dialogue, ChatPhase, Chat!chatVars
<1> QED
  BY <1>1, <1>6, <1>7

LEMMA FinishEnds ==
    ASSUME ReplInv, Dialogue, FinishTurn
    PROVE  Dialogue' /\ [Chat!Next]_(Chat!chatVars)
<1>1. /\ pc = "finish" /\ pc' \in {"idle", "stopped"} /\ turn' = NoTurn
      /\ committed' = committed
  BY DEF FinishTurn, Continue, historyVars
<1>2. NoTurn.user = << >>
  BY DEF NoTurn
<1>3. ChatPhase # "idle" /\ ChatPhase' = "idle"
  BY <1>1 DEF ChatPhase
<1>4. Chat!End
  BY <1>1, <1>2, <1>3 DEF Chat!End
<1> QED
  BY <1>1, <1>4 DEF Dialogue, Chat!Next

LEMMA InputKeeps ==
    ASSUME ReplInv, Dialogue, NewSession \/ InputFails
    PROVE  Dialogue' /\ [Chat!Next]_(Chat!chatVars)
<1>1. /\ pc = "idle" /\ pc' \in {"idle", "stopped"} /\ turn' = turn
      /\ committed' \in {committed, << >>}
  BY DEF NewSession, InputFails, historyVars
<1>2. Dialogue'
  BY <1>1 DEF Dialogue
<1>3. ChatPhase = "idle" /\ ChatPhase' = "idle"
  BY <1>1 DEF ChatPhase
<1>4. CASE committed' = committed
  BY <1>1, <1>2, <1>3, <1>4 DEF Chat!chatVars
<1>5. CASE committed' = << >>
  BY <1>1, <1>2, <1>3, <1>5 DEF Chat!Next, Chat!New
<1> QED
  BY <1>1, <1>4, <1>5

\* The prompt of a question is the same in both specifications.
LEMMA AskedSame ==
    ASSUME NEW past, NEW text
    PROVE  Chat!Asked(past, text) = Rendered(past, text)
  BY DEF Chat!Asked, Rendered

\* History is dropped for a question that only fits without it.
LEMMA ResetForgets ==
    ASSUME ReplInv, Dialogue, ResetHistory
    PROVE  Dialogue' /\ [Chat!Next]_(Chat!chatVars)
<1> DEFINE fresh == Rendered(<< >>, turn.user)
           asked == Rendered(committed, turn.user)
<1>1. /\ pc = "tokenize" /\ Decision = "Reset"
      /\ pc' \in {"generate", "finish"} /\ working' = fresh
      /\ \/ turn' = [turn EXCEPT !.prompt_count = Len(fresh)]
         \/ turn' = Fail(turn, "FATAL")
      /\ \/ committed' = << >>
         \/ pc' = "finish" /\ committed' = committed
  BY DEF ResetHistory, PromptReady, Continue, historyVars
<1>2. /\ turn \in Turns /\ ~turn.committed /\ turn.user \in Seq(Vocab)
      /\ Conversation(committed)
  BY <1>1 DEF ReplInv, Standing, Tokenizing, Open, Turns
<1>3. turn'.user = turn.user /\ turn'.committed = turn.committed
  BY <1>1, <1>2, FailsSame DEF Turns
<1>4. ChatPhase = "asked" /\ ChatPhase' = "asked"
  BY <1>1, <1>2, <1>3 DEF ChatPhase
<1>5. Dialogue'
  BY <1>1, <1>3 DEF Dialogue, Asked, Rendered
<1>6. CASE committed' = committed
  BY <1>3, <1>4, <1>5, <1>6 DEF Chat!chatVars
<1>7. CASE committed' = << >>
  <2>1. /\ Len(asked) > PROMPT_LIMIT /\ committed # << >> /\ Len(fresh) <= PROMPT_LIMIT
    BY <1>1 DEF Decision, decide_history
  <2>2. Len(asked) \in Nat /\ Len(fresh) \in Nat
    <3>1. Conversation(<< >>)
      BY DEF Conversation
    <3> QED
      BY <1>2, <3>1, RenderedBehind DEF PromptBehind
  <2>3. ~Chat!Fits(committed, turn.user) /\ Chat!Fits(<< >>, turn.user)
    <3> HIDE DEF asked, fresh
    <3>1. ~(Len(asked) < Context) /\ Len(fresh) < Context
      BY <2>1, <2>2, ContextAssumption DEF PROMPT_LIMIT
    <3> QED
      BY <3>1, AskedSame DEF Chat!Fits, asked, fresh
  <2>4. Chat!Forget
    BY <1>3, <1>4, <1>7, <2>1, <2>3 DEF Chat!Forget
  <2> QED
    BY <1>5, <2>4 DEF Chat!Next
<1> QED
  BY <1>1, <1>6, <1>7

\* A committed reply answers the question: it follows its prompt, within the reserve,
\* and holds one stop token, at its end.
LEMMA CommitAnswers ==
    ASSUME ReplInv, Dialogue, CommitReply
    PROVE  Dialogue' /\ [Chat!Next]_(Chat!chatVars)
<1>1. /\ pc = "advance" /\ pc' = "close" /\ committed' = working /\ CanCommit
      /\ turn' = [turn EXCEPT !.committed = TRUE]
  BY DEF CommitReply, Continue
<1>2. /\ turn \in Turns /\ ~turn.committed /\ Fits /\ Replied /\ working \in Seq(Vocab)
      /\ Sound(engine) /\ engine.state \in {"READY", "EOS"} /\ engine.emitted = turn.generated
  BY <1>1 DEF ReplInv, Standing, Replying, Open, Stored, Evaluating, Dialogue
<1>3. turn'.user = turn.user /\ turn'.committed
  BY <1>1, <1>2 DEF Turns
<1>4. ChatPhase = "asked" /\ ChatPhase' = "answered"
  BY <1>1, <1>2, <1>3 DEF ChatPhase
<1>5. turn.generated > 0
  BY <1>2 DEF Sound, Budgeted, Engines
<1>6. Asked \in Seq(Vocab) /\ Len(Asked) \in Nat
  BY RenderedBehind DEF ReplInv, Standing, Turns, Asked, PromptBehind
<1>7. /\ Len(Asked) < Context
      /\ Len(working) \in Len(Asked) + 1 .. Len(Asked) + Reserve
  BY <1>2, <1>5, <1>6, ContextAssumption, ReserveAssumption DEF Replied, Fits, Turns
<1>8. SubSeq(working, 1, Len(Asked)) = Asked
  <2> DEFINE w == SubSeq(working, 1, Len(Asked))
  <2>1. /\ w \in Seq(Vocab) /\ Len(w) = Len(Asked)
        /\ \A i \in 1 .. Len(Asked) : w[i] = working[i]
    BY <1>2, <1>6, <1>7, SubSeqProperties
  <2> HIDE DEF w
  <2>2. w = Asked
    BY <1>2, <1>6, <2>1, SeqEqual DEF Replied, StartsWith
  <2> QED
    BY <2>2 DEF w
<1>9. Chat!Answers(Asked, working)
  <2>1. \A i \in Len(Asked) + 1 .. Len(working) - 1 : working[i] \notin {EosToken, EndOfText}
    BY <1>1, <1>2 DEF Replied, StopTokens, IM_END
  <2>2. working[Len(working)] = EosToken
    BY <1>1 DEF CanCommit, IM_END
  <2> QED
    BY <1>7, <1>8, <2>1, <2>2 DEF Chat!Answers
<1>10. Chat!Answer
  <2>1. Asked = Chat!Asked(committed, turn.user)
    BY AskedSame DEF Asked
  <2>2. Chat!Fits(committed, turn.user)
    BY <1>7, <2>1 DEF Chat!Fits
  <2> QED
    BY <1>1, <1>3, <1>4, <1>9, <2>1, <2>2 DEF Chat!Answer
<1>11. Dialogue'
  BY <1>1 DEF Dialogue
<1> QED
  BY <1>10, <1>11 DEF Chat!Next

LEMMA DialogueStep ==
    ReplInv /\ Dialogue /\ [ReplNext]_replVars => Dialogue' /\ [Chat!Next]_(Chat!chatVars)
<1> SUFFICES ASSUME ReplInv, Dialogue, [ReplNext]_replVars
             PROVE  Dialogue' /\ [Chat!Next]_(Chat!chatVars)
  OBVIOUS
<1>1. CASE \E user \in UserTexts : Accept(user)
  BY <1>1, AcceptAsks
<1>2. CASE NewSession \/ InputFails
  BY <1>2, InputKeeps
<1>3. CASE ResetHistory
  BY <1>3, ResetForgets
<1>4. CASE CommitReply
  BY <1>4, CommitAnswers
<1>5. CASE FinishTurn
  BY <1>5, FinishEnds
<1>6. CASE NextToken
  BY <1>6, NextTokenSame
<1>7. CASE UsePrompt
  <2>1. pc' \in {"generate", "finish"}
    BY <1>7 DEF UsePrompt, PromptReady, Continue
  <2> QED
    BY <1>7, <2>1, PromptSame, EndsDialogue
<1>8. CASE BeginGeneration
  <2>1. pc' \in {"poll", "finish"}
    BY <1>8 DEF BeginGeneration, Continue
  <2> QED
    BY <1>8, <2>1, BeginSame, EndsDialogue
<1>9. CASE Poll
  BY <1>9, PollSame, EndsDialogue
<1>10. CASE Infer
  BY <1>10, InferSame, EndsDialogue
<1>11. CASE Output
  BY <1>11, OutputSame, EndsDialogue
<1>12. CASE TokenizeFails \/ RejectPrompt \/ StartRecordFails \/ LimitReached
            \/ StatusFails \/ CommitFails \/ CloseTurn
  <2>1. pc' \in {"close", "finish"}
    BY <1>12 DEF TokenizeFails, RejectPrompt, StartRecordFails, LimitReached, StatusFails,
                 CommitFails, CloseTurn, Continue
  <2> QED
    BY <1>12, <2>1, EndsDialogue
<1>13. CASE UNCHANGED replVars
  <2>1. UNCHANGED <<committed, working, pc, turn>>
    BY <1>13 DEF replVars, historyVars
  <2>2. Dialogue'
    BY <2>1 DEF Dialogue, Replied, StartsWith, Asked, Rendered
  <2>3. UNCHANGED Chat!chatVars
    BY <2>1 DEF Chat!chatVars, ChatPhase
  <2> QED
    BY <2>2, <2>3
<1> QED
  BY <1>1, <1>2, <1>3, <1>4, <1>5, <1>6, <1>7, <1>8, <1>9, <1>10, <1>11, <1>12, <1>13
     DEF ReplNext, InputStep, TurnStep

\* The controller implements Chat: a turn adds the question and a complete reply to the
\* history or leaves it alone, and history is dropped only on request or for a question
\* that no longer fits behind it.
THEOREM ReplImplementsChat == ReplSteps => ChatSpec
<1>1. ReplInit => Dialogue /\ Chat!Init
  <2> SUFFICES ASSUME ReplInit PROVE Dialogue /\ Chat!Init
    OBVIOUS
  <2>1. NoTurn.user = << >>
    BY DEF NoTurn
  <2> QED
    BY <2>1 DEF ReplInit, Dialogue, Chat!Init, ChatPhase
<1> QED
  BY <1>1, ReplInvariance, DialogueStep, PTL DEF ReplSteps, ChatSpec, Chat!Spec
=============================================================================
