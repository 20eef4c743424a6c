----------------------------- MODULE TokenEngine -----------------------------
(***************************************************************************)
(* What InferenceEngine::evaluate promises its callers, whichever way the  *)
(* matrix-vector products are computed: a token is evaluated one whole     *)
(* product after the other, it succeeds only after all of them, and the    *)
(* only other ways out are an error between two products or a machine that *)
(* halts for good.                                                         *)
(***************************************************************************)
EXTENDS Naturals

CONSTANT BodyJobs    \* products of a token without logits

VARIABLES
    phase,       \* "off", "idle", "evaluating" or "halted"
    products,    \* whole products computed for the current token
    wanted,      \* products the current token needs
    outcome      \* 1: last token evaluated, 2: it failed, 0: none yet

tokenVars == <<phase, products, wanted, outcome>>

TokenInit ==
    /\ phase = "off"
    /\ products = 0
    /\ wanted \in {BodyJobs, BodyJobs + 1}
    /\ outcome = 0

PowerOn ==
    /\ phase = "off"
    /\ phase' \in {"idle", "halted"}
    /\ UNCHANGED <<products, wanted, outcome>>

Begin ==
    /\ phase = "idle"
    /\ phase' = "evaluating"
    /\ products' = 0
    /\ wanted' \in {BodyJobs, BodyJobs + 1}
    /\ UNCHANGED outcome

Product ==
    /\ phase = "evaluating"
    /\ products < wanted
    /\ products' = products + 1
    /\ UNCHANGED <<phase, wanted, outcome>>

End ==
    /\ phase = "evaluating"
    /\ outcome' \in {1, 2}
    /\ outcome' = 1 => products = wanted
    /\ phase' = "idle"
    /\ UNCHANGED <<products, wanted>>

Halt ==
    /\ phase = "evaluating"
    /\ phase' = "halted"
    /\ UNCHANGED <<products, wanted, outcome>>

TokenNext == PowerOn \/ Begin \/ Product \/ End \/ Halt

TokenSpec == TokenInit /\ [][TokenNext]_tokenVars

=============================================================================
