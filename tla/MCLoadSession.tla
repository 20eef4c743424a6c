---------------------------- MODULE MCLoadSession ----------------------------
(***************************************************************************)
(* The session and the prompt loop it serves from: the loop runs while the *)
(* session is in "repl", and its failure ends that state.  Two regions; the *)
(* last one is larger in model_repl.                                       *)
(***************************************************************************)
EXTENDS LoadSession, InputLoop

MCRegionPages == [i \in 0 .. RegionCount - 1 |-> IF i = 0 THEN 2 ELSE 1]

MCInit == SessionInit /\ InputInit

SessionMoves == (Steps \/ (loop = "ended" /\ ReplEnds)) /\ UNCHANGED inputVars

LoopMoves == pc = "repl" /\ LoopStep /\ UNCHANGED sessionVars

OutsideMoves ==
    /\ pc = "repl" /\ loop \notin {"idle", "ended"}
    /\ Press \/ Elapse
    /\ UNCHANGED sessionVars

\* Every call of the firmware returns, the wait for an event once there is one.
MCSpec ==
    /\ MCInit
    /\ [][SessionMoves \/ LoopMoves \/ OutsideMoves]_<<sessionVars, inputVars>>
    /\ WF_<<sessionVars, inputVars>>(SessionMoves \/ ((loop = "wait" => Ready # {}) /\ LoopMoves))
=============================================================================
