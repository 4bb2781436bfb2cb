------------------------------ MODULE MCPipeline ------------------------------
(***************************************************************************)
(* The pipeline on the scenes of the repository and on small graphs.       *)
(***************************************************************************)
EXTENDS Pipeline, Scenes

Looping == {Wander({4}, Several), Wander({4, 5}, Several), Diamond}

MCScene == Looping \cup {Detour, CheckThenAct, LostUpdate, InitOrdering(7),
                         DoubleWithdraw(100, 60), DoubleWithdraw(200, 60),
                         Interleave(2, 2), Counter(2, 2, 1)}

\* Where a walk may be endless it has a cap.
MCCap(sc) == IF sc \in Looping THEN {1, 3, 5} ELSE {0, 1, 4}

StateTable == [sc \in MCScene |-> UNION {Layer(sc)[n] : n \in 0..7}]

MCState(sc) == StateTable[sc]
=============================================================================
