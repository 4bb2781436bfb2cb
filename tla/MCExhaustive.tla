---------------------------- MODULE MCExhaustive ----------------------------
(***************************************************************************)
(* Exhaustive on the scenes of the repository and on small graphs, with    *)
(* every combination of the options.                                       *)
(***************************************************************************)
EXTENDS Exhaustive, Scenes

-----------------------------------------------------------------------------
(* Inputs. *)

Clean == {DoubleWithdraw(200, 60), Interleave(2, 2), Interleave(2, 3),
          Interleave(3, 2), Counter(2, 2, 4)}

Broken == {DoubleWithdraw(100, 60), LostUpdate, CheckThenAct, InitOrdering(7),
           Counter(3, 2, 1), Counter(1, 1, 0)}

Straight == {Shortcut({}, One), Shortcut({6}, One), Shortcut({3}, One),
            Shortcut({5}, Several), Shortcut({4}, Several), Fork({5})}

Cyclic == {Ring({}), Ring({4}), Ring({3})}

MCScene == Clean \cup Broken \cup Straight \cup Cyclic

\* The states of each scene: the reachable ones, none of which is more than
\* seven transitions away from the initial one.
StateTable == [sc \in MCScene |-> UNION {Layer(sc)[n] : n \in 0..7}]

MCState(sc) == StateTable[sc]

\* PossibleSchedules is asked for where the scene has the shape it assumes.
MCConfig(sc, depth, prune, cont, measure) ==
    LET shaped == sc.name = "interleave"
    IN  [maxDepth |-> depth, continueAfterViolation |-> cont,
         measure |-> measure, prune |-> prune,
         workers |-> IF shaped THEN sc.workers ELSE 0,
         stepsPerWorker |-> IF shaped THEN sc.steps ELSE 0]

\* Every option, but for the searches of a cycle without bound or pruning,
\* which the program does not finish either.
MCInput ==
    {in \in {[sc |-> sc, cfg |-> MCConfig(sc, depth, prune, cont, measure)] :
                sc \in MCScene, depth \in {0, 1, 3}, prune \in BOOLEAN,
                cont \in BOOLEAN, measure \in BOOLEAN} :
        /\ in.sc \in Cyclic => in.cfg.prune \/ in.cfg.maxDepth > 0
        /\ in.cfg.maxDepth = 1 => in.sc.name = "graph"}
=============================================================================
