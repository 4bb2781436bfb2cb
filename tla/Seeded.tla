-------------------------------- MODULE Seeded --------------------------------
(***************************************************************************)
(* scheduler.Explore: one schedule, chosen by a seeded generator, with an  *)
(* optional cap on its length.  The seed is an input, so the generator may *)
(* pick any of the transitions enabled.                                    *)
(***************************************************************************)
EXTENDS Scenario

VARIABLES
    scene,      \* the scenario
    maxSteps,   \* the cap, 0 for none
    here,       \* the state reached
    walked,     \* the schedule so far
    verdict     \* what is returned, Undecided before that

Undecided == [passed |-> FALSE, steps |-> 0, schedule |-> <<>>,
              witness |-> NoWitness]

Begin ==
    /\ here = Initial(scene)
    /\ walked = <<>>
    /\ verdict = Undecided

\* Slip: one step too many.
MayWalkOnce ==
    /\ verdict = Undecided
    /\ maxSteps = 0 \/ Len(walked) <= maxSteps

\* The loop goes on.
MayWalk ==
    /\ verdict = Undecided
    /\ maxSteps = 0 \/ Len(walked) < maxSteps

\* Nothing is enabled.
Stuck ==
    /\ MayWalk
    /\ Enabled(scene, here) = {}
    /\ verdict' = [passed |-> TRUE, steps |-> Len(walked), schedule |-> walked,
                   witness |-> NoWitness]
    /\ UNCHANGED <<scene, maxSteps, here, walked>>

\* Slip: the invariants are checked before the transition is recorded.
WalkThenRecord ==
    /\ MayWalk
    /\ \E t \in Enabled(scene, here) :
          LET s == Apply(scene, here, t)
              w == Check(scene, s, walked)
          IN  /\ here' = s
              /\ walked' = Append(walked, t)
              /\ verdict' = IF w = NoWitness THEN Undecided
                            ELSE [passed |-> FALSE, steps |-> Len(walked'),
                                  schedule |-> walked', witness |-> w]
    /\ UNCHANGED <<scene, maxSteps>>

\* A transition is picked and applied, and the invariants are checked.
Walk ==
    /\ MayWalk
    /\ \E t \in Enabled(scene, here) :
          LET s == Apply(scene, here, t)
              w == Check(scene, s, Append(walked, t))
          IN  /\ here' = s
              /\ walked' = Append(walked, t)
              /\ verdict' = IF w = NoWitness THEN Undecided
                            ELSE [passed |-> FALSE, steps |-> Len(walked'),
                                  schedule |-> walked', witness |-> w]
    /\ UNCHANGED <<scene, maxSteps>>

\* The cap is reached: this, too, is a pass.
Capped ==
    /\ verdict = Undecided
    /\ ~MayWalk
    /\ verdict' = [passed |-> TRUE, steps |-> maxSteps, schedule |-> walked,
                   witness |-> NoWitness]
    /\ UNCHANGED <<scene, maxSteps, here, walked>>

\* Slip: the end of the scene is not recognised.
ExploreOn == Walk \/ Capped

Explore == Stuck \/ Walk \/ Capped
=============================================================================
