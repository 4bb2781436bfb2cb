--------------------------- MODULE PipelineProofs ---------------------------
(* Theorems about the pipeline, for every scene, every cap and every choice  *)
(* of the generator.                                                         *)
EXTENDS Pipeline, MinimizeProofs

-----------------------------------------------------------------------------
(* The operators the exploration uses are those of the minimizer. *)

LEMMA SameScene ==
    /\ Walker!NoWitness = NoWitness
    /\ \A sc, s : Walker!Violates(sc, s) <=> Violates(sc, s)
    /\ \A sc, s, schedule :
          Walker!Check(sc, s, schedule) = Check(sc, s, schedule)
<1>1. Walker!NoWitness = NoWitness
  BY Zenon DEF Walker!NoWitness, NoWitness
<1>2. \A sc, s : Walker!Failing(sc, s) = Failing(sc, s)
  BY Zenon DEF Walker!Failing, Failing
<1>3. \A sc, s : Walker!Violates(sc, s) <=> Violates(sc, s)
  BY <1>2, Zenon DEF Walker!Violates, Violates
<1>4. \A sc, s : Walker!FirstFailing(sc, s) = FirstFailing(sc, s)
  BY <1>2, Zenon DEF Walker!FirstFailing, FirstFailing
<1>5. \A spec, err, schedule :
         Walker!Evidence(spec, err, schedule) = Evidence(spec, err, schedule)
  BY Zenon DEF Walker!Evidence, Evidence
<1>6. ASSUME NEW sc, NEW s, NEW schedule
      PROVE  Walker!Check(sc, s, schedule) = Check(sc, s, schedule)
  BY <1>1, <1>3, <1>4, <1>5, Zenon DEF Walker!Check, Check
<1>7. QED
  BY <1>1, <1>3, <1>6

-----------------------------------------------------------------------------
(* The exploration. *)

Pass == [passed |-> TRUE, steps |-> Len(walked), schedule |-> walked,
         witness |-> NoWitness]

Failure == [passed |-> FALSE, steps |-> Len(walked), schedule |-> walked,
            witness |-> Check(scene, here, walked)]

\* Why the exploration has ended.
Ended == \/ Enabled(scene, here) = {}
         \/ maxSteps > 0 /\ Len(walked) = maxSteps

\* The schedule reported is that of a walk within the cap, and the verdict is
\* what the walk came to.
WalkInv ==
    /\ scene \in Subject
    /\ maxSteps \in Cap(scene)
    /\ here \in State(scene)
    /\ walked \in Schedule
    /\ maxSteps > 0 => Len(walked) <= maxSteps
    /\ WalksTo(scene, walked, here)
    /\ \/ verdict = Walker!Undecided /\ GoesOn(scene, walked, here)
       \/ verdict = Pass /\ Ended /\ GoesOn(scene, walked, here)
       \/ verdict = Failure /\ Violates(scene, here) /\ walked # <<>>

LEMMA Bounded == WalkInv => maxSteps \in Nat /\ Len(walked) \in Nat /\ scene \in Scene
BY SubjectAssumption DEF WalkInv, Schedule

LEMMA UndecidedWitness ==
    /\ Walker!Undecided.witness = NoWitness
    /\ Walker!Undecided.passed = FALSE
BY SameScene, Zenon DEF Walker!Undecided

LEMMA WalkBegins ==
    ASSUME scene \in Subject, maxSteps \in Cap(scene), Walker!Begin
    PROVE  WalkInv
<1>1. scene \in Scene
  BY SubjectAssumption
<1>2. here = Initial(scene) /\ walked = <<>> /\ verdict = Walker!Undecided
  BY DEF Walker!Begin
<1>3. here \in State(scene) /\ walked \in Schedule /\ WalksTo(scene, walked, here)
  BY <1>1, <1>2, SceneAssumption, WalkStarts
<1>4. maxSteps > 0 => Len(walked) <= maxSteps
  BY <1>1, <1>2, SubjectAssumption
<1>5. QED
  BY <1>2, <1>3, <1>4 DEF WalkInv, GoesOn

LEMMA StillGoing ==
    ASSUME WalkInv, verdict = Walker!Undecided
    PROVE  GoesOn(scene, walked, here)
<1>1. verdict # Pass
  BY UndecidedWitness DEF Pass
<1>2. ASSUME verdict = Failure, Violates(scene, here), walked # <<>>
      PROVE  FALSE
  <2>1. Check(scene, here, walked) # NoWitness
    BY <1>2, Bounded, CheckFails DEF WalkInv
  <2>2. QED
    BY <1>2, <2>1, UndecidedWitness DEF Failure
<1>3. QED
  BY <1>1, <1>2 DEF WalkInv

\* The two ways to pass.
LEMMA PassOK == WalkInv /\ (Walker!Stuck \/ Walker!Capped) => WalkInv'
<1> SUFFICES ASSUME WalkInv, Walker!Stuck \/ Walker!Capped PROVE WalkInv'
  OBVIOUS
<1>1. verdict = Walker!Undecided /\ UNCHANGED <<scene, maxSteps, here, walked>>
  BY DEF Walker!Stuck, Walker!Capped, Walker!MayWalk
<1>2. GoesOn(scene, walked, here)
  BY <1>1, StillGoing
<1>3. CASE Walker!Stuck
  <2>1. Enabled(scene, here) = {} /\ verdict' = Pass
    BY <1>3, SameScene DEF Walker!Stuck, Pass
  <2>2. Pass' = Pass /\ Ended'
    BY <1>1, <2>1 DEF Pass, Ended
  <2>3. QED
    BY <1>1, <1>2, <2>1, <2>2 DEF WalkInv
<1>4. CASE Walker!Capped
  <2>1. maxSteps > 0 /\ Len(walked) = maxSteps
    BY <1>1, <1>4, Bounded DEF WalkInv, Walker!Capped, Walker!MayWalk
  <2>2. verdict' = Pass
    BY <1>4, <2>1, SameScene DEF Walker!Capped, Pass
  <2>3. Pass' = Pass /\ Ended'
    BY <1>1, <2>1 DEF Pass, Ended
  <2>4. QED
    BY <1>1, <1>2, <2>2, <2>3 DEF WalkInv
<1>5. QED
  BY <1>3, <1>4

LEMMA WalkOK == WalkInv /\ Walker!Walk => WalkInv'
<1> SUFFICES ASSUME WalkInv, Walker!Walk PROVE WalkInv'
  OBVIOUS
<1>1. /\ verdict = Walker!Undecided /\ UNCHANGED <<scene, maxSteps>>
      /\ maxSteps = 0 \/ Len(walked) < maxSteps
  BY DEF Walker!Walk, Walker!MayWalk
<1>2. GoesOn(scene, walked, here) /\ scene \in Scene /\ walked \in Schedule
      /\ WalksTo(scene, walked, here)
  BY <1>1, StillGoing, Bounded DEF WalkInv
<1>3. PICK t \in Enabled(scene, here) :
        /\ here' = Apply(scene, here, t)
        /\ walked' = Append(walked, t)
        /\ verdict' =
              IF Check(scene, here', walked') = NoWitness THEN Walker!Undecided
              ELSE [passed |-> FALSE, steps |-> Len(walked'),
                    schedule |-> walked',
                    witness |-> Check(scene, here', walked')]
  BY SameScene DEF Walker!Walk
<1>4. /\ walked' \in Schedule /\ walked' # <<>> /\ here' \in State(scene)
      /\ WalksTo(scene, walked', here')
  BY <1>2, <1>3, WalkGrows
<1>5. maxSteps > 0 => Len(walked') <= maxSteps
  <2>1. Len(walked') = Len(walked) + 1
    BY <1>2, <1>3 DEF Schedule
  <2>2. QED
    BY <1>1, <2>1, Bounded
<1>6. CASE Violates(scene, here')
  <2>1. Check(scene, here', walked') # NoWitness
    BY <1>2, <1>4, <1>6, CheckFails
  <2>2. verdict' = Failure'
    BY <1>1, <1>3, <2>1 DEF Failure
  <2>3. QED
    BY <1>1, <1>4, <1>5, <1>6, <2>2 DEF WalkInv
<1>7. CASE ~Violates(scene, here')
  <2>1. Check(scene, here', walked') = NoWitness
    BY <1>7 DEF Check
  <2>2. verdict' = Walker!Undecided /\ GoesOn(scene, walked', here')
    BY <1>3, <1>7, <2>1 DEF GoesOn
  <2>3. QED
    BY <1>1, <1>4, <1>5, <2>2 DEF WalkInv
<1>8. QED
  BY <1>6, <1>7

\* A step that leaves the exploration alone.
LEMMA WalkRests == WalkInv /\ UNCHANGED <<scene, exploring>> => WalkInv'
BY DEF WalkInv, exploring, Pass, Failure, Ended

-----------------------------------------------------------------------------
(* The pipeline. *)

\* Minimize has its invariant throughout, also while it has not been called and
\* after it returned; the witness given to it, and the artifact replayed, are
\* evidence.
PipelineInv ==
    /\ WalkInv
    /\ IInv
    /\ stage \in {"explore", "minimize", "replay", "over"}
    /\ stage \in {"explore", "over"} => NotCalled
    /\ stage \in {"minimize", "replay"} => Reproduces(scene, original)
    /\ stage = "replay" =>
          /\ pc = "done"
          /\ artifact \in Witness
          /\ script = artifact.schedule
          /\ Reproduces(scene, artifact)

LEMMA PipelineInitOK == PipelineInit => PipelineInv
<1> SUFFICES ASSUME PipelineInit PROVE PipelineInv
  OBVIOUS
<1>1. WalkInv
  BY WalkBegins DEF PipelineInit
<1>2. NotCalled /\ ReplayInv
  BY <1>1, Bounded, NoWitnessType, InitReplayOK DEF PipelineInit, NotCalled
<1>3. QED
  BY <1>1, <1>2, NotCalledOK DEF PipelineInit, PipelineInv

LEMMA NotCalledRests == NotCalled /\ UNCHANGED vars => NotCalled'
BY DEF NotCalled, vars, between

LEMMA ExploringOK == PipelineInv /\ Exploring => PipelineInv'
<1> SUFFICES ASSUME PipelineInv, Exploring PROVE PipelineInv'
  OBVIOUS
<1>1. stage = "explore" /\ stage' = stage
  BY DEF Exploring
<1>2. WalkInv' /\ scene' = scene
  BY WalkOK, PassOK DEF PipelineInv, Exploring, Walker!Explore, Walker!Walk,
                        Walker!Stuck, Walker!Capped
<1>3. UNCHANGED vars
  BY <1>2 DEF Exploring, vars
<1>4. IInv' /\ NotCalled'
  BY <1>1, <1>3, StutterOK, NotCalledRests DEF PipelineInv
<1>5. QED
  BY <1>1, <1>2, <1>4 DEF PipelineInv

LEMMA PassedOK == PipelineInv /\ Passed => PipelineInv'
<1> SUFFICES ASSUME PipelineInv, Passed PROVE PipelineInv'
  OBVIOUS
<1>1. stage = "explore" /\ stage' = "over" /\ UNCHANGED <<vars, exploring>>
  BY DEF Passed
<1>2. WalkInv'
  BY <1>1, WalkRests DEF PipelineInv, vars
<1>3. IInv' /\ NotCalled'
  BY <1>1, StutterOK, NotCalledRests DEF PipelineInv
<1>4. QED
  BY <1>1, <1>2, <1>3 DEF PipelineInv

LEMMA FoundOK == PipelineInv /\ Found => PipelineInv'
<1> SUFFICES ASSUME PipelineInv, Found PROVE PipelineInv'
  OBVIOUS
<1>1. /\ stage = "explore" /\ stage' = "minimize"
      /\ original' = verdict.witness /\ verdict.witness # NoWitness
      /\ UNCHANGED <<scene, replaying, pc, sched, index, current, attempts,
                     trace, exploring>>
  BY DEF Found
<1>2. WalkInv'
  BY <1>1, WalkRests DEF PipelineInv
<1>3. verdict = Failure /\ Violates(scene, here) /\ walked # <<>>
  BY <1>1, UndecidedWitness DEF PipelineInv, WalkInv, Pass
<1>4. original' \in Witness /\ Reproduces(scene, original')
  BY <1>1, <1>3, Bounded, WalkReproduces DEF PipelineInv, WalkInv, Failure
<1>5. NotCalled' /\ ReplayInv'
  BY <1>1, <1>4, ReplayRests DEF PipelineInv, NotCalled, IInv
<1>6. IInv'
  BY <1>5, NotCalledOK, PTL
<1>7. QED
  BY <1>1, <1>2, <1>4, <1>6 DEF PipelineInv

LEMMA MinimizingOK == PipelineInv /\ Minimizing => PipelineInv'
<1> SUFFICES ASSUME PipelineInv, Minimizing PROVE PipelineInv'
  OBVIOUS
<1>1. stage = "minimize" /\ stage' = stage /\ Next /\ UNCHANGED exploring
  BY DEF Minimizing
<1>2. UNCHANGED <<scene, original>>
  BY <1>1, NextKeeps DEF PipelineInv
<1>3. WalkInv'
  BY <1>1, <1>2, WalkRests DEF PipelineInv
<1>4. IInv'
  BY <1>1, StepOK DEF PipelineInv
<1>5. QED
  BY <1>1, <1>2, <1>3, <1>4 DEF PipelineInv

LEMMA ReplayArtifactOK == PipelineInv /\ ReplayArtifact => PipelineInv'
<1> SUFFICES ASSUME PipelineInv, ReplayArtifact PROVE PipelineInv'
  OBVIOUS
<1>1. /\ stage = "minimize" /\ pc = "done" /\ stage' = "replay"
      /\ UNCHANGED <<scene, between, exploring>>
  BY DEF ReplayArtifact
<1>2. PICK w \in {original, current} : artifact' = w /\ BeginReplay(w.schedule)
  BY DEF ReplayArtifact
<1>3. /\ scene \in Scene /\ w \in Witness /\ Reproduces(scene, w)
      /\ w.schedule \in Schedule
  BY <1>1, CurrentReproduces
     DEF PipelineInv, IInv, TypeOK, ReplayTypeOK, Witness
<1>4. WalkInv'
  BY <1>1, WalkRests DEF PipelineInv
<1>5. ReplayInv' /\ script' = w.schedule
  BY <1>1, <1>2, <1>3, BeginReplayOK DEF BeginReplay
<1>6. IInv'
  BY <1>1, <1>5, ReturnedRests DEF PipelineInv
<1>7. QED
  BY <1>1, <1>2, <1>3, <1>4, <1>5, <1>6 DEF PipelineInv, between

LEMMA ReplayingArtifactOK == PipelineInv /\ ReplayingArtifact => PipelineInv'
<1> SUFFICES ASSUME PipelineInv, ReplayingArtifact PROVE PipelineInv'
  OBVIOUS
<1>1. /\ stage = "replay" /\ stage' = stage /\ ReplayStep
      /\ UNCHANGED <<between, exploring, artifact>>
  BY DEF ReplayingArtifact
<1>2. ReplayInv' /\ scene' = scene /\ script' = script
  BY <1>1, ReplayStepOK DEF PipelineInv, IInv
<1>3. WalkInv'
  BY <1>1, <1>2, WalkRests DEF PipelineInv
<1>4. IInv'
  BY <1>1, <1>2, ReturnedRests DEF PipelineInv
<1>5. QED
  BY <1>1, <1>2, <1>3, <1>4 DEF PipelineInv, between

LEMMA PipelineStutterOK == PipelineInv /\ UNCHANGED pipeline => PipelineInv'
<1> SUFFICES ASSUME PipelineInv, UNCHANGED pipeline PROVE PipelineInv'
  OBVIOUS
<1>1. UNCHANGED <<vars, exploring, stage, artifact>>
  BY DEF pipeline
<1>2. UNCHANGED <<scene, script, pc, original>>
  BY <1>1 DEF vars, replaying, between
<1>3. WalkInv'
  BY <1>1, <1>2, WalkRests DEF PipelineInv
<1>4. IInv' /\ (NotCalled => NotCalled')
  BY <1>1, StutterOK, NotCalledRests DEF PipelineInv
<1>5. QED
  BY <1>1, <1>2, <1>3, <1>4 DEF PipelineInv

\* What is known of the pipeline holds at every step.
LEMMA PipelineInvariance == PipelineSpec => []PipelineInv
<1>1. PipelineInv /\ [PipelineNext]_pipeline => PipelineInv'
  BY ExploringOK, PassedOK, FoundOK, MinimizingOK, ReplayArtifactOK,
     ReplayingArtifactOK, PipelineStutterOK DEF PipelineNext
<1>2. QED
  BY <1>1, PipelineInitOK, PTL DEF PipelineSpec

-----------------------------------------------------------------------------

\* What a seeded exploration reports is so: a pass is a schedule that was
\* executed to the end of the scene or to the cap, and that fails nothing when
\* it is replayed; a witness ends the schedule (scheduler.go:51-66).
THEOREM ExplorationIsHonest == PipelineSpec => []VerdictIsHonest
<1>1. PipelineInv => VerdictIsHonest
  <2> SUFFICES ASSUME WalkInv PROVE VerdictIsHonest
    BY DEF PipelineInv
  <2>1. ASSUME verdict.passed
        PROVE  /\ verdict.steps = Len(verdict.schedule)
               /\ \/ Enabled(scene, here) = {}
                  \/ maxSteps > 0 /\ verdict.steps = maxSteps
               /\ FailureOf(scene, verdict.schedule) = ""
    <3>1. verdict = Pass /\ Ended /\ GoesOn(scene, walked, here)
      BY <2>1, UndecidedWitness DEF WalkInv, Failure
    <3>2. WitnessOf(scene, walked) = NoWitness
      BY <3>1, Bounded, CleanWalk DEF WalkInv
    <3>3. FailureOf(scene, walked) = ""
      BY <3>2, NoWitnessNamesNone, Zenon DEF FailureOf
    <3>4. verdict.schedule = walked /\ verdict.steps = Len(walked)
      BY <3>1 DEF Pass
    <3>5. QED
      BY <3>1, <3>3, <3>4, Zenon DEF Ended
  <2>2. ASSUME verdict.witness # NoWitness
        PROVE  /\ verdict.witness.schedule = verdict.schedule
               /\ verdict.witness.failedAt = verdict.steps
    <3>1. verdict = Failure /\ Violates(scene, here) /\ walked # <<>>
      BY <2>2, UndecidedWitness DEF WalkInv, Pass
    <3>2. /\ Check(scene, here, walked).schedule = walked
          /\ Check(scene, here, walked).failedAt = Len(walked)
      BY <3>1, Bounded, CheckFails DEF WalkInv
    <3>3. QED
      BY <3>1, <3>2 DEF Failure
  <2>3. QED
    BY <2>1, <2>2, Zenon DEF VerdictIsHonest
<1>2. QED
  BY <1>1, PipelineInvariance, PTL

\* The constitution: a witness the exploration found is one that Minimize
\* accepts, and replaying it, or the minimized one, gives it back
\* (constitution_test.go:11-18, minimize.go:73-75).
THEOREM Constitution == PipelineSpec => []ReplayConfirms
<1>1. PipelineInv => ReplayConfirms
  <2> SUFFICES ASSUME PipelineInv PROVE ReplayConfirms
    OBVIOUS
  <2>1. scene \in Scene /\ Named(scene)
    BY SubjectAssumption DEF PipelineInv, WalkInv
  <2>2. pc # "refused"
    BY <2>1, EvidenceAccepted DEF PipelineInv, NotCalled
  <2>3. ASSUME stage = "replay", outcome # "running"
        PROVE  outcome = "failed" /\ found = artifact
    BY <2>3, ReplayGivesBack DEF PipelineInv, IInv
  <2>4. QED
    BY <2>2, <2>3 DEF ReplayConfirms
<1>2. QED
  BY <1>1, PipelineInvariance, PTL
=============================================================================
