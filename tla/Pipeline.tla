------------------------------- MODULE Pipeline -------------------------------
(***************************************************************************)
(* What a user does with the tool: a seeded exploration, the minimization  *)
(* of the witness it found, and a replay of one of the two artifacts.      *)
(* Explore and Minimize are steps of modules Seeded and Minimize; the      *)
(* artifact carries a schedule and the name of the invariant, and the      *)
(* scenes keep no state between runs.                                      *)
(***************************************************************************)
EXTENDS Minimize

CONSTANTS
    Subject,    \* the scenes explored
    Cap(_)      \* Cap(sc): the caps on the steps taken there, 0 for none

\* No invariant of the repository is without a name, and no error without a
\* text.
ASSUME SubjectAssumption ==
    \A sc \in Subject : sc \in Scene /\ Named(sc) /\ Cap(sc) \subseteq Nat

VARIABLES
    stage,      \* "explore", "minimize", "replay" or "over"
    maxSteps, here, walked, verdict,    \* those of Seeded
    artifact    \* the witness replayed last

exploring == <<maxSteps, here, walked, verdict>>
pipeline == <<vars, exploring, stage, artifact>>

Walker == INSTANCE Seeded

PipelineInit ==
    /\ scene \in Subject
    /\ maxSteps \in Cap(scene)
    /\ Walker!Begin
    /\ stage = "explore"
    /\ artifact = NoWitness
    /\ original = NoWitness
    /\ InitReplay(<<>>)
    /\ pc = "start"
    /\ sched = <<>>
    /\ index = 1
    /\ current = NoWitness
    /\ attempts = 0
    /\ trace = <<>>

\* The exploration goes on.
Exploring ==
    /\ stage = "explore"
    /\ Walker!Explore
    /\ UNCHANGED <<replaying, between, stage, artifact>>

\* There is no witness: nothing to do.
Passed ==
    /\ stage = "explore"
    /\ verdict.passed
    /\ stage' = "over"
    /\ UNCHANGED <<vars, exploring, artifact>>

\* The witness is given to the minimizer.
Found ==
    /\ stage = "explore"
    /\ verdict.witness # NoWitness
    /\ original' = verdict.witness
    /\ stage' = "minimize"
    /\ UNCHANGED <<scene, replaying, pc, sched, index, current, attempts, trace,
                   exploring, artifact>>

\* The minimizer goes on.
Minimizing ==
    /\ stage = "minimize"
    /\ Next
    /\ UNCHANGED <<exploring, stage, artifact>>

\* Both witnesses were written, and one of them is replayed.
ReplayArtifact ==
    /\ stage = "minimize"
    /\ pc = "done"
    /\ \E w \in {original, current} :
          /\ artifact' = w
          /\ BeginReplay(w.schedule)
    /\ stage' = "replay"
    /\ UNCHANGED <<scene, between, exploring>>

\* The replay goes on.
ReplayingArtifact ==
    /\ stage = "replay"
    /\ ReplayStep
    /\ UNCHANGED <<between, exploring, stage, artifact>>

PipelineNext ==
    \/ Exploring
    \/ Passed
    \/ Found
    \/ Minimizing
    \/ ReplayArtifact
    \/ ReplayingArtifact

PipelineSpec == PipelineInit /\ [][PipelineNext]_pipeline

FairPipeline == PipelineSpec /\ WF_pipeline(PipelineNext)

-----------------------------------------------------------------------------
(* Properties. *)

\* A pass of the seeded exploration says that the schedule it reports is
\* complete or as long as the cap, and that it was executed without a
\* violation; otherwise its witness ends the schedule (scheduler.go:51-66).
VerdictIsHonest ==
    /\ verdict.passed =>
          /\ verdict.steps = Len(verdict.schedule)
          /\ \/ Enabled(scene, here) = {}
             \/ maxSteps > 0 /\ verdict.steps = maxSteps
          /\ FailureOf(scene, verdict.schedule) = ""
    /\ verdict.witness # NoWitness =>
          /\ verdict.witness.schedule = verdict.schedule
          /\ verdict.witness.failedAt = verdict.steps

\* The constitution (constitution_test.go:11-18) for both artifacts: a witness
\* the tool found is one the minimizer accepts (minimize.go:73-75), and
\* replaying either fails the same invariant, with the same message, at the
\* same step, after the same schedule.
ReplayConfirms ==
    /\ pc # "refused"
    /\ stage = "replay" /\ outcome # "running" =>
          outcome = "failed" /\ found = artifact

\* The pipeline comes to its end: nothing to report, or a replay that ended.
ComesToAnEnd ==
    <>(\/ stage = "over"
       \/ stage = "replay" /\ outcome # "running")
=============================================================================
