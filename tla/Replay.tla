-------------------------------- MODULE Replay --------------------------------
(***************************************************************************)
(* replay.Run: a schedule is executed again, one transition per step, and  *)
(* the invariants are checked after each.  The schedule comes from a file  *)
(* or from the minimizer, so it may be any sequence of transitions.        *)
(***************************************************************************)
EXTENDS Scenario

VARIABLES
    scene,      \* the scenario
    script,     \* the schedule to execute
    state,      \* the state reached
    taken,      \* the transitions executed so far
    outcome,    \* "running", "invalid" (an error), "passed" or "failed"
    found,      \* the witness of a run that failed
    path        \* history: the states gone through

replaying == <<script, state, taken, outcome, found, path>>

\* Run is called on schedule.
BeginReplay(schedule) ==
    /\ script' = schedule
    /\ state' = Initial(scene)
    /\ taken' = <<>>
    /\ outcome' = "running"
    /\ found' = NoWitness
    /\ path' = <<Initial(scene)>>

InitReplay(schedule) ==
    /\ script = schedule
    /\ state = Initial(scene)
    /\ taken = <<>>
    /\ outcome = "running"
    /\ found = NoWitness
    /\ path = <<Initial(scene)>>

Remaining == Len(taken) < Len(script)

NextTransition == script[Len(taken) + 1]

\* Slip: a transition that is not enabled is passed over.
SkipDisabled ==
    /\ outcome = "running"
    /\ Remaining
    /\ NextTransition \notin Enabled(scene, state)
    /\ taken' = Append(taken, NextTransition)
    /\ path' = Append(path, state)
    /\ UNCHANGED <<scene, script, state, outcome, found>>

\* The next transition is not enabled: an error.
RefuseDisabled ==
    /\ outcome = "running"
    /\ Remaining
    /\ NextTransition \notin Enabled(scene, state)
    /\ outcome' = "invalid"
    /\ UNCHANGED <<scene, script, state, taken, found, path>>

\* Slip: the invariants are checked before the transition is recorded.
TakeThenRecord ==
    LET s == Apply(scene, state, NextTransition)
    IN  /\ outcome = "running"
        /\ Remaining
        /\ NextTransition \in Enabled(scene, state)
        /\ state' = s
        /\ taken' = Append(taken, NextTransition)
        /\ path' = Append(path, s)
        /\ found' = Check(scene, s, taken)
        /\ outcome' = IF Violates(scene, s) THEN "failed" ELSE "running"
        /\ UNCHANGED <<scene, script>>

\* The next transition is applied and the invariants are checked: a violation
\* ends the run, whatever remains of the schedule.
Take ==
    LET s == Apply(scene, state, NextTransition)
    IN  /\ outcome = "running"
        /\ Remaining
        /\ NextTransition \in Enabled(scene, state)
        /\ state' = s
        /\ taken' = Append(taken, NextTransition)
        /\ path' = Append(path, s)
        /\ found' = Check(scene, s, taken')
        /\ outcome' = IF Violates(scene, s) THEN "failed" ELSE "running"
        /\ UNCHANGED <<scene, script>>

\* The schedule was executed to its end without a violation.
EndOfScript ==
    /\ outcome = "running"
    /\ ~Remaining
    /\ outcome' = "passed"
    /\ UNCHANGED <<scene, script, state, taken, found, path>>

ReplayStep == RefuseDisabled \/ Take \/ EndOfScript

\* One call of Run, on the schedule script.
RunSpec == InitReplay(script) /\ [][ReplayStep]_<<scene, replaying>>

-----------------------------------------------------------------------------
(* Properties, for the modules that replay. *)

ReplayTypeOK ==
    /\ scene \in Scene
    /\ script \in Schedule
    /\ state \in State(scene)
    /\ taken \in Schedule
    /\ Len(taken) <= Len(script)
    /\ outcome \in {"running", "invalid", "passed", "failed"}
    /\ found \in Witness
    /\ path \in Seq(State(scene))

\* What was executed is the beginning of the schedule, it is an execution of
\* the scene, and it violates nothing but, if the run failed, at its end.
ReplayIsFaithful ==
    /\ taken = SubSeq(script, 1, Len(taken))
    /\ IsRun(scene, path, taken)
    /\ path[Len(path)] = state
    /\ CleanUpTo(scene, path,
                 IF outcome = "failed" THEN Len(path) - 1 ELSE Len(path))
    /\ outcome = "passed" => taken = script
    /\ outcome = "invalid" =>
          Remaining /\ NextTransition \notin Enabled(scene, state)
    /\ IF outcome = "failed" THEN /\ Violates(scene, state)
                                  /\ found = Check(scene, state, taken)
       ELSE found = NoWitness
=============================================================================
