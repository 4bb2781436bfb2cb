------------------------------- MODULE Minimize -------------------------------
(***************************************************************************)
(* minimize.Minimize: transitions are removed from the schedule of a       *)
(* witness, one at a time and from the beginning, as long as replaying     *)
(* what is left fails the same invariant.  A step is a step of a replay,   *)
(* or what Minimize does between two replays.                              *)
(***************************************************************************)
EXTENDS Replay, FiniteSets

CONSTANT Evidences  \* pairs of a scene and a witness given to Minimize

ASSUME EvidencesAssumption ==
    Evidences \subseteq [sc : Scene, witness : Witness]

VARIABLES
    pc,         \* "start", "verify", "scan", "trial", "done" or "refused"
    original,   \* the witness given
    sched,      \* the schedule being shortened
    index,      \* the position of the transition to be removed next
    current,    \* the witness of the latest replay that failed the same way
    attempts,   \* the number of replays
    trace       \* history: the states the schedule of current goes through

between == <<pc, original, sched, index, current, attempts, trace>>
vars == <<scene, replaying, between>>

Init ==
    /\ \E e \in Evidences : scene = e.sc /\ original = e.witness
    /\ InitReplay(<<>>)
    /\ pc = "start"
    /\ sched = <<>>
    /\ index = 1
    /\ current = NoWitness
    /\ attempts = 0
    /\ trace = <<>>

-----------------------------------------------------------------------------

\* SemanticViolation: the name of the invariant, and nothing else.
Target == original.invariant

\* evaluateTrial, up to the replay.
Evaluate(schedule) ==
    /\ BeginReplay(schedule)
    /\ attempts' = attempts + 1

\* The replay goes on.
Replaying ==
    /\ pc \in {"verify", "trial"}
    /\ ReplayStep
    /\ UNCHANGED between

\* Slip: any failure will do.
SameAny == outcome = "failed"

\* Slip: the length of the schedule is part of a failure's identity.
SameAt == /\ outcome = "failed"
          /\ found.invariant = Target
          /\ found.failedAt = Len(original.schedule)

\* evaluateTrial's verdict TrialSameViolation.
Same == outcome = "failed" /\ found.invariant = Target

\* TrialInvalid, TrialNoViolation or TrialDifferentViolation.
NotSame == outcome # "running" /\ ~Same

\* Slip: the halves change places.
WithoutSwapped(s, n) == SubSeq(s, n+1, Len(s)) \o SubSeq(s, 1, n-1)

\* removeAt.
Without(s, n) == SubSeq(s, 1, n-1) \o SubSeq(s, n+1, Len(s))

\* An empty schedule or no invariant to aim at: an error.
RefuseInput ==
    /\ pc = "start"
    /\ original.schedule = <<>> \/ Target = ""
    /\ pc' = "refused"
    /\ UNCHANGED <<scene, replaying, original, sched, index, current, attempts,
                   trace>>

\* The witness is replayed first.
Verify ==
    /\ pc = "start"
    /\ original.schedule # <<>>
    /\ Target # ""
    /\ Evaluate(original.schedule)
    /\ pc' = "verify"
    /\ UNCHANGED <<scene, original, sched, index, current, trace>>

\* It does not reproduce: an error.
RefuseOriginal ==
    /\ pc = "verify"
    /\ NotSame
    /\ pc' = "refused"
    /\ UNCHANGED <<scene, replaying, original, sched, index, current, attempts,
                   trace>>

\* It does: the schedule given is where the search starts.
Adopt ==
    /\ pc = "verify"
    /\ Same
    /\ sched' = original.schedule
    /\ current' = found
    /\ trace' = path
    /\ index' = 1
    /\ pc' = "scan"
    /\ UNCHANGED <<scene, replaying, original, attempts>>

\* The inner loop is over, or has only the empty candidate to offer, which is
\* skipped.
Exhausted == index > Len(sched) \/ Len(sched) = 1

\* The next candidate is replayed.
Try ==
    /\ pc = "scan"
    /\ ~Exhausted
    /\ Evaluate(Without(sched, index))
    /\ pc' = "trial"
    /\ UNCHANGED <<scene, original, sched, index, current, trace>>

\* Slip: the scan goes on where it is after a removal.
RemoveAndGoOn ==
    /\ pc = "trial"
    /\ Same
    /\ sched' = script
    /\ current' = found
    /\ trace' = path
    /\ index' = index
    /\ pc' = "scan"
    /\ UNCHANGED <<scene, replaying, original, attempts>>

\* Slip: the witness kept is that of the replay before.
RemoveStale ==
    /\ pc = "trial"
    /\ Same
    /\ sched' = script
    /\ index' = 1
    /\ pc' = "scan"
    /\ UNCHANGED <<scene, replaying, original, current, attempts, trace>>

\* The transition is removed; start over from the beginning.
Remove ==
    /\ pc = "trial"
    /\ Same
    /\ sched' = script
    /\ current' = found
    /\ trace' = path
    /\ index' = 1
    /\ pc' = "scan"
    /\ UNCHANGED <<scene, replaying, original, attempts>>

\* Slip: the loop's header and its body both move on.
KeepTwice ==
    /\ pc = "trial"
    /\ NotSame
    /\ index' = index + 2
    /\ pc' = "scan"
    /\ UNCHANGED <<scene, replaying, original, sched, current, attempts, trace>>

\* The transition is required.
Keep ==
    /\ pc = "trial"
    /\ NotSame
    /\ index' = index + 1
    /\ pc' = "scan"
    /\ UNCHANGED <<scene, replaying, original, sched, current, attempts,
                   trace>>

\* Slip: the mark that something was removed is not reset.
ReturnRestart ==
    /\ pc = "scan"
    /\ Exhausted
    /\ IF sched = original.schedule THEN pc' = "done" /\ UNCHANGED index
       ELSE pc' = "scan" /\ index' = 1
    /\ UNCHANGED <<scene, replaying, original, sched, current, attempts, trace>>

\* Slip: skipping the empty candidate does not move on.
ReturnNotSingle ==
    /\ pc = "scan"
    /\ index > Len(sched)
    /\ pc' = "done"
    /\ UNCHANGED <<scene, replaying, original, sched, index, current, attempts,
                   trace>>

\* No transition was removed: current is returned.
Return ==
    /\ pc = "scan"
    /\ Exhausted
    /\ pc' = "done"
    /\ UNCHANGED <<scene, replaying, original, sched, index, current, attempts,
                   trace>>

Next ==
    \/ Replaying
    \/ RefuseInput
    \/ Verify
    \/ RefuseOriginal
    \/ Adopt
    \/ Try
    \/ Remove
    \/ Keep
    \/ Return

Spec == Init /\ [][Next]_vars

\* The program is sequential: it runs until it returns.
FairSpec == Spec /\ WF_vars(Next)

-----------------------------------------------------------------------------
(* Properties. *)

\* Every variable has the values its Go type and its use allow; a candidate is
\* never empty, and it is what it is meant to be.
TypeOK ==
    /\ ReplayTypeOK
    /\ pc \in {"start", "verify", "scan", "trial", "done", "refused"}
    /\ original \in Witness
    /\ sched \in Schedule
    /\ index \in 1..Len(sched) + 1
    /\ current \in Witness
    /\ attempts \in Nat
    /\ trace \in Seq(State(scene))
    /\ pc = "verify" => script = original.schedule
    /\ pc = "trial" => /\ index <= Len(sched)
                       /\ script = Without(sched, index)
                       /\ script # <<>>

IsPrefixOf(s, t) == Len(s) <= Len(t) /\ s = SubSeq(t, 1, Len(s))

\* Minimize's two variables, updated apart (minimize.go:78-95), belong
\* together: current is evidence of the violation aimed at, an execution of the
\* scene that violates nothing before its end and there fails the invariant of
\* the witness given, and its schedule is the part of sched a replay executes.
CurrentIsEvidence ==
    pc \in {"scan", "trial", "done"} =>
        /\ IsRun(scene, trace, current.schedule)
        /\ CleanUpTo(scene, trace, Len(trace) - 1)
        /\ Violates(scene, trace[Len(trace)])
        /\ current = Check(scene, trace[Len(trace)], current.schedule)
        /\ current.invariant = Target
        /\ IsPrefixOf(current.schedule, sched)

\* What is returned is the whole of the schedule that was found minimal:
\* nothing is left after the violation (minimize_test.go:116-117).
NothingAfterViolation == pc = "done" => current.schedule = sched

\* The invariant that replaying schedule fails, "" if it fails none.
FailureOf(sc, schedule) == WitnessOf(sc, schedule).invariant

\* 1-minimality (minimize.go:4-5): no single transition can be removed from the
\* witness returned while what is left still fails the same invariant.
OneMinimal ==
    pc = "done" /\ Len(current.schedule) > 1 =>
        \A n \in 1..Len(current.schedule) :
            FailureOf(scene, Without(current.schedule, n)) # Target

\* s is t with transitions left out: at[i] is the position in t of the i-th.
IsPartOf(s, t) ==
    \E at \in [1..Len(s) -> 1..Len(t)] :
        /\ \A i, k \in 1..Len(s) : i < k => at[i] < at[k]
        /\ \A i \in 1..Len(s) : s[i] = t[at[i]]

\* The witness returned is the one given with transitions left out: their order
\* is kept and none is invented (minimize.go:136-141).
OnlyRemoves == pc = "done" => IsPartOf(current.schedule, original.schedule)

\* Minimize refuses a witness only if it has nothing to aim at or does not
\* reproduce (minimize.go:62-75).
RefusesOnlyTheRest ==
    pc = "refused" =>
        Target = "" \/ FailureOf(scene, original.schedule) # Target

\* At most one replay for each position of each schedule that is shortened,
\* and one for the witness given.
AttemptsBounded ==
    LET n == Len(original.schedule)
    IN  attempts <= 1 + (n * (n + 1)) \div 2

\* Minimize returns.
Terminates == <>(pc \in {"done", "refused"})
=============================================================================
