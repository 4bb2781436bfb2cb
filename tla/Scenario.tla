------------------------------ MODULE Scenario ------------------------------
(***************************************************************************)
(* The interface scenario.Scenario, the check of its invariants            *)
(* (invariant.Check) and the order in which transitions are tried          *)
(* (sortedEnabled).  A scene is a value of Scene; its operations are       *)
(* constants, which Builtins defines for the scenes of the repository.     *)
(***************************************************************************)
EXTENDS Naturals, Sequences

CONSTANTS
    Scene,            \* the scenarios under exploration
    State(_),         \* State(sc): the states of scene sc
    Transition,       \* pairs of a worker and a step index
    Initial(_),       \* Initial(sc)
    Enabled(_, _),    \* Enabled(sc, s): the transitions that may run from s
    Apply(_, _, _),   \* Apply(sc, s, t): the state after t, enabled in s
    Specs(_),         \* Specs(sc): its invariants, in the order of the slice
    Err(_, _, _),     \* Err(sc, hold, s): what the function hold returns in s
    Precedes(_, _),   \* the order of transitions: by worker, then by step
    Text              \* the strings invariants are named and reported with

ASSUME TextAssumption == {"", "nil"} \subseteq Text

\* An invariant of a scene: its name, possibly "", and its function, possibly
\* "nil".  Functions return "nil" or the text of an error.
Spec0 == [name : Text, hold : Text]

ASSUME SceneAssumption ==
    \A sc \in Scene :
        /\ Initial(sc) \in State(sc)
        /\ \A s \in State(sc) :
              /\ Enabled(sc, s) \subseteq Transition
              /\ \A t \in Enabled(sc, s) : Apply(sc, s, t) \in State(sc)

ASSUME SpecsAssumption ==
    \A sc \in Scene :
        /\ Specs(sc) \in Seq(Spec0)
        /\ \A s \in State(sc) : \A i \in 1..Len(Specs(sc)) :
              Specs(sc)[i].hold # "nil" =>
                  Err(sc, Specs(sc)[i].hold, s) \in Text

\* Sorting a slice of transitions leaves one of them last.
ASSUME OrderAssumption ==
    \A sc \in Scene : \A s \in State(sc) :
        \A T \in SUBSET Enabled(sc, s) :
            T # {} => \E t \in T : \A u \in T \ {t} : Precedes(u, t)

-----------------------------------------------------------------------------
(* invariant.Check *)

\* The invariants of sc that do not hold in s.
Failing(sc, s) ==
    {i \in 1..Len(Specs(sc)) :
        /\ Specs(sc)[i].hold # "nil"
        /\ Err(sc, Specs(sc)[i].hold, s) # "nil"}

Violates(sc, s) == Failing(sc, s) # {}

\* "No witness" is a record no failed check returns: failedAt is positive.
NoWitness ==
    [schedule |-> <<>>, invariant |-> "", violation |-> "", failedAt |-> 0]

\* The evidence that spec fails after schedule with the error err.
Evidence(spec, err, schedule) ==
    [schedule  |-> schedule,
     invariant |-> IF spec.name = "" THEN err ELSE spec.name,
     violation |-> err,
     failedAt  |-> Len(schedule)]

\* The first of the invariants that do not hold in s.
FirstFailing(sc, s) ==
    Specs(sc)[CHOOSE m \in Failing(sc, s) : \A n \in Failing(sc, s) : m <= n]

\* The evidence of the first invariant that fails in s, after schedule.
Check(sc, s, schedule) ==
    IF ~Violates(sc, s) THEN NoWitness
    ELSE LET spec == FirstFailing(sc, s)
         IN  Evidence(spec, Err(sc, spec.hold, s), schedule)

\* Whatever fails in sc, the evidence names it.
Named(sc) ==
    \A s \in State(sc) : \A i \in Failing(sc, s) :
        Specs(sc)[i].name # "" \/ Err(sc, Specs(sc)[i].hold, s) # ""

Schedule == Seq(Transition)

Witness == [schedule : Schedule, invariant : Text, violation : Text,
            failedAt : Nat]

-----------------------------------------------------------------------------
(* Executions. *)

\* Slip: the loop over the sorted transitions runs forward.
Lowest(T) == CHOOSE t \in T : \A u \in T \ {t} : Precedes(t, u)

\* The transition that sortedEnabled puts last among those of T.
Highest(T) == CHOOSE t \in T : \A u \in T \ {t} : Precedes(u, t)

\* schedule takes sc from its initial state through the states of path.
IsRun(sc, path, schedule) ==
    /\ Len(path) = Len(schedule) + 1
    /\ path[1] = Initial(sc)
    /\ \A i \in 1..Len(schedule) :
          /\ schedule[i] \in Enabled(sc, path[i])
          /\ path[i+1] = Apply(sc, path[i], schedule[i])

\* What replaying schedule shows: the evidence of the violation it ends in, if
\* it is an execution of sc that violates nothing before; run[n] is the state
\* after n transitions, if there is one.
WitnessOf(sc, schedule) ==
    LET run[n \in 0..Len(schedule)] ==
            IF n = 0 THEN {Initial(sc)}
            ELSE {Apply(sc, s, schedule[n]) :
                     s \in {r \in run[n-1] : /\ schedule[n] \in Enabled(sc, r)
                                             /\ n > 1 => ~Violates(sc, r)}}
        failed == {n \in 1..Len(schedule) : \E s \in run[n] : Violates(sc, s)}
    IN  IF failed = {} THEN NoWitness
        ELSE LET n == CHOOSE n \in failed : TRUE
                 s == CHOOSE s \in run[n] : TRUE
             IN  Check(sc, s, SubSeq(schedule, 1, n))

\* No state after the initial one, up to the n-th, violates an invariant.
CleanUpTo(sc, path, n) == \A i \in 2..n : ~Violates(sc, path[i])

\* The states of sc that are n transitions away from the initial one.
Layer(sc) ==
    LET L[n \in Nat] ==
            IF n = 0 THEN {Initial(sc)}
            ELSE UNION {{Apply(sc, s, t) : t \in Enabled(sc, s)} : s \in L[n-1]}
    IN  L

\* S shows that no schedule of sc violates an invariant: it contains the
\* initial state and the successors of its members, none of which violates.
Certifies(S, sc) ==
    /\ Initial(sc) \in S
    /\ \A s \in S : \A t \in Enabled(sc, s) :
          /\ ~Violates(sc, Apply(sc, s, t))
          /\ Apply(sc, s, t) \in S
=============================================================================
