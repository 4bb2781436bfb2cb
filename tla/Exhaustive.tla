----------------------------- MODULE Exhaustive -----------------------------
(***************************************************************************)
(* scheduler.ExploreExhaustive: a depth-first search of the schedules of a *)
(* scene, with an explicit stack, optional pruning of states already       *)
(* expanded, an optional depth bound and optional statistics.              *)
(*                                                                         *)
(* One step is one iteration of the outer loop (a frame is popped) or of   *)
(* the inner one (a successor is checked).  The program is sequential and  *)
(* deterministic; what varies is its input: the scene and the options.     *)
(***************************************************************************)
EXTENDS Scenario, FiniteSets

CONSTANTS
    Fingerprint(_, _),  \* Fingerprint(sc, s): the identity of a state
    Input,              \* the pairs of a scene and a configuration explored
    MaxUint64           \* the largest number that a uint64 holds

ASSUME WidthAssumption == MaxUint64 \in Nat

\* ExhaustiveConfig, but for the fields that only ask for memory figures.
Config == [maxDepth : Nat, continueAfterViolation : BOOLEAN, measure : BOOLEAN,
           prune : BOOLEAN, workers : Nat, stepsPerWorker : Nat]

ASSUME InputAssumption == Input \subseteq [sc : Scene, cfg : Config]

\* NodeKey: the fingerprint, and what can run next.
NodeKey(sc, s) == <<Fingerprint(sc, s), Enabled(sc, s)>>

\* What NodeKey's comment (stats.go:25-27) expects of a scenario: its states
\* embed all there is to know, so that different nodes have different keys.
ASSUME FingerprintAssumption ==
    \A sc \in Scene : \A s, r \in State(sc) :
        NodeKey(sc, s) = NodeKey(sc, r) => s = r

\* sortedEnabled sorts: of the transitions enabled in a state, any part has a
\* first one, and no two come before each other.
ASSUME SortedAssumption ==
    \A sc \in Scene : \A s \in State(sc) :
        /\ \A T \in SUBSET Enabled(sc, s) :
              T # {} => \E t \in T : \A u \in T \ {t} : Precedes(t, u)
        /\ \A t, u \in Enabled(sc, s) : Precedes(t, u) => ~Precedes(u, t)

\* The next steps of the workers, next[w] being the number w has taken.
NextOf(next, steps) ==
    {[worker |-> w, step |-> next[w]] : w \in {v \in DOMAIN next : next[v] < steps}}

\* The workers W take steps steps each, one after the other, and what one of
\* them does disables nothing of the others.
OneByOne(sc, W, steps) ==
    \A s \in State(sc) : \E next \in [W -> 0..steps] :
        /\ Enabled(sc, s) = NextOf(next, steps)
        /\ \A t \in Enabled(sc, s) :
              Enabled(sc, Apply(sc, s, t)) =
                  NextOf([next EXCEPT ![t.worker] = @ + 1], steps)

\* A scene of so many workers, all of which start at their first step.
Independent(sc, workers, steps) ==
    LET W == {t.worker : t \in Enabled(sc, Initial(sc))}
    IN  /\ IsFiniteSet(W)
        /\ Cardinality(W) = workers
        /\ Enabled(sc, Initial(sc)) = NextOf([w \in W |-> 0], steps)
        /\ OneByOne(sc, W, steps)

\* The configuration announces workers and steps for such scenes only: it does
\* so for interleave, with the parameters of the scene (cli.go:194-197).
ASSUME ShapeAssumption ==
    \A in \in Input :
        in.cfg.workers > 0 /\ in.cfg.stepsPerWorker > 0
        => Independent(in.sc, in.cfg.workers, in.cfg.stepsPerWorker)

VARIABLES
    scene,      \* the scenario searched
    cfg,        \* the configuration
    pc,         \* "pop", "children" or "done"
    stack,      \* the frames to visit, top first
    frame,      \* the frame whose successors are being checked
    todo,       \* its transitions not yet tried
    expanded,   \* the keys of the nodes expanded, when pruning
    explored,   \* the number of schedules explored
    first,      \* the first witness found
    stats,      \* the counters of the meter
    seen,       \* the fingerprints the meter has seen
    result,     \* what is returned
    reached,    \* history: the states popped and not pruned, with their depths
    trace       \* history: the states the schedule of first goes through

input == <<scene, cfg>>
vars == <<input, pc, stack, frame, todo, expanded, explored, first, stats,
          seen, result, reached, trace>>

-----------------------------------------------------------------------------
(* Frames and counters. *)

\* A frame; path is a history of the states its schedule goes through.
Frame(s, schedule, path) == [state |-> s, schedule |-> schedule, path |-> path]

Root(sc) == Frame(Initial(sc), <<>>, <<Initial(sc)>>)

\* Slip: siblings share one backing array, and the schedule of each ends with
\* the transition appended last.
ChildShared(f, t) ==
    LET s == Apply(scene, f.state, t)
        last == CHOOSE u \in Enabled(scene, f.state) :
                    \A v \in Enabled(scene, f.state) \ {u} : Precedes(u, v)
    IN  Frame(s, Append(f.schedule, last), Append(f.path, s))

\* The frame after t.
Child(f, t) ==
    LET s == Apply(scene, f.state, t)
    IN  Frame(s, Append(f.schedule, t), Append(f.path, s))

Depth(f) == Len(f.schedule)

\* Slip: the bound is met one step early.
AtBoundEarly(f) == cfg.maxDepth > 0 /\ Depth(f) + 1 >= cfg.maxDepth

\* The bound on the length of schedules, if any, is met.
AtBound(f) == cfg.maxDepth > 0 /\ Depth(f) >= cfg.maxDepth

\* Slip: the key forgets the fingerprint.
KnownByEnabled(f) ==
    cfg.prune /\ \E key \in expanded : key[2] = Enabled(scene, f.state)

\* The node was expanded before, and the search prunes.
Known(f) == cfg.prune /\ NodeKey(scene, f.state) \in expanded

Factorial[n \in Nat] == IF n = 0 THEN 1 ELSE n * Factorial[n-1]

\* Slip: the steps of one worker only are divided out.
InterleavingsOnce(workers, steps) ==
    Factorial[workers * steps] \div Factorial[steps]

\* den: the factorial of steps, multiplied once for each worker.
Denominator(steps) ==
    LET D[n \in Nat] == IF n = 0 THEN 1 ELSE D[n-1] * Factorial[steps]
    IN  D

\* The quotient of Multinomial, for workers that take the same number of steps:
\* big.Int computes it without a limit.
Interleavings(workers, steps) ==
    Factorial[workers * steps] \div Denominator(steps)[workers]

\* Slip: the quotient loses its high bits.
MultinomialWrapped(workers, steps) ==
    Interleavings(workers, steps) % (MaxUint64 + 1)

\* Multinomial: 0 stands for a number that does not fit.
Multinomial(workers, steps) ==
    IF Interleavings(workers, steps) <= MaxUint64
    THEN Interleavings(workers, steps) ELSE 0

\* PossibleSchedules, which depends on the configuration only.
PossibleSchedules ==
    IF cfg.workers > 0 /\ cfg.stepsPerWorker > 0
    THEN Multinomial(cfg.workers, cfg.stepsPerWorker) ELSE 0

\* The counters change only when the search is measured.
Meter(new) == stats' = IF cfg.measure THEN new ELSE stats

\* The fields of witness.Stats that count.
Tally == {"schedules", "visited", "unique", "violations", "pruned"}

\* One more of what counter counts.
Count(counts, counter) == [counts EXCEPT ![counter] = @ + 1]

\* Slip: every state is new.
VisitedAsNew(s) == Count(Count(stats, "visited"), "unique")

\* visit(s), on the counters.
Visited(s) ==
    IF Fingerprint(scene, s) \in seen THEN Count(stats, "visited")
    ELSE Count(Count(stats, "visited"), "unique")

Result(passed, w, n) ==
    [passed |-> passed, steps |-> Len(w.schedule), schedule |-> w.schedule,
     witness |-> w, explored |-> n]

Init ==
    /\ \E in \in Input : scene = in.sc /\ cfg = in.cfg
    /\ pc = "pop"
    /\ stack = <<Root(scene)>>
    /\ frame = Root(scene)
    /\ todo = {}
    /\ expanded = {}
    /\ explored = 0
    /\ first = NoWitness
    /\ stats = [c \in Tally |-> IF c \in {"visited", "unique"} THEN 1 ELSE 0]
    /\ seen = {Fingerprint(scene, Initial(scene))}
    /\ result = Result(FALSE, NoWitness, 0)
    /\ reached = {}
    /\ trace = <<>>

-----------------------------------------------------------------------------
(* The outer loop. *)

\* Pop the top frame, which is not skipped.
Pop ==
    /\ pc = "pop"
    /\ stack # <<>>
    /\ stack' = Tail(stack)
    /\ reached' = reached \cup {<<Head(stack).state, Depth(Head(stack))>>}

\* The frame is at the depth bound, or has no successor: a schedule is done.
PopLeaf ==
    /\ Pop
    /\ AtBound(Head(stack)) \/ Enabled(scene, Head(stack).state) = {}
    /\ explored' = explored + 1
    /\ Meter(Count(stats, "schedules"))
    /\ UNCHANGED <<input, pc, frame, todo, expanded, first, seen, result, trace>>

\* The node was expanded before.
PopPruned ==
    LET f == Head(stack)
    IN  /\ pc = "pop"
        /\ stack # <<>>
        /\ ~AtBound(f)
        /\ Enabled(scene, f.state) # {}
        /\ Known(f)
        /\ stack' = Tail(stack)
        /\ Meter(Count(stats, "pruned"))
        /\ UNCHANGED <<input, pc, frame, todo, expanded, explored, first, seen,
                       result, reached, trace>>

\* The node is expanded.
PopExpand ==
    LET f == Head(stack)
    IN  /\ Pop
        /\ ~AtBound(f)
        /\ Enabled(scene, f.state) # {}
        /\ ~Known(f)
        /\ expanded' = IF cfg.prune THEN expanded \cup {NodeKey(scene, f.state)}
                       ELSE expanded
        /\ frame' = f
        /\ todo' = Enabled(scene, f.state)
        /\ pc' = "children"
        /\ UNCHANGED <<input, explored, first, stats, seen, result, trace>>

\* Slip: a search that met a violation goes on.
FinishClean ==
    /\ pc = "pop"
    /\ stack = <<>>
    /\ first = NoWitness
    /\ pc' = "done"
    /\ result' = Result(TRUE, first, explored)
    /\ UNCHANGED <<input, stack, frame, todo, expanded, explored, first, stats,
                   seen, reached, trace>>

\* The stack is empty: the search is over.
Finish ==
    /\ pc = "pop"
    /\ stack = <<>>
    /\ pc' = "done"
    /\ result' = Result(first = NoWitness, first, explored)
    /\ UNCHANGED <<input, stack, frame, todo, expanded, explored, first, stats,
                   seen, reached, trace>>

-----------------------------------------------------------------------------
(* The inner loop: transitions are tried from the highest to the lowest. *)

\* The successor tried next.
NextChild == Child(frame, Highest(todo))

\* It is visited, and its transition is not tried again.
Try ==
    /\ pc = "children"
    /\ todo' = todo \ {Highest(todo)}
    /\ seen' = IF cfg.measure THEN seen \cup {Fingerprint(scene, NextChild.state)}
               ELSE seen

\* Slip: the inner loop is not left after the last transition.
ProceedPast == pc' = "children"

\* After the last transition the outer loop goes on.
Proceed == pc' = IF todo' = {} THEN "pop" ELSE "children"

\* The successor violates no invariant and is pushed.
ChildPushed ==
    /\ Try
    /\ ~Violates(scene, NextChild.state)
    /\ stack' = <<NextChild>> \o stack
    /\ Meter(Visited(NextChild.state))
    /\ Proceed
    /\ UNCHANGED <<input, frame, expanded, explored, first, result, reached,
                   trace>>

\* The successor violates an invariant: keep the first witness, do not expand
\* past the violation, and stop unless told to continue.
ChildViolates ==
    LET w == Check(scene, NextChild.state, NextChild.schedule)
    IN  /\ Try
        /\ Violates(scene, NextChild.state)
        /\ Meter(Count(Count(Visited(NextChild.state), "violations"),
                       "schedules"))
        /\ first' = IF first = NoWitness THEN w ELSE first
        /\ trace' = IF first = NoWitness THEN NextChild.path ELSE trace
        /\ \/ /\ cfg.continueAfterViolation
              /\ explored' = explored + 1
              /\ Proceed
              /\ UNCHANGED result
           \/ /\ ~cfg.continueAfterViolation
              /\ result' = Result(FALSE, w, explored)
              /\ pc' = "done"
              /\ UNCHANGED explored
        /\ UNCHANGED <<input, stack, frame, expanded, reached>>

-----------------------------------------------------------------------------
Next ==
    \/ PopLeaf
    \/ PopPruned
    \/ PopExpand
    \/ Finish
    \/ ChildPushed
    \/ ChildViolates

Spec == Init /\ [][Next]_vars

\* The program is sequential: it runs until it returns.
FairSpec == Spec /\ WF_vars(Next)

-----------------------------------------------------------------------------
(* Properties. *)

FrameSet == [state : State(scene), schedule : Schedule, path : Seq(State(scene))]

Tallies == [Tally -> Nat]

Outcome == [passed : BOOLEAN, steps : Nat, schedule : Schedule,
            witness : Witness, explored : Nat]

\* The parts of TypeOK: control, what is counted, what is found.
ControlOK ==
    /\ scene \in Scene
    /\ cfg \in Config
    /\ pc \in {"pop", "children", "done"}
    /\ stack \in Seq(FrameSet)
    /\ frame \in FrameSet
    /\ todo \subseteq Enabled(scene, frame.state)
    /\ pc = "children" => todo # {}
    /\ pc = "pop" => todo = {}

CountsOK ==
    /\ expanded \subseteq {NodeKey(scene, s) : s \in State(scene)}
    /\ seen \subseteq {Fingerprint(scene, s) : s \in State(scene)}
    /\ explored \in Nat
    /\ stats \in Tallies

FoundOK ==
    /\ first \in Witness
    /\ result \in Outcome
    /\ reached \subseteq State(scene) \X Nat
    /\ trace \in Seq(State(scene))

\* Every variable has the values its Go type and its use allow.
TypeOK == ControlOK /\ CountsOK /\ FoundOK

\* The frames on the stack.
Waiting == {stack[i] : i \in 1..Len(stack)}

\* f is an execution of the scene, none of whose states violates an invariant.
IsCleanRun(f) ==
    /\ IsRun(scene, f.path, f.schedule)
    /\ f.path[Len(f.path)] = f.state
    /\ CleanUpTo(scene, f.path, Len(f.path))

\* The search stays on executions of the scene and does not go past a
\* violation (scheduler.go:138-139, 169): every frame is a clean execution.
FramesAreCleanRuns ==
    \A f \in Waiting \cup {frame} : IsCleanRun(f)

\* The witness is evidence (witness.go:6, invariant.go:15): what is returned
\* is the first witness or none; its schedule is an execution of the scene that
\* violates no invariant before its last state, and there it fails exactly the
\* check the witness reports.
WitnessReproduces ==
    /\ result.witness \in {NoWitness, first}
    /\ first # NoWitness =>
          /\ IsRun(scene, trace, first.schedule)
          /\ CleanUpTo(scene, trace, Len(trace) - 1)
          /\ Violates(scene, trace[Len(trace)])
          /\ first = Check(scene, trace[Len(trace)], first.schedule)

\* State s, d transitions away from the initial one, is dealt with: popped, or
\* on the stack.  A search that prunes forgets depths.
DealtWith(s, d) ==
    \/ \E p \in reached : p[1] = s /\ (p[2] = d \/ cfg.prune)
    \/ \E f \in Waiting : f.state = s /\ (Depth(f) = d \/ cfg.prune)

\* What becomes of transition t of the node p that was reached: it is beyond
\* the bound, still to be tried, or was taken to a state that violates nothing
\* and is dealt with.
Covered(p, t) ==
    \/ cfg.maxDepth > 0 /\ p[2] >= cfg.maxDepth
    \/ t \in todo /\ p = <<frame.state, Depth(frame)>>
    \/ /\ ~Violates(scene, Apply(scene, p[1], t))
       /\ DealtWith(Apply(scene, p[1], t), p[2] + 1)

\* A key is in expanded only when its node was reached: pruning refers to work
\* that is done, or under way (scheduler.go:124-133).
ExpandedWereReached ==
    \A key \in expanded : \E p \in reached : key = NodeKey(scene, p[1])

\* Nothing is lost on the way: as long as no violation was found, the initial
\* state is dealt with and every transition of a node reached is covered.
NothingLost ==
    first = NoWitness =>
        /\ DealtWith(Initial(scene), 0)
        /\ \A p \in reached : \A t \in Enabled(scene, p[1]) : Covered(p, t)

\* The invariant PassIsCertified and PassIsSound follow from: all of the above,
\* and a search that passes has nothing left to do.
Coverage ==
    /\ TypeOK
    /\ ExpandedWereReached
    /\ NothingLost
    /\ pc = "done" /\ result.passed => first = NoWitness /\ stack = <<>> /\ todo = {}

\* "Passed", without a bound, is backed by a certificate, whether or not the
\* search pruned (scheduler.go:36-38, 124-133): the states reached are closed
\* under successors and none of the successors violates an invariant.
PassIsCertified ==
    pc = "done" /\ result.passed /\ cfg.maxDepth = 0 =>
        Certifies({p[1] : p \in reached}, scene)

\* The states of the scene tell how many steps were taken to get there.
EmbedsProgress ==
    \A n \in 1..Cardinality(State(scene)) : \A m \in 0..n-1 :
        Layer(scene)[m] \cap Layer(scene)[n] = {}

\* "Passed" means that no schedule, or none within the bound, violates an
\* invariant.  Pruning under a bound needs a scene whose states embed their
\* progress, as the comment of NodeKey asks (stats.go:25-27): the key of a
\* node does not tell how far from the bound it is.
PassIsSound ==
    LET horizon == IF cfg.maxDepth = 0 THEN Cardinality(State(scene))
                   ELSE cfg.maxDepth
    IN  /\ pc = "done"
        /\ result.passed
        /\ cfg.maxDepth = 0 \/ ~cfg.prune \/ EmbedsProgress
        => \A n \in 1..horizon : \A s \in Layer(scene)[n] : ~Violates(scene, s)

\* The schedule, of at most n transitions, to the violation that comes first
\* from s: all successors of a state are checked, from the highest down, before
\* the search goes into the lowest.  It is empty if there is none.
Canonical(sc) ==
    LET bad(s) == {t \in Enabled(sc, s) : Violates(sc, Apply(sc, s, t))}
        low(U) == CHOOSE t \in U : \A u \in U \ {t} : Precedes(t, u)
        high(U) == CHOOSE t \in U : \A u \in U \ {t} : Precedes(u, t)
        C[n \in Nat] ==
            [s \in State(sc) |->
                IF n = 0 THEN <<>>
                ELSE IF bad(s) # {} THEN <<high(bad(s))>>
                ELSE LET U == {t \in Enabled(sc, s) :
                                 C[n-1][Apply(sc, s, t)] # <<>>}
                     IN  IF U = {} THEN <<>>
                         ELSE <<low(U)>> \o C[n-1][Apply(sc, s, low(U))]]
    IN  C

\* No execution of the scene is endless.
Acyclic == Layer(scene)[Cardinality(State(scene))] = {}

\* The prune contract (prune_test.go:63-66): the first witness is the same
\* whether or not the search prunes, measures or continues: the canonical one.
\* Under a bound, the contract needs a scene whose states embed their progress.
FirstIsCanonical ==
    LET horizon == IF cfg.maxDepth = 0 THEN Cardinality(State(scene))
                   ELSE cfg.maxDepth
    IN  /\ pc = "done"
        /\ cfg.prune => EmbedsProgress \/ (cfg.maxDepth = 0 /\ Acyclic)
        => result.schedule = Canonical(scene)[horizon][Initial(scene)]

\* The statistics balance (witness.go:20-31): with pruning, each state visited
\* waits on the stack, ended a schedule, was pruned, or is in expanded; and
\* SchedulesExplored is Result.Explored, but for the violation that stopped
\* the search.
StatsBalance ==
    cfg.measure =>
        /\ cfg.prune =>
              stats.visited = Len(stack) + stats.schedules + stats.pruned
                              + Cardinality(expanded)
        /\ stats.unique = Cardinality(seen)
        /\ stats.schedules - explored =
              IF first # NoWitness /\ ~cfg.continueAfterViolation THEN 1 ELSE 0

\* An unpruned search of a scene without shared state explores exactly the
\* interleavings that PossibleSchedules announces, and 0 is announced just when
\* there are more of them than a uint64 holds (stats.go:43-45, 63-65).
InterleavingsAreCounted ==
    /\ pc = "done"
    /\ result.passed
    /\ cfg.measure /\ ~cfg.prune /\ cfg.maxDepth = 0
    /\ cfg.workers > 0 /\ cfg.stepsPerWorker > 0
    => PossibleSchedules =
          IF stats.schedules <= MaxUint64 THEN stats.schedules ELSE 0

\* A search returns.
Terminates == <>(pc = "done")
=============================================================================
