----------------------------- MODULE GateSearch -----------------------------
(***************************************************************************)
(* gate.Explore: the recursive search, in the order of the transitions,    *)
(* for a schedule that fails.  Every candidate is executed from the start, *)
(* on a fresh world: module Live shows that execute is a replay of the     *)
(* scene the program stands for, so here it is one.                        *)
(*                                                                         *)
(* Enabled holds the transitions that execute carries out.  The search     *)
(* goes by the contract of Program instead and tries them all, those for   *)
(* which a worker panics or is not parked included.                        *)
(***************************************************************************)
EXTENDS Replay, FiniteSets

CONSTANTS
    Workers(_),     \* Workers(p): the workers of program p
    Steps(_)        \* Steps(p): how many gates each of them has

ASSUME ProgramAssumption ==
    \A p \in Scene :
        /\ IsFiniteSet(Workers(p)) /\ Workers(p) # {}
        /\ Steps(p) \in Nat \ {0}
        /\ [worker : Workers(p), step : 0..Steps(p)-1] \subseteq Transition

\* Sorting a slice of gates leaves one of them first.
ASSUME SortAssumption ==
    \A p \in Scene :
        \A T \in SUBSET [worker : Workers(p), step : 0..Steps(p)-1] :
            T # {} => \E t \in T : \A u \in T \ {t} : Precedes(t, u)

VARIABLES
    frames,     \* the calls of search under way, the latest one last
    explored,   \* the count handed through the calls
    phase,      \* "search", "execute" or "over"
    result      \* what Explore returns, NoWitness for a pass

searching == <<frames, explored, phase, result>>

\* enabled: the next step of every worker of p that has one left.
Offer(p, next) ==
    {[worker |-> w, step |-> next[w]] :
        w \in {v \in Workers(p) : next[v] < Steps(p)}}

\* The map next of those who execute sched: the steps each worker has taken.
Counts(p, sched) ==
    [w \in Workers(p) |->
        Cardinality({j \in DOMAIN sched : sched[j].worker = w})]

\* The schedules of program p that execute carries out with no violation before
\* their last transition, with the states they end in, by their length.
Runs(p) ==
    LET R[n \in Nat] ==
            IF n = 0 THEN {[sched |-> <<>>, end |-> Initial(p)]}
            ELSE UNION {{[sched |-> Append(r.sched, t), end |-> Apply(p, r.end, t)] :
                            t \in Enabled(p, r.end)} :
                        r \in {q \in R[n-1] : n > 1 => ~Violates(p, q.end)}}
    IN  UNION {R[n] : n \in 0..Cardinality(Workers(p)) * Steps(p)}

\* execute carries out nothing else than enabled offers (explore.go:112).
ASSUME OfferAssumption ==
    \A p \in Scene : \A r \in Runs(p) :
        Enabled(p, r.end) \subseteq Offer(p, Counts(p, r.sched))

\* The first of the transitions, as enabled sorts them.
First(ts) == CHOOSE t \in ts : \A u \in ts \ {t} : Precedes(t, u)

\* One call of search: rest holds the transitions it has yet to try.
Call(sched, next) == [sched |-> sched, next |-> next, rest |-> Offer(scene, next)]

SearchBegin ==
    /\ InitReplay(<<>>)
    /\ frames = <<Call(<<>>, [w \in Workers(scene) |-> 0])>>
    /\ explored = 0
    /\ phase = "search"
    /\ result = NoWitness

-----------------------------------------------------------------------------

Top == frames[Len(frames)]

Callers == SubSeq(frames, 1, Len(frames) - 1)

Searching == phase = "search" /\ frames # <<>>

\* Every worker has taken all its steps: the call counts its schedule.
Leaf ==
    /\ Searching
    /\ Offer(scene, Top.next) = {}
    /\ explored' = explored + 1
    /\ frames' = Callers
    /\ UNCHANGED <<scene, replaying, phase, result>>

\* The next transition is tried: the candidate is executed.
TryNext ==
    /\ Searching
    /\ Top.rest # {}
    /\ LET t == First(Top.rest)
       IN  /\ BeginReplay(Append(Top.sched, t))
           /\ frames' = [frames EXCEPT ![Len(frames)].rest = @ \ {t}]
    /\ phase' = "execute"
    /\ UNCHANGED <<scene, explored, result>>

\* execute goes on.
Executing ==
    /\ phase = "execute"
    /\ ReplayStep
    /\ UNCHANGED <<scene, searching>>

Executed(verdict) ==
    /\ phase = "execute"
    /\ outcome = verdict
    /\ explored' = explored + 1

\* Slip: an error ends the loop.
BreakOnError ==
    /\ Executed("invalid")
    /\ frames' = Callers
    /\ phase' = "search"
    /\ UNCHANGED <<scene, replaying, result>>

\* Slip: a candidate that cannot be executed is tried again.
SkipAndRetry ==
    /\ phase = "execute"
    /\ outcome = "invalid"
    /\ frames' = [frames EXCEPT ![Len(frames)].rest = @ \cup {script[Len(script)]}]
    /\ phase' = "search"
    /\ UNCHANGED <<scene, replaying, explored, result>>

\* execute returned an error: the candidate is passed over.
Skip ==
    /\ Executed("invalid")
    /\ phase' = "search"
    /\ UNCHANGED <<scene, replaying, frames, result>>

\* Slip: failedAt is the index of the transition, and not its number.
ReportIndex ==
    /\ Executed("failed")
    /\ result' = [found EXCEPT !.failedAt = @ - 1]
    /\ frames' = <<>>
    /\ phase' = "over"
    /\ UNCHANGED <<scene, replaying>>

\* The candidate violates an invariant: all calls return its witness.
Report ==
    /\ Executed("failed")
    /\ result' = found
    /\ frames' = <<>>
    /\ phase' = "over"
    /\ UNCHANGED <<scene, replaying>>

LastWorker == script[Len(script)].worker

\* Slip: the map of the caller is counted up, and not a copy of it.
DescendShared ==
    /\ Executed("passed")
    /\ LET n == [Top.next EXCEPT ![LastWorker] = @ + 1]
       IN  frames' = Append([frames EXCEPT ![Len(frames)].next = n],
                            Call(script, n))
    /\ phase' = "search"
    /\ UNCHANGED <<scene, replaying, result>>

\* The candidate violates nothing: search calls itself on it.
Descend ==
    /\ Executed("passed")
    /\ frames' = Append(frames,
                        Call(script, [Top.next EXCEPT ![LastWorker] = @ + 1]))
    /\ phase' = "search"
    /\ UNCHANGED <<scene, replaying, result>>

\* All transitions were tried: the call returns.
Back ==
    /\ Searching
    /\ Top.rest = {}
    /\ Offer(scene, Top.next) # {}
    /\ frames' = Callers
    /\ UNCHANGED <<scene, replaying, explored, phase, result>>

\* The first call has returned nothing: a pass.
Passed ==
    /\ phase = "search"
    /\ frames = <<>>
    /\ phase' = "over"
    /\ UNCHANGED <<scene, replaying, frames, explored, result>>

Search ==
    \/ Leaf \/ TryNext \/ Executing \/ Skip \/ Report \/ Descend \/ Back
    \/ Passed

-----------------------------------------------------------------------------
(* Properties. *)

FailingRuns(p) == {r \in Runs(p) : r.sched # <<>> /\ Violates(p, r.end)}

\* The order in which the candidates are tried.
Before(s, u) ==
    \E n \in 0..Len(s) :
        /\ n <= Len(u)
        /\ SubSeq(s, 1, n) = SubSeq(u, 1, n)
        /\ IF n = Len(s) THEN n < Len(u)
           ELSE n < Len(u) /\ Precedes(s[n+1], u[n+1])

\* Explore "finds the first schedule (deterministic order) that violates a
\* spec" (explore.go:11), among those that execute carries out, for programs
\* that break their contract too: no other one comes before it in the order of
\* the search, and the witness is what was observed at its end.  When Explore
\* passes, there is none (explore.go:32).
FindsTheFirst ==
    phase = "over" =>
        IF result = NoWitness THEN FailingRuns(scene) = {}
        ELSE \E r \in FailingRuns(scene) :
                /\ result = Check(scene, r.end, r.sched)
                /\ \A q \in FailingRuns(scene) :
                      q.sched # r.sched => Before(r.sched, q.sched)

\* The program keeps its contract (gate.go:212-213): whatever was executed,
\* the gates that follow are reached.
Honest ==
    \A r \in Runs(scene) :
        Enabled(scene, r.end) = Offer(scene, Counts(scene, r.sched))

\* Explored is "schedules fully explored (exhaustive)" (witness.go:39): when
\* Explore passes a program that keeps its contract, it is the number of the
\* complete schedules, those after which nothing is left to run.
ExploredCountsSchedules ==
    phase = "over" /\ result = NoWitness /\ Honest =>
        explored = Cardinality({r \in Runs(scene) : Enabled(scene, r.end) = {}})

\* The error that search drops "should not happen with DFS" (explore.go:55),
\* and a panic is "surfaced via Panicked / execute error" (LIMITS.md:12): when
\* Explore passes, nothing panicked and the gates promised were reached.
PassHidesNothing == phase = "over" /\ result = NoWitness => Honest

=============================================================================
