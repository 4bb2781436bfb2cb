-------------------------------- MODULE Live --------------------------------
(***************************************************************************)
(* A schedule executed on real goroutines (internal/gate): execute, and    *)
(* the adapter ReplayScenario under replay.Run, each the one client of a   *)
(* fresh Controller; and the program they drive, the live check-then-act.  *)
(* Goroutines and client take the steps of module Gate.                    *)
(*                                                                         *)
(* The program may also be one with a fault, since nothing keeps a Program *)
(* to its contract: a worker that panics, returns early or skips a gate,   *)
(* or workers that hold a mutex across their second gate.                  *)
(***************************************************************************)
EXTENDS Gate, Builtins

CONSTANTS
    Program,    \* the programs executed
    Script      \* the schedules they are executed on

Explorer == "explorer"

\* The programs with one fault, at one of these places in a worker.
Fault(fault, places) == [fault : {fault}, worker : Goroutine, at : places]

ASSUME LiveAssumption ==
    /\ Goroutine = {"A", "B"}
    /\ Key = {T(w, n) : w \in Goroutine, n \in {0, 1}}
    /\ Caller = {Explorer}

ASSUME FaultAssumption ==
    Program \subseteq UNION {
        Fault("none", {"nowhere"}), Fault("mutex", {"nowhere"}),
        Fault("panic", {"gate0", "check", "gate1", "act", "end"}),
        Fault("return", {"gate0", "gate1"}),
        Fault("skip", {"gate0"})}

VARIABLES
    \* What is executed.
    program,    \* the fault, the worker it happens in, and where
    adapter,    \* is it ReplayScenario, and not execute?
    script,     \* the schedule
    \* The program: ip[w] is where worker w is in run.
    ip,
    available, owners,      \* ctaShared
    ok,         \* ok[w]: the local variable of w, TRUE before it is set
    sum,        \* sum[w]: what w read of owners, to increment it
    \* The client.
    stage,      \* "starting", "settling", "ready", "releasing", "refused" or
                \* "quiescing"
    built,      \* the transitions executed
    next,       \* next[w]: the next step of w
    outcome,    \* "running", "invalid" (an error), "crashed" (a panic of the
                \* client), "passed" or "failed"
    found,      \* the witness of a run that failed
    path        \* history: the memory of the program at each Observe

inputs == <<program, adapter, script>>
code == <<ip, available, owners, ok, sum>>
client == <<stage, built, next, outcome, found, path>>
live == <<vars, inputs, code, client>>

Steps == 2

-----------------------------------------------------------------------------
(* What the client sees of the program, and the scene it stands for. *)

\* The memory of the program, in the terms of the cooperative scene.
Memory(n) ==
    [taken |-> ~available, owners |-> owners,
     local |-> [w \in Goroutine |-> ~ok[w]], next |-> n]

LiveStates(p) == [taken : BOOLEAN, owners : 0..2,
                  local : [Goroutine -> BOOLEAN], next : [Goroutine -> 0..Steps]]

\* The transitions whose execution ends in an error: the worker panics before
\* its next gate, or is never parked at this one.
Refused(p, t) ==
    \/ p.fault = "panic" /\ p.at = "gate0"
    \/ /\ t.worker = p.worker
       /\ t.step = CASE p.fault = "panic" -> IF p.at \in {"act", "end"} THEN 1
                                             ELSE 0
                     [] p.fault = "return" -> IF p.at = "gate0" THEN 0 ELSE 1
                     [] p.fault = "skip" -> 0
                     [] OTHER -> Steps

LiveInitial(p) == CheckThenActInitial

LiveApply(p, s, t) == CheckThenActApply(s, t)

\* The transitions that can be executed: all that enabled offers, but those.
LiveEnabled(p, s) == {t \in NextSteps(s.next, Steps) : ~Refused(p, t)}

OwnersSpec(p) == <<[name |-> "owners <= 1", hold |-> "owners"]>>

OwnersErr(p, hold, s) == IF s.owners > 1 THEN "owners = 2" ELSE "nil"

\* replay.Run of the same schedule on the cooperative scene.
Coop == INSTANCE Replay WITH
            Scene      <- Program,
            State      <- LiveStates,
            Transition <- Key,
            Initial    <- LiveInitial,
            Enabled    <- LiveEnabled,
            Apply      <- LiveApply,
            Specs      <- OwnersSpec,
            Err        <- OwnersErr,
            Precedes   <- StepPrecedes,
            Text       <- {"", "nil", "owners", "owners <= 1", "owners = 2"},
            scene      <- program,
            state      <- path[Len(path)],
            taken      <- built,
            outcome    <- IF outcome = "crashed" THEN "invalid" ELSE outcome

LiveInit ==
    /\ Init
    /\ \A w \in Goroutine : at[w] = T("A", 0)
    /\ program \in Program
    /\ adapter \in BOOLEAN
    /\ script \in Script
    /\ ip = [w \in Goroutine |-> "gate0"]
    /\ available = TRUE
    /\ owners = 0
    /\ ok = Both(TRUE)
    /\ sum = Both(0)
    /\ stage = "starting"
    /\ built = <<>>
    /\ next = Both(0)
    /\ outcome = "running"
    /\ found = Coop!NoWitness
    /\ path = <<Memory(next)>>

-----------------------------------------------------------------------------
(* Steps of the program. *)

Jump(w, from, to) == ip[w] = from /\ ip' = [ip EXCEPT ![w] = to]

Running(w) == pc[w] = "run"

Faulty(w) == program.worker = w /\ program.at = ip[w]

\* Worker w calls Await.
Gated(w) ==
    /\ ~Faulty(w)
    /\ \/ ip[w] = "gate0" /\ AwaitPark(w, T(w, 0))
       \/ ip[w] = "gate1" /\ AwaitPark(w, T(w, 1))
    /\ UNCHANGED code

\* Await returns.
Past(w) ==
    /\ AwaitLeave(w)
    /\ Jump(w, "gate0", "check") \/ Jump(w, "gate1", "act")
    /\ UNCHANGED <<available, owners, ok, sum>>

\* The mutex, which w takes before it checks and gives back after it acted.
Holds(w) == ip[w] \in {"gate1", "act", "load", "store"}

Blocked(w) ==
    /\ program.fault = "mutex"
    /\ Running(w) /\ ip[w] = "check"
    /\ \E v \in Goroutine \ {w} : Holds(v)

\* ok := s.available
CheckIt(w) ==
    /\ Running(w) /\ ~Faulty(w) /\ ~Blocked(w)
    /\ Jump(w, "check", "gate1")
    /\ ok' = [ok EXCEPT ![w] = available]
    /\ UNCHANGED <<vars, available, owners, sum>>

\* if ok { s.available = false
Act(w) ==
    /\ Running(w) /\ ~Faulty(w)
    /\ \/ ok[w] /\ Jump(w, "act", "load") /\ available' = FALSE
       \/ ~ok[w] /\ Jump(w, "act", "end") /\ UNCHANGED available
    /\ UNCHANGED <<vars, owners, ok, sum>>

\* s.owners++ }
Load(w) ==
    /\ Running(w)
    /\ Jump(w, "load", "store")
    /\ sum' = [sum EXCEPT ![w] = owners]
    /\ UNCHANGED <<vars, available, owners, ok>>

Store(w) ==
    /\ Running(w)
    /\ Jump(w, "store", "end")
    /\ owners' = sum[w] + 1
    /\ UNCHANGED <<vars, available, ok, sum>>

\* run returns, or its panic has been recovered.
Return(w) ==
    /\ Running(w) => ip[w] = "end" /\ ~Faulty(w)
    /\ Exit(w)
    /\ UNCHANGED code

\* The fault of the program.
Misstep(w) ==
    /\ Running(w) /\ Faulty(w)
    /\ \/ program.fault = "panic" /\ Panic(w) /\ UNCHANGED code
       \/ program.fault = "return" /\ Exit(w) /\ UNCHANGED code
       \/ /\ program.fault = "skip"
          /\ Jump(w, "gate0", "gate1")
          /\ UNCHANGED <<vars, available, owners, ok, sum>>

WorkerStep(w) ==
    /\ \/ Gated(w) \/ Past(w)
       \/ CheckIt(w) \/ Act(w) \/ Load(w) \/ Store(w)
       \/ Return(w) \/ Misstep(w)
       \/ Recover(w) /\ UNCHANGED code
    /\ UNCHANGED <<inputs, client>>

-----------------------------------------------------------------------------
(* Steps of the client. *)

Idle == call[Explorer] = "idle"

Stage(from, to) == outcome = "running" /\ stage = from /\ stage' = to

\* Start launches the workers, one after the other.
Launch(w) ==
    /\ stage = "starting"
    /\ \A v \in Goroutine : Rank[v] < Rank[w] => pc[v] # "new"
    /\ Go(w)
    /\ UNCHANGED client

\* Quiesce is called after Start.
Settle ==
    /\ Stage("starting", "settling")
    /\ \A w \in Goroutine : pc[w] # "new"
    /\ QuiesceCall(Explorer)
    /\ UNCHANGED <<built, next, outcome, found, path>>

\* A call of the Controller goes on.
InController ==
    /\ \/ QuiesceCheck(Explorer) \/ Wake(Explorer)
       \/ ReleaseCheck(Explorer) \/ ReturnNoWaiter(Explorer)
    /\ UNCHANGED client

\* The first Quiesce returned: the loop over the schedule begins.
Ready ==
    /\ Stage("settling", "ready")
    /\ Idle
    /\ UNCHANGED <<vars, built, next, outcome, found, path>>

Remaining == Len(built) < Len(script)

This == script[Len(built) + 1]

Over(verdict) ==
    /\ outcome' = verdict
    /\ UNCHANGED <<stage, built, next, found, path>>

\* contains: enabled does not offer the transition.
Reject ==
    /\ outcome = "running" /\ stage = "ready" /\ Remaining
    /\ This \notin NextSteps(next, Steps)
    /\ Over("invalid")
    /\ UNCHANGED vars

\* Release is called: it opens the gate, or gives an error back, for want of a
\* waiter.  The gate is not open yet, since next only grows.
Open ==
    /\ Remaining
    /\ This \in NextSteps(next, Steps)
    /\ \/ ReleaseOpen(Explorer, This) /\ Stage("ready", "releasing")
       \/ ReleaseNoWaiter(Explorer, This) /\ Stage("ready", "refused")
    /\ UNCHANGED <<built, next, outcome, found, path>>

\* An error ends execute, and Apply, which has no error to return, panics.
Abort == Over(IF adapter THEN "crashed" ELSE "invalid")

\* Release returned an error.
GiveUp ==
    /\ outcome = "running" /\ stage = "refused" /\ Idle
    /\ Abort
    /\ UNCHANGED vars

\* Slip: the goroutines let go are not waited for.
QuiesceSkipped ==
    /\ Stage("releasing", "quiescing")
    /\ Idle
    /\ UNCHANGED <<vars, built, next, outcome, found, path>>

\* Release returned: Quiesce is called.
Quiesce ==
    /\ Stage("releasing", "quiescing")
    /\ Idle
    /\ QuiesceCall(Explorer)
    /\ UNCHANGED <<built, next, outcome, found, path>>

\* The step is recorded, the program observed and its invariant checked.
Observe ==
    LET n == [next EXCEPT ![This.worker] = @ + 1]
        s == Memory(n)
    IN  /\ built' = Append(built, This)
        /\ next' = n
        /\ path' = Append(path, s)
        /\ found' = Coop!Check(program, s, built')
        /\ outcome' = IF Coop!Violates(program, s) THEN "failed" ELSE "running"

\* Slip: nobody asks whether a worker panicked.
JudgeBlindly ==
    /\ Stage("quiescing", "ready")
    /\ Idle
    /\ Observe
    /\ UNCHANGED vars

\* Quiesce returned: a worker panicked, or the step was executed.
Judge ==
    /\ Idle
    /\ \/ /\ panicked # {}
          /\ outcome = "running" /\ stage = "quiescing"
          /\ Abort
       \/ /\ panicked = {}
          /\ Stage("quiescing", "ready")
          /\ Observe
    /\ UNCHANGED vars

\* The schedule was executed to its end.
Finish ==
    /\ outcome = "running" /\ stage = "ready" /\ ~Remaining
    /\ Over("passed")
    /\ UNCHANGED vars

ClientStep ==
    /\ \/ \E w \in Goroutine : Launch(w)
       \/ Settle \/ InController \/ Ready
       \/ Reject \/ Open \/ GiveUp \/ Quiesce \/ Judge \/ Finish
    /\ UNCHANGED <<inputs, code>>

LiveNext ==
    /\ process = "running"
    /\ \/ \E w \in Goroutine : WorkerStep(w)
       \/ ClientStep

LiveSpec == LiveInit /\ [][LiveNext]_live

\* The Go scheduler runs every goroutine that can run, that of the client too.
FairLive ==
    /\ LiveSpec
    /\ \A w \in Goroutine : WF_live(Alive(WorkerStep(w)))
    /\ WF_live(Alive(ClientStep))

-----------------------------------------------------------------------------
(* Properties. *)

\* "Same contract as replay.Run" (explore.go:72): every execution on real
\* goroutines, by execute or through the adapter, is one of replay.Run on the
\* cooperative scene, with the same verdict, the same evidence and, at each
\* Observe, the same memory; errors come exactly where a worker panics or is
\* not parked.
ImplementsReplay == Coop!RunSpec

\* Worker w is about to use the memory of the program.
Accessing(w) == Running(w) /\ ip[w] \in {"check", "act", "load", "store"}

\* check_then_act.go:35-39 reads and writes ctaShared, and Observe
\* (explore.go:124) reads it, without a lock: never two of them at a time.  Nor
\* is the unlocked read of the parked map (gate.go:126) a race here: execute
\* calls Release on a world at rest, so no goroutine writes meanwhile.
NoDataRace ==
    /\ \A v, w \in Goroutine : Accessing(v) /\ Accessing(w) => v = w
    /\ stage = "quiescing" /\ Idle => \A w \in Goroutine : ~Accessing(w)
    /\ process = "running"

Honest == program.fault \in {"none", "mutex"}

\* What execute leaves behind when it returns, on success or on an error
\* (explore.go:109-129): of a program that keeps its contract
\* (gate.go:212-213), the workers that finished have exited, and each of the
\* others is parked for ever at its next gate.  None is blocked on anything
\* else, which would not be quiet (LIMITS.md:20): no verdict is given then.
LeftParked ==
    Honest /\ outcome # "running" =>
        \A w \in Goroutine :
            IF next[w] < Steps THEN pc[w] = "await" /\ at[w] = T(w, next[w])
            ELSE pc[w] = "exited"

\* An execution ends, or it hangs on a worker that is blocked outside Await
\* for good (gate.go:159).
EndsOrBlocks ==
    <>(outcome # "running") \/ <>[](\E w \in Goroutine : Blocked(w))
=============================================================================
