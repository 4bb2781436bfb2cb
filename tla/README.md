# rupurace in TLA+

rupurace looks for concurrency bugs by controlling schedules: it explores the
interleavings of a *scenario*, reports the schedule that breaks an invariant as
a *witness*, shortens the witness and replays it. There are two worlds it can
drive. In the *cooperative* one a scenario is a state and a transition
function (`internal/scenario`), and exploration is a graph search. In the
*live* one real goroutines stop at named gates (`internal/gate`), and an
explorer opens one gate at a time.

This directory models the parts whose correctness is not obvious from reading
them, checks them with TLC on small instances and proves the most important
claims with TLAPS for all instances.

## 1. The system

| Component | Source (`internal/`) | State | Operations |
|---|---|---|---|
| Controller | `gate/gate.go` | per transition a release channel and a count of parked goroutines; `living`, `exited`; a list of wake-up channels; recovered panics; one mutex | `Go`, `Await` (SUT); `Release`, `Quiesce` (explorer); the deferred recovery |
| Live programs | `gate/{gate,explore,scenario,check_then_act}.go` | a fresh controller and world per execution; steps per worker | `execute`, `Explore`/`search`, `Replay`, `ReplayScenario` |
| Scenario | `scenario/scenario.go` | none (interface) | `Initial`, `Enabled`, `Apply` |
| Built-in scenes | `scenario/*.go`, `demos/demos.go` | value states per scene | the three operations, and one invariant each |
| Invariant check | `invariant/invariant.go` | none | `Check` |
| Exhaustive search | `scheduler/{scheduler,stats}.go` | DFS stack, keys expanded, counters, first witness | `ExploreExhaustive` |
| Seeded search | `scheduler/scheduler.go` | current state, schedule, generator | `Explore` |
| Replay | `replay/replay.go` | current state, prefix taken | `Run` |
| Minimizer | `minimize/minimize.go` | schedule being shortened, last reproduced witness | `Minimize` |
| Report, audit | `report`, `audit` | JSON records | conversions |
| Command line | `cli/cli.go`, `cmd/rupurace` | files: raw and minimized artifact, audit log | `explore`, `replay`, `minimize` |
| Version, spike | `version`, `src/spike` | none | none |

How they interact:

* An explorer (`execute`) and the goroutines of the SUT share a `Controller`.
  Everything is under `Controller.mu`, except three receives on channels and
  one read of the parked map (below). This is the only real concurrency.
* `ExploreExhaustive`, `Explore` and `Run` call the operations of a `Scenario`
  and, after every `Apply`, `invariant.Check`.
* `Minimize` calls `replay.Run` once per candidate.
* The command line runs explore, then minimize, and writes both witnesses;
  `replay` and `minimize` read them back, with the scene rebuilt by
  `demos.Load` from its name and parameters.

What is hard:

* lost wake-ups, and quiescence inferred from sums of counters (controller);
* a panic recorded in one critical section and counted in another;
* an unlocked read of shared state by the explorer, which is sound only if the
  world stands still between `Quiesce` and the next `Release`;
* pruning: the search drops a node it has expanded before, under a depth
  bound, with early return, and with a witness that must not depend on it;
* schedules of siblings that grow from one slice;
* two variables of the minimizer (`sched`, `current`) updated apart, with a
  replay that may stop before the end of a candidate.

Every such place is listed under `hazards` in `PROJECT.json`, at its line, with
the properties that cover it.

## 2. Modules

Every action stands for one critical section of a lock, one iteration of a
loop or one call; the comment above it names the function, and `map` in
`PROJECT.json` names the lines. Definitions whose comment begins with "Slip"
are not part of any specification: they are plausible mistakes, and each
property is checked to fail when the real definition is replaced by one of
them (`mutants`).

| Module | Models | Uses |
|---|---|---|
| `Gate` | `Controller`: one action per critical section or channel receive, with the most general client | |
| `Scenario` | the interface `Scenario` as constant operators with assumptions; `invariant.Check`; witnesses; executions | |
| `Builtins` | the six scenes and the invariants of `demos` as values of `Scenario`'s constants | |
| `Scenes` | the constants for TLC: the built-in scenes, and small graphs that stand for other implementations of the interface | `Builtins` |
| `Exhaustive` | `ExploreExhaustive`: one step per popped frame and per successor; options, pruning, statistics | `Scenario` |
| `Seeded` | `Explore`: one step per iteration; the generator picks any enabled transition | `Scenario` |
| `Replay` | `replay.Run`: one step per transition of any schedule | `Scenario` |
| `Minimize` | `minimize.Minimize`: what it does between replays; a trial is a `Replay` | `Replay` |
| `Pipeline` | explore, then minimize, then replay of either artifact, as `runExplore` and `runReplay` chain them | `Minimize`, an instance of `Seeded` |
| `Live` | `execute` and the adapter `ReplayScenario` on real goroutines: the live check-then-act, sound or with a fault, and the one client of its `Controller` | `Gate`, `Builtins`, an instance of `Replay` as its abstract specification |
| `GateSearch` | `gate.Explore`: the recursive search, an execution on a fresh world per candidate | `Replay` |
| `GatePipeline` | `gate.Explore`, then `Minimize` through the adapter, then `gate.Replay` | `Minimize`, `GateSearch` |
| `Programs` | programs to check `GatePipeline` with: the built-in scenes on goroutines, with panics and early returns | `Scenes` |
| `Artifacts` | the witness files: the commands `explore`, `minimize` and `replay`, the order of their writes, writes that fail, parameters that come back from JSON | `Scenario` |
| `MCGate`, `MCExhaustive`, `MCMinimize`, `MCPipeline`, `MCLive`, `MCGatePipeline`, `MCArtifacts` | instances for TLC | the module in their name, and `Scenes` or `Programs` |
| `GateProofs`, `ScenarioProofs`, `ExhaustiveProofs`, `MinimizeProofs`, `ArtifactsProofs`, `PipelineProofs` | theorems | the module in their name, `ScenarioProofs`; `ExhaustiveProofs` also an instance of `Builtins` |
| `LiveProofs` | theorems, one of them that `Live` implements `Replay` | `Live`, `GateProofs` |
| `GatePipelineProofs` | theorems about `GateSearch` and `GatePipeline` | `GatePipeline`, `MinimizeProofs` |

**Gate.** The variables `release`, `parked`, `living`, `exited`, `waiters` and
`panicked` are the fields of `Controller`; `parked[k] = 0` also stands for a
missing entry, which the code does not distinguish. `pc` and `at` say where
each goroutine of the SUT is, `call` and `want` where each caller is. A caller
enlists under the lock and receives after unlocking, so `QuiesceCheck` and
`Wake` are separate steps, and so are the two halves of `Await` and of the
deferred recovery. `WriteParked` may kill the process when another goroutine is
iterating over the map, as the Go runtime may and need not do. `Reawait` tells
whether the SUT keeps the contract of `Program.Start`: await each transition at
most once, that is, never after it was opened.

**Scenario and the scenes.** A scene is a value; `Initial`, `Enabled`, `Apply`,
`Specs` and `Err` are constant operators on scenes. Slices of enabled
transitions are sets, because every caller sorts them; `Precedes` is the
order. Strings are members of `Text`: the name of a check and the text of its
error matter (`Check` uses the error as the name when there is none), their
wording does not. `Fingerprint` is a constant too, with the assumption that the
comment of `NodeKey` states.

**Exhaustive.** `stack`, `expanded` and the counters are those of the code;
`frame` and `todo` are the locals of the inner loop. `reached`, `trace` and
the `path` of a frame are history: no guard reads them.

**Replay and Minimize.** `script`, `state` and `taken` are the argument and the
locals of `Run`; `sched`, `index`, `current` and `attempts` those of
`Minimize`. `removedOne` is not a variable: a removal starts over at once
(`break`), so it is false exactly when the scan reaches its end. The empty
candidate is skipped by `Exhausted`: it arises only from a schedule of one
transition, and then the scan ends without a trial.

**Pipeline.** The artifact of a run carries a schedule and the name of an
invariant, and scenes keep nothing between runs, so a replay from a file is a
replay of the witness. What can happen to the file in between is in
`Artifacts`.

**Live.** `Gate` lets any caller call anything; `Live` restricts it to the one
client that the tool has. `stage` says where that client is in `execute` or, with
`adapter`, in `Initial` and `Apply` of the adapter; every call of the controller
is the one of `Gate`, step by step. `ip` is the program counter of each worker
inside `run` of `check_then_act.go`, `available`, `owners`, `ok` and `sum` are
its memory (`s.owners++` is a read and a write). Nothing forces a `Program` to
keep its contract, so `program` may name a fault: a panic at any of five places,
a return at either gate, a skipped gate, or a mutex held across a gate. The
abstract specification is `Replay` on the cooperative scene: `ImplementsReplay`
says that each `Judge` is one step of `replay.Run`, with the memory that
`Observe` sees equal to the state of the scene, that each error is an illegal
step of it, and that everything else stutters. `path` is the history this needs.
The adapter ends an execution with a panic where `execute` returns an error; the
refinement maps both to "invalid".

**GateSearch and GatePipeline.** Since `Live` shows that an execution is a replay
of the scene its program stands for, here it is one. `frames` is the stack of
calls of `search`, each with its own copy of `next`; `explored` is handed through
them. `Enabled` holds what the program carries out and `Offer` what its contract
promises; the two differ for programs that break it, and there the search passes
the candidate over while the adapter panics (`Crash`).

**Artifacts.** What exploring finds and what minimizing returns are tables
(`Finds`, `Minimum`) of what the other modules show of them: any violating
execution, and any 1-minimal part of it. A command is one step up to its first
write, then one step per write; a write may fail before or after it has
truncated the file. Commands follow one another in any order over the same
paths, so `minimize` may read what `explore` wrote, or its own output.
`Decoded` is what `demos.Load` makes of a scene's parameters once they were
JSON.

## 3. What is checked

All runs are of TLC, exhaustive over the instance, and take seconds (the gate
runs up to a minute or so).

| Run | Instance | Shows |
|---|---|---|
| `gate` | 2 goroutines, 2 transitions, 2 callers, transitions awaited again (120 232 states) | counters agree with goroutines; no wake-up is lost; `Quiesce` and `Release` return only in the states they promise; a recorded panic is never missed; `Quiesce` returns when the goroutines settle, `Release` when the SUT stops awaiting transitions that are open |
| `gate_killed` | 1 of each | **violated**: the parked map is read without the lock |
| `exhaustive` | built-in scenes and graphs, all options (10 258 states) | the verdict, the witness, pruning and the statistics are what they claim to be; the search ends |
| `minimize` | legal, illegal, padded and foreign witnesses of built-in scenes and graphs (12 735 states) | what is returned is evidence, 1-minimal, with nothing after the violation and nothing added; only witnesses that do not reproduce are refused; quadratically many replays; it ends |
| `pipeline` | seeded walks of built-in scenes and graphs with caps (4 388 states) | a pass is honest about what was walked; the minimizer never refuses a witness the tool found; replaying either artifact fails the same check at the same step; the whole ends |
| `live` | every schedule that is executable but for its last transition, on 18 programs, by `execute` and by the adapter (106 234 states) | an execution on goroutines is a replay on the scene, verdict, evidence and memory included; the world stands still between `Quiesce` and `Release`; no data race in the program; what is left behind is parked or gone; an execution ends or hangs on a worker blocked outside `Await` |
| `gate_pipeline` | 14 programs, 7 of them with a fault (1 950 states) | the search finds the first schedule that fails, and its witness survives minimizing and replaying; the adapter panics only for programs that break their contract; the whole ends |
| `gate_pipeline_hides` | the programs that panic | **violated**: a pass does not tell that a worker panicked |
| `gate_pipeline_explored` | the programs that keep their contract | **violated**: `Explored` is the number of schedules fully explored |
| `artifacts` | 2 scenes, 2 paths, any sequence of commands (51 681 states) | every file reproduces its own evidence; exit code 2 means that the evidence is on the disk; both files are there after an explore that reports no error; the raw one is not lost when the other cannot be written |
| `artifacts_raw` | same | **violated**: the raw witness is preserved |
| `artifacts_large` | 2 scenes with a parameter above 2^53 | **violated**: a replay from the file gives the same evidence back |

`CHECK_DEADLOCK FALSE` is set where the system really may stop: the searches,
the minimizer and the pipeline return, and in `Gate` goroutines exit, wait at
gates nobody opens, or die with the process.

**Bounds.** Two goroutines are enough for the counters to hide one that runs
behind one that is parked or has exited, and for one to arrive at a gate that
another is leaving; with three, one may start while two are parked at the same
or at different transitions, and that is left to the theorems, which hold for
any number. Two callers are needed for a
wake-up to be taken by one and lost to the other, and two transitions for a
broadcast that concerns another waiter. Goroutines do not restart, so the
state space is finite without further bounds. The scenes are those of the
repository with their default parameters or smaller; depth bounds are 0
(none), 1 and 3. The graphs add what the built-in scenes lack: cycles
(`Ring`, `Wander`), a node with ways of different lengths to it (`Shortcut`),
several invariants with a nil one and an unnamed one (`Several`), a transition
that becomes removable only when a later one is gone (`Detour`, `Wander`),
and a commuting diamond with idle loops (`Diamond`). `StateTable` in the MC
modules cuts `State` at seven transitions, which is all of every scene.

Two properties of `Exhaustive` are conditional. Pruning under a depth bound
can miss a violation when states do not tell their depth, because the key of a
node does not contain it: `PassIsSound` and `FirstIsCanonical` ask for scenes
whose states embed their progress (`EmbedsProgress`), as `stats.go:25-27` does.
For other scenes nothing is promised, and a bounded search that prunes may pass
them wrongly; no property covers this. That all built-in scenes embed their
progress, for any parameters, `interleave` with at most four workers, is proved
(`DemosPassSoundly`, `DemosFindTheFirst`).

`MaxUint64` is 20 in the run `exhaustive`, where `interleave` has 6, 20 and 90
interleavings: one number below the limit, one that just fits and one that does
not, for which `PossibleSchedules` must be 0. The factorials on the way exceed the
limit in all three, as `big.Int` lets them.

**Fairness.** In `Gate`, weak fairness of the code of the controller, one
formula per goroutine and per caller: Go runs what can run, and mutexes and
closed channels do not block for ever. Nothing is assumed of the SUT or of the
calls made: `QuiesceReturns` takes "the goroutines settle" as its premise,
because a SUT that computes for ever, or blocks outside a gate, keeps
`Quiesce` waiting (`LIMITS.md` says so), and `ReleaseReturns` that from some time
on no transition is awaited that is already open (`Program.Start` has each awaited
once, `gate.go:211`), because goroutines that take turns at an open gate may keep
its count above 0 whenever `Release` looks. In `Live`, weak fairness of every
worker and of the client, which are goroutines alike; nothing is assumed of the mutex of a
faulty program, and `EndsOrBlocks` names the hang it causes. The other modules
are sequential programs: weak fairness of `Next`, that is, the program runs until it returns.

## 4. What is proved

Every theorem holds for all values of the constants, under the named
assumptions of the modules, which TLC also evaluates on each instance:

* `GateAssumption` (finitely many goroutines), `LiveAssumption` (two workers of
  two steps each, one client), `FaultAssumption` (the faults a program may have);
* `SceneAssumption` (operations stay within `State` and `Transition`),
  `SpecsAssumption` and `TextAssumption` (what an invariant may return),
  `OrderAssumption` (of enabled transitions one is last, as `sort` needs),
  `SortAssumption` (the same, and one is first, of the transitions of a program);
* `InputAssumption`, `EvidencesAssumption`, `SubjectAssumption`, `BoundAssumption`,
  `PathAssumption`, `DecodedAssumption` (what the runs are given has its type);
* `ProgramAssumption` (a program has workers and each has steps, as `validate`
  demands), `OfferAssumption` (what a program carries out is among what its
  `Enabled` offers, since `search` and `execute` ask the same function);
* `NamesAssumption` and the `Named` of `SubjectAssumption`: whatever fails, the
  evidence names it, that is, an invariant without a name fails with a text;
* `WidthAssumption` (what a `uint64` holds is a natural number, of any size);
* `FingerprintAssumption`, for pruning: different nodes have different keys. This
  one is an assumption of the program, too, made in the comment of `NodeKey`;
* `SortedAssumption`, for the order of the search: of the transitions enabled in a
  state any part has a first one, and no two come before each other, since
  `sortedEnabled` sorts by worker and step, a strict order;
* `ShapeAssumption`, for the statistics: a configuration announces workers and
  steps only for a scene whose workers take that many steps one by one, none
  disabling those of another. `explore` does so for `interleave` alone, with the
  scene's own parameters (`cli.go:194-197`).

* **`GateProofs`.** The inductive invariant `IInv` joins the types, `CountsAgree`,
  `NoLostWakeup`, `PanicsPending` (a panic not yet recorded belongs to a
  goroutine that has not been counted as exited) and, if transitions are not
  awaited again, `OpenedAreWatched`. `CountsAgree` is what makes `Settled`, a
  comparison of counters, mean something about goroutines: the parked ones and
  the exited ones are disjoint sets of started ones, so if the counts add up
  there is nobody else. From it follow `QuiesceIsSound`, `PanicsAreNotMissed`,
  `ReleaseLeavesNobody` and, for one caller and a SUT that keeps the contract,
  `QuiesceStandsStill`.
* **`ScenarioProofs`.** What all searches rest on: a failed check returns
  evidence; a clean execution grows by a transition; executions whose
  schedules agree agree in their states (scenes are deterministic). The prover
  knows no induction, so least elements replace it: `LeastNumber` gives the
  least number with a property that is stated as a set, and `AllNumbers` says
  that a set which contains 0 and every successor is all of `Nat`. `Recursion` proves
  that a function defined by recursion over `Nat` exists and is unique, from
  the finite approximations of it; with it the recursive definitions of the model
  (`Layer`, `WitnessOf`, `Runs`) can be unfolded one step at a time (`LayerDef`,
  `WitnessOfReached`, `WalksCollected`). So `FailureOf`, which TLC computes, is
  proved to be what `Fails` says with a quantifier over executions.
* **`ExhaustiveProofs`.** `Coverage` is inductive: while no violation was met,
  every transition of every node reached was checked and leads to a node that
  is reached, waits, or is pruned for a key that stands for one of those. When
  the stack is empty this is a certificate (`PassesAreCertified`), hence no
  execution violates (`PassesAreClean`; under a bound, for unpruned searches).
  For the verdict itself, `InLayers` says that what is reached or
  waits lies in the layer of its depth, so that a state at distance n is met at
  depth n when depths matter (under a bound, with states that embed their
  progress). Without a bound the certificate covers every layer. `PassesAreSound`
  is the result: for every scene with finitely many states, a pass means that no
  schedule up to the horizon violates, pruned or not, bounded or not; `LayersApart`
  carries `EmbedsProgress`, which speaks of as many layers as there are states, to
  all layers by counting them.
  `Grounded` is inductive: frames are clean executions and the witness ends
  one (`FramesStayClean`, `WitnessesReproduce`). `Balanced` says of the counters
  that they balance and of the sets they are compared with that they are finite;
  since a search that is not told to continue ends with its first witness
  (`StopsAtFirst`), the numbers of schedules in the statistics and in the result
  differ by one violation at most (`StatisticsBalance`).

  `EveryScheduleOnce` says what the number of schedules counts in a search that
  neither prunes nor stops: the frames on the stack and the one being
  expanded diverge from each other (`Places`), so each schedule of `Finished`,
  those that end in a violation, at the bound or where nothing is enabled, goes
  through at most one of them, and it is counted when that frame is a leaf
  (`Counted`). When the stack is empty all of them were explored, each once.
  `InterleavingsCounted` adds how many there are for independent workers, which
  is what `PossibleSchedules` announces, or announces as 0 when a uint64 cannot
  hold it: from a point where each worker has some steps left, the number of
  schedules, times the factorials of what each has left, is the factorial of all
  that is left. This goes by the number of steps
  left (`Interleaves`): a schedule begins with one worker's turn, and the
  numbers for the workers add up (`Sums`, `Products`).

  The last part is about the scenes of the repository, for all their parameters
  and for `interleave` with at most four workers, with `Builtins` under the name `Demos`. `Numbers` gives for each scene a
  set of states it stays within and a number for each state that grows by one with
  every transition: the sum of what the workers have done, the tick, the value.
  So the assumptions on scenes are met (`DemosMeetAssumptions`), the layers
  are apart (`DemosEmbed`), and `PassIsSound` and `FirstIsCanonical` hold of these
  scenes without their conditions (`DemosPassSoundly`, `DemosFindTheFirst`).
  `InterleaveIsIndependent` shows that `ShapeAssumption` holds where the command
  line relies on it. `Builtins` names four workers of `interleave`, and
  these theorems speak of as many.

  `TheFirstIsCanonical` is the prune contract: the first witness is the canonical
  one, whatever the options. Its invariant has three parts for each horizon h.
  `Foretold`: without a witness, what is left to do leads to the canonical one; a
  violation among the successors still to try comes first, then the lowest
  successor that leads anywhere, then the first frame of the stack that does
  (`Gives`). `Sought`: a state that was reached leads nowhere, or what it leads to
  waits on a frame that goes through it. `Kept`: the witness is the one foretold.
  A frame is pruned when its state was reached, and `Shape` says that frames branch
  off from each other depth-first, so that no frame below goes through the state on
  the top of an execution without a way back; hence the state leads nowhere and
  nothing is lost (`PromisePruned`). What is left from a state must not depend on the
  way to it (`SameLeft`): its depth is known if states embed their progress, and
  without a bound it does not matter if no execution is endless. An unpruned search
  without a bound may go beyond any horizon, so it keeps its promise for all of
  them; a witness that is canonical from every horizon on does not come back to a
  state, or what is left from there would have two lengths (`CanonicalIsShort`, by
  the pigeonhole principle).
* **`MinimizeProofs`.** `IInv` says of a replay that it is faithful, of `current`
  that it is evidence, and of the positions passed since the scan last started
  over that the violation needs them (`PassedAreNeeded`). The verdict of a
  trial is right for every schedule (`VerdictRight`): if it fails the
  invariant, the replay finds it, since executions are deterministic. At the
  end all positions are needed. The last one is, too, so no replay stops
  before it, and `current.schedule` is all of `sched`
  (`EndsWithViolation`). With that, the witness returned is 1-minimal
  (`ReturnsMinimal`), and a refused witness does not fail what it names
  (`RefusalIsRight`). `Fails` states failure by the existence of an execution,
  `FailureOf` computes it; both are equal, so that `OneMinimalAlways` and
  `RefusesRightly` are the properties that the run `minimize` checks, word for word.
  `Progress` adds that what is being shortened is part of what was given, and
  charges each replay to a position: one passed in this scan, or one of a
  schedule that a removal has since made shorter. From it follow `ReturnsPart` and
  the quadratic bound `ReplaysAreBounded`.
* **`PipelineProofs`.** `WalkInv` is inductive for `Seeded`: the schedule is that of a
  clean execution, at most the cap long, and a witness ends one.
  `PipelineInv` joins it with the two invariants of `MinimizeProofs` across the
  calls, which is not free: `Minimize` starts from what `Seeded` returned, and
  the replay at the end runs on the variables of `Minimize`. `ExplorationIsHonest`
  follows, and `Constitution`, the promise of the tool: what it found it can
  replay, the minimized one included, to the same check at the same step.
* **`GatePipelineProofs`.** For every program of workers and steps, whatever it
  does to its contract. `SearchInv` describes the stack of calls of `search`:
  their prefixes are nested (`Nested`), each executed prefix is the candidate
  of the call below, and every failing schedule is still ahead of the search in its
  order (`NothingIsMissed`). From it follows `ExploreFindsTheFirst`. `CountInv` adds that
  `explored` counts the executed runs that are behind the search, and the
  complete ones a second time, as long as no worker deviates from
  its offer; so in the end it exceeds what `witness.go:39` says it is by the
  number of executions (`ExploreOvercounts`). `GatePipelineInv` carries evidence from the search
  through the minimizer to `gate.Replay` (`GateConstitution`) and shows that
  the adapter panics only where the offer is not carried out
  (`OnlyTheBrokenCrash`).
* **`ArtifactsProofs`.** For any paths, scenes and rounding: `Invariant` says of a
  command that is writing that its evidence is a file of its scene, that the
  raw file is on the disk once the minimized one is due, and of an `explore`
  that ended without an error that what it had to write is there. Nothing but a
  command writes, so the disk it left stays until the next one starts. From it
  follow `RawIsKept`, `GateSpeaksTheTruth` and `PairIsThere`. `FilesReproduce` adds
  what is in the files: each complete one came from exploring or from minimizing,
  however often it was read, minimized again and overwritten since, and so
  reproduces the failure it names.
* **`LiveProofs`.** Every step of `Live` is one of `Gate`, so `IInv` of `GateProofs`
  holds. `LiveInv` adds what one client makes of the gates: they are opened in the
  order of the schedule and once (`OpenedInOrder`), a worker is past a gate only if
  it was opened (`BehindGates`), and from `Release` to the return of `Quiesce`
  everybody rests but the worker let go (`RestedWorld`); that is where
  `QuiesceIsSound` is used. So only that worker touches memory, and nobody does when
  the client observes it (`NothingRaces`), and a program that keeps its contract
  leaves its workers where `ExecuteLeavesParked` says.
  `LiveImplementsReplay` is in the same module: an execution on real goroutines is a
  replay of the cooperative scene, for every schedule, every faulty program and
  both clients. `Refines` adds to `LiveInv` what the memory is, at each place of
  the worker let go, in terms of the last state of the scene (`Effects`); that a
  worker is gone only by a fault, and past no fault (`FaultsAreFelt`); and that
  errors come where the scene refuses (`RefusalsAreFaults`). `ObservesApply` then
  says that memory at rest is `applyCheckAct` of the state before. Both
  assume `~Reawait`: no gate is awaited twice, as `run` is written.

Proved and not run, since the theorems say more than a run would: the two `IInv`,
`CountsAgree`, `Coverage`, `PassIsCertified`, `FramesAreCleanRuns` and
`SchedulesCounted`; what is said of the scenes of the repository; and
`ExploreOvercounts`, whose run shows the disagreement.

Every invariant and action property of the passing runs is stated by a theorem.
Only model-checked: all liveness (`QuiesceReturns`, `ReleaseReturns`,
`Terminates`, `ComesToAnEnd`, `EndsOrBlocks`, `GateEnds`), which the prover does
not reach.

## 5. Disagreements found

* `Release` formats `ErrNoWaiter` from the parked map after unlocking
  (`gate.go:125-126`); with the schedule ahead of the SUT, a goroutine may
  write to the map meanwhile, which the Go runtime may answer by ending the
  process.
* `explore.go:55` calls the error that `search` drops impossible, and `LIMITS.md:12`
  says that panics are surfaced. A worker that panics on some schedules makes
  `execute` fail for those; `search` goes on with the next one, and `Explore`
  passes (`gate_pipeline_hides`).
* `witness.go:39` calls `Explored` "schedules fully explored (exhaustive)";
  `gate.Explore` adds one for every prefix it executes (`explore.go:53`) and one
  more for a complete schedule (`explore.go:48`), which so counts twice even if
  executions are meant (`gate_pipeline_explored`). `ExploreOvercounts` proves by
  how much.
* `minimize` says "raw witness preserved" (`cli.go:538`) and the changelog that
  both artifacts are kept. The output of `minimize x.min.json` is
  `x.min.json` itself, and `explore -o x.min.json --minimize` writes the minimized
  witness over the raw one (`artifacts_raw`).
* A parameter above 2^53 comes back from JSON as another number
  (`demos.go:239`), so a replay can give other evidence or none
  (`artifacts_large`).

Read in the code while modelling it, and left without a run:

* `scheduler.go:135` says that the lowest transition is tried first; successors
  are checked from the highest down, so the first witness may end with a
  higher transition than necessary. `FirstIsCanonical` states what holds.
* `double_withdraw.go:11-12` says that the balance becomes negative because both
  workers read before either writes; that interleaving ends at 40, and -20
  arises when they run one after the other.
* `init_ordering.go:15` states `Got == 0 || Got == Expected`; the check named so
  also fails with `Got` 0.
* `minimize.go:7-8` has a candidate that cannot be executed count as one that
  does not reproduce; through the adapter a program that returns early ends the
  process instead, because `Apply` panics (`gate/scenario.go:47`). Only programs
  that break their contract can meet this (`CrashMeansBroken`).

## 6. Not modelled

* The audit envelope, and the records of a report other than the witness file:
  written to the standard output once, never read back.
* Flag parsing, printing, durations and memory figures; the commands `version`
  and `help`, which keep no state.
* `Multinomial` beyond equal counts, which no caller gives it; names of goroutines and
  of errors, the scene names with an underscore.
* `Program.validate`, one pass over the fields of a record before anything runs.
* Two processes writing the same files at once: nothing in the tool provides for
  it, nor says what should come of it.
* `version` (a constant) and the `synctest` spike (a disposable experiment).

## 7. Plan

Done, in this order: `Gate`, `Scenario` with `Builtins`, `Exhaustive`, `Replay`,
`Minimize`, `Seeded`, `Pipeline`, `Live`, `GateSearch` with `GatePipeline`,
`Artifacts`; then the proofs of each. What is left:

* Liveness, when a prover reaches it.

Left out on purpose: one abstract search that `Seeded` and `Exhaustive` both
implement ("walk on executions, report the first violation"). It would promise no
more than `WitnessesReproduce`, `PassesAreClean` and `ExplorationIsHonest` do.
