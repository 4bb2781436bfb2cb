------------------------------ MODULE LiveProofs ------------------------------
(* What one execution on real goroutines keeps apart and leaves behind, for   *)
(* any schedule and any program that Live describes, faulty or not.           *)
EXTENDS Live, GateProofs, SequenceTheorems

\* The gate n of worker w was opened.
Opened(w, n) == release[T(w, n)] = "closed"

\* Worker w takes no step before a gate is opened.
Resting(w) ==
    \/ pc[w] = "exited"
    \/ pc[w] = "await" /\ release[at[w]] # "closed"

Places == {"gate0", "check", "gate1", "act", "load", "store", "end"}

LiveTypeOK ==
    /\ ip \in [Goroutine -> Places]
    /\ next \in [Goroutine -> 0..Steps]
    /\ process = "running"

Stepping == stage \in {"releasing", "quiescing"}

\* Where the client is in the controller, at each stage.
CallMatches ==
    /\ stage \in {"starting", "settling", "ready", "refused", "releasing",
                 "quiescing"}
    /\ call[Explorer] \in {"idle"} \cup
          CASE stage \in {"settling", "quiescing"} -> {"quiesce", "quiesceWait"}
            [] stage = "releasing" -> {"releaseCheck", "releaseWait"}
            [] stage = "refused" -> {"noWaiter"}
            [] OTHER -> {}

\* A transition is released when it was executed or is being executed.
OpenedInOrder ==
    /\ Stepping => This \in NextSteps(next, Steps)
    /\ \A w \in Goroutine, n \in {0, 1} :
          Opened(w, n) <=> n < next[w] \/ (Stepping /\ This = T(w, n))
    /\ stage \in {"starting", "settling"} => \A w \in Goroutine : next[w] = 0

\* No worker is past a gate that is not open.
BehindGates ==
    \A w \in Goroutine :
        /\ pc[w] = "await" => \/ ip[w] = "gate0" /\ at[w] = T(w, 0)
                              \/ ip[w] = "gate1" /\ at[w] = T(w, 1)
        /\ ip[w] = "check" => Opened(w, 0)
        /\ ip[w] \in {"act", "load", "store", "end"} => Opened(w, 1)

\* Everybody rests when Quiesce has returned, and from Release to Quiesce
\* everybody but the worker let go.
RestedWorld ==
    /\ stage # "starting" => \A w \in Goroutine : pc[w] # "new"
    /\ \/ stage \in {"ready", "refused"}
       \/ stage \in {"settling", "quiescing"} /\ Idle
       => \A w \in Goroutine : Resting(w)
    /\ Stepping => \A w \in Goroutine \ {This.worker} : Resting(w)
    /\ outcome # "running" => stage \in {"ready", "refused", "quiescing"} /\ Idle

\* A worker of a program that keeps its contract does not panic, skips no gate
\* and exits at its end.
Contract ==
    Honest =>
        /\ panicked = {}
        /\ \A w \in Goroutine :
              /\ pc[w] \notin {"panicking", "dying"}
              /\ pc[w] = "exited" => ip[w] = "end"
              /\ ip[w] # "gate0" => Opened(w, 0)
        /\ stage = "quiescing" => outcome = "running"

LiveInv ==
    /\ IInv
    /\ LiveTypeOK
    /\ CallMatches
    /\ OpenedInOrder
    /\ BehindGates
    /\ RestedWorld
    /\ Contract

-----------------------------------------------------------------------------

LEMMA Keys ==
    /\ \A w, v \in Goroutine, n, m \in {0, 1} :
          T(w, n) \in Key /\ (T(w, n) = T(v, m) => w = v /\ n = m)
    /\ \A w, n : T(w, n).worker = w /\ T(w, n).step = n
    /\ \A c \in Caller : c = Explorer
    /\ Explorer \in Caller
BY LiveAssumption DEF T

LEMMA NextStep ==
    ASSUME LiveTypeOK, NEW t \in NextSteps(next, Steps)
    PROVE  /\ t \in Key
           /\ t.worker \in Goroutine
           /\ next[t.worker] \in {0, 1}
           /\ t = T(t.worker, next[t.worker])
<1>1. PICK w \in DOMAIN next : next[w] < Steps /\ t = T(w, next[w])
  BY DEF NextSteps
<1>2. w \in Goroutine /\ next[w] \in {0, 1}
  BY <1>1 DEF LiveTypeOK, Steps
<1>3. QED
  BY <1>1, <1>2, Keys

\* Every step of Live is one of Gate, or leaves the controller alone.
LEMMA WorkerStepInGate ==
    ASSUME NEW w \in Goroutine, WorkerStep(w)
    PROVE  GoroutineStep(w) \/ UNCHANGED vars
BY Keys DEF WorkerStep, Gated, Past, CheckIt, Act, Load, Store, Return, Misstep,
            GoroutineStep

LEMMA ClientStepInGate ==
    ASSUME LiveTypeOK, ClientStep
    PROVE  \/ \E w \in Goroutine : GoroutineStep(w)
           \/ CallerStep(Explorer)
           \/ UNCHANGED vars
BY NextStep DEF ClientStep, Launch, Settle, InController, Ready, Reject, Open,
   GiveUp, Quiesce, Judge, Finish, GoroutineStep, CallerStep

LEMMA StepIInv ==
    ASSUME ~Reawait, LiveInv, [LiveNext]_live
    PROVE  IInv'
<1>1. [Next]_vars
  BY WorkerStepInGate, ClientStepInGate, Keys
     DEF LiveNext, live, Next, LiveInv
<1>2. QED
  BY <1>1, NextIInv DEF LiveInv

-----------------------------------------------------------------------------
(* Steps of the workers. *)

\* A worker that rests takes no step.
LEMMA RestingIsStill ==
    ASSUME LiveInv, NEW w \in Goroutine, WorkerStep(w)
    PROVE  ~Resting(w)
BY DEF LiveInv, IInv, TypeOK, WorkerStep, Gated, Past, CheckIt, Act, Load, Store,
       Return, Misstep, Running, AwaitPark, AwaitLeave, Panic, Exit, Recover,
       Move, Resting

\* What a step of a worker leaves alone, and that it does not meet Release
\* formatting its error.
LEMMA WorkerFrame ==
    ASSUME LiveInv, NEW w \in Goroutine, WorkerStep(w)
    PROVE  /\ UNCHANGED <<inputs, client, call>>
           /\ pc[w] \notin {"new", "exited"} /\ pc'[w] # "new"
           /\ \A v \in Goroutine \ {w} :
                 pc'[v] = pc[v] /\ at'[v] = at[v] /\ ip'[v] = ip[v]
           /\ \A k \in Key : release'[k] = "closed" <=> release[k] = "closed"
           /\ ip' \in [Goroutine -> Places]
           /\ process' = "running"
<1> USE DEF WorkerStep, LiveInv, IInv, TypeOK, LiveTypeOK, Move, Running
<1>1. UNCHANGED <<inputs, client, call>>
  BY DEF Gated, Past, CheckIt, Act, Load, Store, Return, Misstep, vars,
         AwaitPark, AwaitLeave, Panic, Exit, Recover
<1>2. /\ pc[w] \notin {"new", "exited"} /\ pc'[w] # "new"
      /\ \A v \in Goroutine \ {w} : pc'[v] = pc[v] /\ at'[v] = at[v]
  BY DEF Gated, Past, CheckIt, Act, Load, Store, Return, Misstep, vars,
         AwaitPark, AwaitLeave, Panic, Exit, Recover
<1>3. /\ \A v \in Goroutine \ {w} : ip'[v] = ip[v]
      /\ ip' \in [Goroutine -> Places]
  BY DEF Gated, Past, CheckIt, Act, Load, Store, Return, Misstep, code, Jump,
         Places
<1>4. \A k \in Key : release'[k] = "closed" <=> release[k] = "closed"
  <2>1. ASSUME NEW k \in Key, AwaitPark(w, k)
        PROVE  \A j \in Key : release'[j] = "closed" <=> release[j] = "closed"
    BY <2>1 DEF AwaitPark, Ensured
  <2>2. UNCHANGED release \/ \E k \in Key : AwaitPark(w, k)
    BY Keys DEF Gated, Past, CheckIt, Act, Load, Store, Return, Misstep, vars,
       fields, AwaitLeave, Panic, Exit, Recover
  <2>3. QED
    BY <2>1, <2>2
<1>5. process' = "running"
  <2>1. \A c \in Caller : call[c] # "noWaiter"
    BY RestingIsStill, Keys DEF CallMatches, RestedWorld
  <2>2. QED
    BY <2>1 DEF Gated, Past, CheckIt, Act, Load, Store, Return, Misstep, vars,
       AwaitPark, AwaitLeave, WriteParked, Panic, Exit, Recover
<1>6. QED
  BY <1>1, <1>2, <1>3, <1>4, <1>5

LEMMA WorkerKeepsOrder ==
    ASSUME LiveInv, NEW w \in Goroutine, WorkerStep(w)
    PROVE  /\ LiveTypeOK' /\ CallMatches' /\ OpenedInOrder' /\ RestedWorld'
<1>1. /\ UNCHANGED <<inputs, client, call>>
      /\ \A k \in Key : release'[k] = "closed" <=> release[k] = "closed"
  BY WorkerFrame
<1>2. UNCHANGED <<stage, built, script, next, outcome>>
  BY <1>1 DEF inputs, client
<1>3. LiveTypeOK'
  BY <1>2, WorkerFrame DEF LiveInv, LiveTypeOK
<1>4. CallMatches'
  BY <1>1, <1>2 DEF LiveInv, CallMatches
<1>5. OpenedInOrder'
  <2>1. \A v \in Goroutine, n \in {0, 1} : Opened(v, n)' <=> Opened(v, n)
    BY <1>1, Keys DEF Opened
  <2>2. This' = This
    BY <1>2 DEF This
  <2>3. QED
    BY <1>2, <2>1, <2>2 DEF LiveInv, OpenedInOrder, Stepping
<1>6. RestedWorld'
  <2>1. \A v \in Goroutine \ {w} : Resting(v) => Resting(v)'
    BY <1>1, WorkerFrame DEF Resting, LiveInv, IInv, TypeOK
  <2>2. ~Resting(w)
    BY RestingIsStill
  <2>3. This' = This
    BY <1>2 DEF This
  <2>4. QED
    BY <1>1, <1>2, <2>1, <2>2, <2>3, WorkerFrame
       DEF LiveInv, RestedWorld, Stepping, Idle
<1>7. QED
  BY <1>3, <1>4, <1>5, <1>6

LEMMA WorkerKeepsGates ==
    ASSUME LiveInv, NEW w \in Goroutine, WorkerStep(w)
    PROVE  BehindGates'
<1>1. /\ \A v \in Goroutine \ {w} :
            pc'[v] = pc[v] /\ at'[v] = at[v] /\ ip'[v] = ip[v]
      /\ \A k \in Key : release'[k] = "closed" <=> release[k] = "closed"
  BY WorkerFrame
<1>2. \A v \in Goroutine, n \in {0, 1} : Opened(v, n)' <=> Opened(v, n)
  BY <1>1, Keys DEF Opened
<1>3. /\ pc'[w] = "await" => \/ ip'[w] = "gate0" /\ at'[w] = T(w, 0)
                             \/ ip'[w] = "gate1" /\ at'[w] = T(w, 1)
      /\ ip'[w] = "check" => Opened(w, 0)
      /\ ip'[w] \in {"act", "load", "store", "end"} => Opened(w, 1)
  <2> USE DEF LiveInv, IInv, TypeOK, LiveTypeOK, BehindGates, Move, Running
  <2>1. CASE Gated(w)
    BY <2>1 DEF Gated, AwaitPark, code
  <2>2. CASE Past(w)
    <3>1. /\ pc[w] = "await" /\ pc'[w] = "run" /\ release[at[w]] = "closed"
      BY <2>2 DEF Past, AwaitLeave
    <3>2. CASE Jump(w, "gate0", "check")
      BY <3>1, <3>2 DEF Jump, Opened
    <3>3. CASE Jump(w, "gate1", "act")
      BY <3>1, <3>3 DEF Jump, Opened
    <3>4. QED
      BY <2>2, <3>2, <3>3 DEF Past
  <2>3. CASE CheckIt(w) \/ Act(w) \/ Load(w) \/ Store(w)
    BY <2>3 DEF CheckIt, Act, Load, Store, Jump, vars
  <2>4. CASE Return(w) \/ (Recover(w) /\ UNCHANGED code)
    BY <2>4 DEF Return, Exit, Recover, code
  <2>5. CASE Misstep(w)
    BY <2>5 DEF Misstep, Panic, Exit, Jump, vars, code
  <2>6. QED
    BY <2>1, <2>2, <2>3, <2>4, <2>5 DEF WorkerStep
<1>4. QED
  BY <1>1, <1>2, <1>3 DEF LiveInv, BehindGates

LEMMA WorkerKeepsContract ==
    ASSUME LiveInv, NEW w \in Goroutine, WorkerStep(w)
    PROVE  Contract'
<1> SUFFICES ASSUME Honest' PROVE Contract'
  BY DEF Contract
<1>1. /\ UNCHANGED <<inputs, client, call>>
      /\ \A v \in Goroutine \ {w} :
            pc'[v] = pc[v] /\ at'[v] = at[v] /\ ip'[v] = ip[v]
      /\ \A k \in Key : release'[k] = "closed" <=> release[k] = "closed"
  BY WorkerFrame
<1>2. UNCHANGED <<program, stage, outcome>>
  BY <1>1 DEF inputs, client
<1>3. Honest
  BY <1>2 DEF Honest
<1>4. \A v \in Goroutine, n \in {0, 1} : Opened(v, n)' <=> Opened(v, n)
  BY <1>1, Keys DEF Opened
<1>5. ~Misstep(w) /\ ~Recover(w)
  BY <1>3 DEF Honest, Misstep, Recover, Move, LiveInv, Contract
<1>6. panicked' = panicked
  BY <1>5 DEF WorkerStep, Gated, Past, CheckIt, Act, Load, Store, Return, vars,
     fields, AwaitPark, AwaitLeave, Exit
<1>7. /\ pc'[w] \notin {"panicking", "dying"}
      /\ pc'[w] = "exited" => ip'[w] = "end"
      /\ ip'[w] # "gate0" => Opened(w, 0)
  <2> USE DEF LiveInv, IInv, TypeOK, LiveTypeOK, Contract, Move, Running
  <2>1. CASE Gated(w)
    BY <1>3, <2>1 DEF Gated, AwaitPark, code
  <2>2. CASE Past(w)
    BY <1>3, <2>2 DEF Past, AwaitLeave, Jump, BehindGates, Opened
  <2>3. CASE CheckIt(w) \/ Act(w) \/ Load(w) \/ Store(w)
    BY <1>3, <2>3 DEF CheckIt, Act, Load, Store, Jump, vars
  <2>4. CASE Return(w)
    BY <1>3, <2>4 DEF Return, Exit, code
  <2>5. QED
    BY <1>5, <2>1, <2>2, <2>3, <2>4 DEF WorkerStep
<1>8. QED
  BY <1>1, <1>2, <1>3, <1>4, <1>6, <1>7 DEF LiveInv, Contract

-----------------------------------------------------------------------------
(* Steps of the client. *)

\* A step that opens no gate and moves no worker, and after which the client
\* stands where the world allows it.
LEMMA WorldUntouched ==
    ASSUME LiveInv, UNCHANGED <<pc, at, panicked, process, built, next, inputs, code>>,
           \A k \in Key : release'[k] = "closed" <=> release[k] = "closed",
           CallMatches',
           Stepping' <=> Stepping,
           stage' = "starting" => stage = "starting",
           stage' = "settling" => stage \in {"starting", "settling"},
           stage = "starting" /\ stage' # "starting" =>
               \A w \in Goroutine : pc[w] # "new",
           stage' \in {"ready", "refused"}
              \/ (stage' \in {"settling", "quiescing"} /\ Idle') =>
               \A w \in Goroutine : Resting(w),
           outcome' # "running" =>
               stage' \in {"ready", "refused", "quiescing"} /\ Idle',
           Honest /\ stage' = "quiescing" => outcome' = "running"
    PROVE  /\ LiveTypeOK' /\ CallMatches' /\ OpenedInOrder' /\ BehindGates'
           /\ RestedWorld' /\ Contract'
<1>1. \A v \in Goroutine, n \in {0, 1} : Opened(v, n)' <=> Opened(v, n)
  BY Keys DEF Opened
<1>2. \A v \in Goroutine : Resting(v)' <=> Resting(v)
  BY DEF Resting, LiveInv, IInv, TypeOK
<1>3. This' = This /\ Honest' = Honest
  BY DEF This, Honest, inputs
<1>4. LiveTypeOK'
  BY DEF LiveInv, LiveTypeOK, code
<1>5. OpenedInOrder'
  BY <1>1, <1>3 DEF LiveInv, OpenedInOrder, Stepping
<1>6. BehindGates'
  BY <1>1 DEF LiveInv, BehindGates, code
<1>7. RestedWorld'
  BY <1>2, <1>3 DEF LiveInv, RestedWorld
<1>8. Contract'
  BY <1>1, <1>3 DEF LiveInv, Contract, code
<1>9. QED
  BY <1>4, <1>5, <1>6, <1>7, <1>8

\* What is left of the invariant once Gate's part is known.
Rest == /\ LiveTypeOK /\ CallMatches /\ OpenedInOrder /\ BehindGates
        /\ RestedWorld /\ Contract

LEMMA LaunchKeeps ==
    ASSUME LiveInv, NEW w \in Goroutine, Launch(w), UNCHANGED <<inputs, code>>
    PROVE  Rest'
<1>1. /\ UNCHANGED <<release, at, panicked, process, call, inputs, code, stage,
                    built, next, outcome>>
      /\ pc[w] = "new" /\ pc'[w] = "run"
      /\ \A v \in Goroutine \ {w} : pc'[v] = pc[v]
      /\ stage = "starting"
  BY DEF Launch, Go, Move, client, LiveInv, IInv, TypeOK
<1>2. /\ \A v \in Goroutine, n \in {0, 1} : Opened(v, n)' <=> Opened(v, n)
      /\ Honest' = Honest
  BY <1>1 DEF Opened, Honest, inputs
<1>3. LiveTypeOK' /\ CallMatches' /\ OpenedInOrder' /\ RestedWorld'
  BY <1>1, <1>2 DEF LiveInv, LiveTypeOK, CallMatches, OpenedInOrder, RestedWorld,
                    Stepping, code
<1>4. BehindGates'
  BY <1>1, <1>2 DEF LiveInv, BehindGates, code
<1>5. Contract'
  BY <1>1, <1>2 DEF LiveInv, Contract, code
<1>6. QED
  BY <1>3, <1>4, <1>5 DEF Rest

LEMMA ControllerKeeps ==
    ASSUME ~Reawait, LiveInv, InController, UNCHANGED <<inputs, code>>
    PROVE  Rest'
<1> USE DEF LiveInv, IInv, TypeOK
<1>1. /\ UNCHANGED <<pc, at, panicked, process, release, client, inputs, code>>
      /\ call[Explorer] # "idle"
      /\ call'[Explorer] = "idle" \/
         (call[Explorer] \in {"quiesce", "quiesceWait"} /\
            call'[Explorer] \in {"quiesce", "quiesceWait"}) \/
         (call[Explorer] \in {"releaseCheck", "releaseWait"} /\
            call'[Explorer] \in {"releaseCheck", "releaseWait"})
  BY Keys DEF InController, QuiesceCheck, Wake, ReleaseCheck, ReturnNoWaiter,
              Goto, fields
<1>2. UNCHANGED <<stage, built, next, outcome>>
  BY <1>1 DEF client
<1>3. CallMatches'
  BY <1>1, <1>2 DEF CallMatches
<1>4. ASSUME stage \in {"settling", "quiescing"}, Idle'
      PROVE  \A w \in Goroutine : Resting(w)
  <2>1. call[Explorer] = "quiesce" /\ Settled
    BY <1>1, <1>4, Keys DEF CallMatches, Idle, InController, QuiesceCheck, Wake,
       ReleaseCheck, ReturnNoWaiter, Goto
  <2>2. \A w \in Goroutine : pc[w] \in {"await", "exited"}
    <3>1. Active \subseteq Parked
      BY <2>1, SettledMeaning
    <3>2. \A w \in Goroutine : pc[w] # "new"
      BY <1>4 DEF RestedWorld
    <3>3. QED
      BY <3>1, <3>2 DEF Active, Parked
  <2>3. \A w \in Goroutine : pc[w] = "await" => release[at[w]] # "closed"
    BY <2>1, Keys DEF OpenedAreWatched
  <2>4. QED
    BY <2>2, <2>3 DEF Resting
<1>5. outcome = "running" /\ (stage = "refused" => \A w \in Goroutine : Resting(w))
      /\ stage # "ready"
  BY <1>1 DEF RestedWorld, Idle, CallMatches
<1>6. QED
  BY <1>1, <1>2, <1>3, <1>4, <1>5, WorldUntouched DEF Rest, Stepping

LEMMA CallsKeep ==
    ASSUME LiveInv, Settle \/ Ready \/ Quiesce, UNCHANGED <<inputs, code>>
    PROVE  Rest'
<1> USE DEF LiveInv, IInv, TypeOK
<1>1. /\ UNCHANGED <<pc, at, panicked, process, release, built, next, outcome>>
      /\ outcome = "running"
  BY DEF Settle, Ready, Quiesce, Stage, QuiesceCall, vars, fields
<1>2. \/ /\ stage = "starting" /\ stage' = "settling"
         /\ call'[Explorer] = "quiesce"
         /\ \A w \in Goroutine : pc[w] # "new"
      \/ /\ stage = "settling" /\ stage' = "ready"
         /\ call[Explorer] = "idle" /\ call' = call
      \/ /\ stage = "releasing" /\ stage' = "quiescing"
         /\ call'[Explorer] = "quiesce"
  BY Keys DEF Settle, Ready, Quiesce, Stage, Idle, QuiesceCall, Goto, vars
<1>3. CallMatches'
  BY <1>2 DEF CallMatches
<1>4. stage = "settling" /\ Idle => \A w \in Goroutine : Resting(w)
  BY DEF RestedWorld
<1>5. QED
  BY <1>1, <1>2, <1>3, <1>4, WorldUntouched DEF Rest, Stepping, Idle

LEMMA VerdictsKeep ==
    ASSUME LiveInv, UNCHANGED <<inputs, code, vars>>,
           \/ Reject \/ GiveUp \/ Finish
           \/ Idle /\ panicked # {} /\ stage = "quiescing" /\ Abort
    PROVE  Rest'
<1> USE DEF LiveInv
<1>1. UNCHANGED <<pc, at, panicked, process, release, call, stage, built, next>>
  BY DEF vars, fields, Reject, GiveUp, Finish, Abort, Over
<1>2. /\ Idle /\ Idle'
      /\ stage \in {"ready", "refused", "quiescing"}
      /\ stage = "quiescing" => panicked # {}
  BY <1>1 DEF Reject, GiveUp, Finish, CallMatches, Idle
<1>3. CallMatches'
  BY <1>1 DEF CallMatches
<1>4. \A w \in Goroutine : Resting(w)
  BY <1>2 DEF RestedWorld
<1>5. QED
  BY <1>1, <1>2, <1>3, <1>4, WorldUntouched DEF Rest, Stepping, Contract

LEMMA OpenKeeps ==
    ASSUME LiveInv, Open, UNCHANGED <<inputs, code>>
    PROVE  Rest'
<1> USE DEF LiveInv, IInv, TypeOK
<1>1. /\ UNCHANGED <<pc, at, panicked, process, built, next, outcome>>
      /\ outcome = "running" /\ stage = "ready"
      /\ This \in NextSteps(next, Steps)
  BY DEF Open, Stage, ReleaseOpen, ReleaseNoWaiter
<1>2. /\ This \in Key /\ This.worker \in Goroutine
      /\ next[This.worker] \in {0, 1}
      /\ This = T(This.worker, next[This.worker])
  BY <1>1, NextStep
<1>3. \A w \in Goroutine : Resting(w) /\ pc[w] # "new"
  BY <1>1 DEF RestedWorld
<1>4. CASE ReleaseNoWaiter(Explorer, This) /\ Stage("ready", "refused")
  <2>1. /\ stage' = "refused" /\ call'[Explorer] = "noWaiter"
        /\ \A k \in Key : release'[k] = "closed" <=> release[k] = "closed"
    BY <1>2, <1>4, Keys DEF Stage, ReleaseNoWaiter, Goto, Ensured
  <2>2. CallMatches'
    BY <2>1 DEF CallMatches
  <2>3. QED
    BY <1>1, <1>3, <2>1, <2>2, WorldUntouched DEF Rest, Stepping
<1>5. CASE ReleaseOpen(Explorer, This) /\ Stage("ready", "releasing")
  <2>1. /\ stage' = "releasing" /\ call'[Explorer] = "releaseCheck"
        /\ release'[This] = "closed"
        /\ \A k \in Key \ {This} : release'[k] = release[k]
    BY <1>2, <1>5, Keys DEF Stage, ReleaseOpen, Goto
  <2>2. This' = This /\ Honest' = Honest
    BY <1>1 DEF This, Honest, inputs
  <2>3. \A w \in Goroutine, n \in {0, 1} :
           Opened(w, n)' <=> Opened(w, n) \/ This = T(w, n)
    BY <2>1, Keys DEF Opened
  <2>4. LiveTypeOK' /\ CallMatches'
    BY <1>1, <2>1 DEF LiveTypeOK, CallMatches, code
  <2>5. OpenedInOrder'
    <3>1. \A w \in Goroutine, n \in {0, 1} : Opened(w, n) <=> n < next[w]
      BY <1>1 DEF OpenedInOrder, Stepping
    <3>2. QED
      BY <1>1, <2>1, <2>2, <2>3, <3>1 DEF OpenedInOrder, Stepping
  <2>6. BehindGates'
    BY <1>1, <2>3 DEF BehindGates, code
  <2>7. RestedWorld'
    <3>1. \A w \in Goroutine \ {This.worker} :
             pc[w] = "await" => at[w] # This
      BY <1>2, Keys DEF BehindGates
    <3>2. \A w \in Goroutine \ {This.worker} : Resting(w)'
      BY <1>1, <1>3, <2>1, <3>1 DEF Resting
    <3>3. QED
      BY <1>1, <1>3, <2>1, <2>2, <3>2 DEF RestedWorld, Stepping, Idle
  <2>8. Contract'
    BY <1>1, <2>1, <2>2, <2>3 DEF Contract, code
  <2>9. QED
    BY <2>4, <2>5, <2>6, <2>7, <2>8 DEF Rest
<1>6. QED
  BY <1>4, <1>5 DEF Open

LEMMA ObserveKeeps ==
    ASSUME LiveInv, Idle, Stage("quiescing", "ready"), Observe,
           UNCHANGED <<inputs, code, vars>>
    PROVE  Rest'
<1> USE DEF LiveInv
<1>1. /\ UNCHANGED <<pc, at, panicked, process, release, call>>
      /\ stage = "quiescing" /\ stage' = "ready"
      /\ next' = [next EXCEPT ![This.worker] = @ + 1]
  BY DEF Observe, Stage, vars, fields
<1>2. /\ This.worker \in Goroutine /\ next[This.worker] \in {0, 1}
      /\ This = T(This.worker, next[This.worker])
  BY <1>1, NextStep DEF OpenedInOrder, Stepping
<1>3. \A w \in Goroutine : Resting(w) /\ pc[w] # "new"
  BY <1>1 DEF RestedWorld
<1>4. /\ \A w \in Goroutine : Resting(w)' <=> Resting(w)
      /\ \A w \in Goroutine, n \in {0, 1} : Opened(w, n)' <=> Opened(w, n)
      /\ Honest' = Honest
  BY <1>1 DEF Resting, Opened, Honest, inputs
<1>5. LiveTypeOK'
  BY <1>1, <1>2 DEF LiveTypeOK, Steps, code
<1>6. CallMatches'
  BY <1>1 DEF CallMatches, Idle
<1>7. OpenedInOrder'
  <2>1. ASSUME NEW w \in Goroutine, NEW n \in {0, 1}
        PROVE  Opened(w, n) <=> n < next'[w]
    <3>1. Opened(w, n) <=> n < next[w] \/ This = T(w, n)
      BY <1>1 DEF OpenedInOrder, Stepping
    <3>2. This = T(w, n) <=> w = This.worker /\ n = next[This.worker]
      BY <1>2, Keys
    <3>3. next[w] \in 0..2
      BY DEF LiveTypeOK, Steps
    <3>4. next'[w] = IF w = This.worker THEN next[w] + 1 ELSE next[w]
      BY <1>1, <1>2 DEF LiveTypeOK
    <3>5. QED
      BY <1>2, <3>1, <3>2, <3>3, <3>4
  <2>2. QED
    BY <1>1, <1>4, <2>1 DEF OpenedInOrder, Stepping
<1>8. BehindGates'
  BY <1>1, <1>4 DEF BehindGates, code
<1>9. RestedWorld'
  BY <1>1, <1>3, <1>4, <1>6 DEF RestedWorld, Stepping, Idle
<1>10. Contract'
  BY <1>1, <1>4 DEF Contract, code
<1>11. QED
  BY <1>5, <1>6, <1>7, <1>8, <1>9, <1>10 DEF Rest

-----------------------------------------------------------------------------
(* The theorems. *)

LEMMA LiveInductive ==
    ASSUME ~Reawait
    PROVE  LiveSpec => []LiveInv
<1>1. LiveInit => LiveInv
  <2> SUFFICES ASSUME LiveInit PROVE LiveInv
    OBVIOUS
  <2>1. IInv
    BY InitIInv DEF LiveInit
  <2>2. /\ \A w \in Goroutine : pc[w] = "new" /\ next[w] = 0 /\ ip[w] = "gate0"
        /\ \A w \in Goroutine, n \in {0, 1} : ~Opened(w, n)
        /\ call[Explorer] = "idle" /\ panicked = {} /\ process = "running"
    BY Keys, LiveAssumption DEF LiveInit, Init, Both, Opened
  <2>3. ip \in [Goroutine -> Places] /\ next \in [Goroutine -> 0..Steps]
    BY LiveAssumption DEF LiveInit, Both, Places, Steps
  <2>4. stage = "starting" /\ outcome = "running"
    BY DEF LiveInit
  <2>5. QED
    BY <2>1, <2>2, <2>3, <2>4
       DEF LiveInv, LiveTypeOK, CallMatches, OpenedInOrder, Stepping,
           BehindGates, RestedWorld, Idle, Contract
<1>2. LiveInv /\ [LiveNext]_live => LiveInv'
  <2> SUFFICES ASSUME LiveInv, [LiveNext]_live PROVE LiveInv'
    OBVIOUS
  <2>1. CASE UNCHANGED live
    <3>1. Rest'
      <4>1. /\ UNCHANGED <<pc, at, panicked, process, call, release, stage,
                          outcome, built, next, inputs, code>>
        BY <2>1 DEF live, vars, fields, client
      <4>2. CallMatches'
        BY <4>1 DEF LiveInv, CallMatches
      <4>3. QED
        BY <4>1, <4>2, WorldUntouched
           DEF Rest, LiveInv, Stepping, RestedWorld, Idle, Contract
    <3>2. QED
      BY <2>1, <3>1, StepIInv DEF LiveInv, Rest
  <2>2. CASE \E w \in Goroutine : WorkerStep(w)
    <3>1. Rest'
      BY <2>2, WorkerKeepsOrder, WorkerKeepsGates, WorkerKeepsContract DEF Rest
    <3>2. QED
      BY <2>2, <3>1, StepIInv DEF LiveInv, Rest
  <2>3. CASE ClientStep
    <3>1. UNCHANGED <<inputs, code>>
      BY <2>3 DEF ClientStep
    <3>2. Rest'
      <4>1. CASE Judge
        <5>1. CASE panicked # {}
          BY <3>1, <4>1, <5>1, VerdictsKeep DEF Judge
        <5>2. CASE panicked = {}
          BY <3>1, <4>1, <5>2, ObserveKeeps DEF Judge
        <5>3. QED
          BY <5>1, <5>2
      <4>2. CASE Reject \/ GiveUp \/ Finish
        <5>1. UNCHANGED vars
          BY <4>2 DEF Reject, GiveUp, Finish
        <5>2. QED
          BY <3>1, <4>2, <5>1, VerdictsKeep
      <4>3. CASE \E w \in Goroutine : Launch(w)
        BY <3>1, <4>3, LaunchKeeps
      <4>4. CASE InController
        BY <3>1, <4>4, ControllerKeeps
      <4>5. CASE Settle \/ Ready \/ Quiesce
        BY <3>1, <4>5, CallsKeep
      <4>6. CASE Open
        BY <3>1, <4>6, OpenKeeps
      <4>7. QED
        BY <2>3, <4>1, <4>2, <4>3, <4>4, <4>5, <4>6 DEF ClientStep
    <3>3. QED
      BY <3>2, StepIInv DEF LiveInv, Rest
  <2>4. QED
    BY <2>1, <2>2, <2>3 DEF LiveNext
<1>3. QED
  BY <1>1, <1>2, PTL DEF LiveSpec

\* Two accesses to the memory of the program, or one and the observation of
\* the client, never race, and nor does the unlocked read of the parked map,
\* whatever fault a worker has (check_then_act.go:35-39, gate.go:126).
THEOREM NothingRaces ==
    ASSUME ~Reawait
    PROVE  LiveSpec => []NoDataRace
<1>1. LiveInv => NoDataRace
  <2> SUFFICES ASSUME LiveInv PROVE NoDataRace
    OBVIOUS
  <2>1. \A w \in Goroutine : Accessing(w) => ~Resting(w)
    BY DEF Accessing, Running, Resting
  <2>2. ASSUME NEW w \in Goroutine, Accessing(w)
        PROVE  Stepping /\ w = This.worker
    <3>1. Opened(w, 0) \/ Opened(w, 1)
      BY <2>2 DEF Accessing, LiveInv, BehindGates
    <3>2. stage \notin {"starting", "settling"}
      BY <3>1 DEF LiveInv, OpenedInOrder, Stepping
    <3>3. Stepping
      BY <2>1, <2>2, <3>2 DEF LiveInv, CallMatches, RestedWorld, Stepping
    <3>4. QED
      BY <2>1, <2>2, <3>3 DEF LiveInv, RestedWorld
  <2>3. stage = "quiescing" /\ Idle => \A w \in Goroutine : ~Accessing(w)
    BY <2>1 DEF LiveInv, RestedWorld
  <2>4. QED
    BY <2>2, <2>3 DEF NoDataRace, LiveInv, LiveTypeOK
<1>2. QED
  BY <1>1, LiveInductive, PTL

\* An execution of a program that keeps its contract leaves every worker that
\* is not done parked at its next gate, and no other (explore.go:109-129).
THEOREM ExecuteLeavesParked ==
    ASSUME ~Reawait
    PROVE  LiveSpec => []LeftParked
<1>1. LiveInv => LeftParked
  <2> SUFFICES ASSUME LiveInv, Honest, outcome # "running", NEW w \in Goroutine
               PROVE  IF next[w] < Steps
                      THEN pc[w] = "await" /\ at[w] = T(w, next[w])
                      ELSE pc[w] = "exited"
    BY DEF LeftParked
  <2>1. stage \in {"ready", "refused"} /\ Resting(w) /\ ~Stepping
    BY DEF LiveInv, RestedWorld, Contract, Stepping
  <2>2. \A n \in {0, 1} : Opened(w, n) <=> n < next[w]
    BY <2>1 DEF LiveInv, OpenedInOrder
  <2>3. next[w] \in 0..2
    BY DEF LiveInv, LiveTypeOK, Steps
  <2>4. CASE pc[w] = "exited"
    <3>1. Opened(w, 1)
      BY <2>4 DEF LiveInv, Contract, BehindGates
    <3>2. next[w] = 2
      BY <2>2, <2>3, <3>1
    <3>3. QED
      BY <2>4, <3>2 DEF Steps
  <2>5. CASE pc[w] = "await" /\ release[at[w]] # "closed"
    <3>1. CASE at[w] = T(w, 0)
      <4>1. next[w] = 0
        BY <2>2, <2>3, <2>5, <3>1 DEF Opened
      <4>2. QED
        BY <2>5, <3>1, <4>1 DEF Steps
    <3>2. CASE ip[w] = "gate1" /\ at[w] = T(w, 1)
      <4>1. Opened(w, 0)
        BY <3>2 DEF LiveInv, Contract
      <4>2. next[w] = 1
        BY <2>2, <2>3, <2>5, <3>2, <4>1 DEF Opened
      <4>3. QED
        BY <2>5, <3>2, <4>2 DEF Steps
    <3>3. QED
      BY <2>5, <3>1, <3>2 DEF LiveInv, BehindGates
  <2>6. QED
    BY <2>1, <2>4, <2>5 DEF Resting
<1>2. QED
  BY <1>1, LiveInductive, PTL
-----------------------------------------------------------------------------
(* Live implements Replay: an execution on real goroutines is a replay of    *)
(* the cooperative scene, for any schedule and every program with one of the *)
(* faults of Live.                                                           *)

\* The state of the scene.
Now == path[Len(path)]

Memories == [taken : BOOLEAN, owners : Nat, local : [Goroutine -> BOOLEAN],
             next : [Goroutine -> 0..Steps]]

MemoryTypeOK ==
    /\ program \in Program
    /\ available \in BOOLEAN
    /\ owners \in Nat
    /\ ok \in [Goroutine -> BOOLEAN]
    /\ sum \in [Goroutine -> Nat]
    /\ path \in Seq(Memories)
    /\ Len(path) \in Nat \ {0}

\* The places of run, in the order of the code.
Pos == [gate0 |-> 0, check |-> 1, gate1 |-> 2, act |-> 3, load |-> 4,
        store |-> 5, end |-> 6]

\* The memory while worker w executes its first step, to its second gate.
DuringCheck(w) ==
    /\ ip[w] \in {"gate0", "check", "gate1"}
    /\ available = ~Now.taken
    /\ owners = Now.owners
    /\ \A v \in Goroutine :
          ok[v] = ~(IF v = w /\ ip[w] = "gate1" THEN Now.taken ELSE Now.local[v])

\* The memory while worker w executes its second step, to its end.
DuringAct(w) ==
    /\ ip[w] \in {"gate1", "act", "load", "store", "end"}
    /\ \A v \in Goroutine : ok[v] = ~Now.local[v]
    /\ ip[w] \in {"load", "store"} => ok[w]
    /\ ip[w] = "store" => sum[w] = owners
    /\ available = IF ok[w] /\ ip[w] \in {"load", "store", "end"} THEN FALSE
                   ELSE ~Now.taken
    /\ owners = IF ok[w] /\ ip[w] = "end" THEN Now.owners + 1 ELSE Now.owners

\* Between transitions the memory is that of the state reached; the steps of
\* the worker let go lead from there to the next one.
Effects ==
    /\ Now.next = next
    /\ ~Stepping => Memory(next) = Now
    /\ Stepping => IF This.step = 0 THEN DuringCheck(This.worker)
                   ELSE DuringAct(This.worker)

\* Why a worker is out of the game, and that nobody gets past a fault.
FaultsAreFelt ==
    \A w \in Goroutine :
        /\ pc[w] \in {"panicking", "dying"} => Faulty(w) /\ program.fault = "panic"
        /\ pc[w] = "exited" =>
              \/ ip[w] = "end" /\ ~Faulty(w)
              \/ Faulty(w) /\ program.fault \in {"panic", "return"}
        /\ w \in panicked <=> /\ pc[w] \in {"dying", "exited"}
                              /\ Faulty(w) /\ program.fault = "panic"
        /\ pc[w] = "await" => ~Faulty(w)
        /\ program.worker = w /\ program.fault \in {"panic", "return"} =>
              Pos[ip[w]] <= Pos[program.at]
        /\ ip[w] # "gate0" =>
              Opened(w, 0) \/ (program.fault = "skip" /\ program.worker = w)

\* What was executed can be executed, what found nobody parked can not, and
\* the worker let go was parked; the schedule has not come to its end.
RefusalsAreFaults ==
    /\ \A w \in Goroutine, n \in {0, 1} :
          n < next[w] => ~Refused(program, T(w, n))
    /\ stage = "refused" => /\ This \in NextSteps(next, Steps)
                            /\ Refused(program, This)
    /\ Stepping \/ stage = "refused" => Remaining
    /\ Stepping /\ program.worker = This.worker =>
          program.at # IF This.step = 0 THEN "gate0" ELSE "gate1"

Refines ==
    /\ LiveInv
    /\ MemoryTypeOK
    /\ Effects
    /\ FaultsAreFelt
    /\ RefusalsAreFaults

-----------------------------------------------------------------------------

LEMMA ProgramType ==
    ASSUME NEW p \in Program
    PROVE  /\ p.worker \in Goroutine
           /\ \/ p.fault \in {"none", "mutex"} /\ p.at = "nowhere"
              \/ p.fault = "panic"
                    /\ p.at \in {"gate0", "check", "gate1", "act", "end"}
              \/ p.fault = "return" /\ p.at \in {"gate0", "gate1"}
              \/ p.fault = "skip" /\ p.at = "gate0"
BY FaultAssumption DEF Fault

-----------------------------------------------------------------------------
(* Steps of the workers. *)

LEMMA WorkerFeelsFaults ==
    ASSUME Refines, NEW w \in Goroutine, WorkerStep(w)
    PROVE  FaultsAreFelt'
<1> USE DEF Refines, LiveInv, IInv, TypeOK, LiveTypeOK, Move, Running, Faulty
<1>1. /\ \A v \in Goroutine \ {w} :
            pc'[v] = pc[v] /\ at'[v] = at[v] /\ ip'[v] = ip[v]
      /\ \A k \in Key : release'[k] = "closed" <=> release[k] = "closed"
      /\ UNCHANGED program
  BY WorkerFrame DEF inputs
<1>2. \A v \in Goroutine, n \in {0, 1} : Opened(v, n)' <=> Opened(v, n)
  BY <1>1, Keys DEF Opened
<1>3. \A v \in Goroutine \ {w} : v \in panicked' <=> v \in panicked
  BY DEF WorkerStep, Gated, Past, CheckIt, Act, Load, Store, Return, Misstep,
         vars, fields, AwaitPark, AwaitLeave, Panic, Exit, Recover
<1>4. /\ program.worker \in Goroutine
      /\ \/ program.fault \in {"none", "mutex"} /\ program.at = "nowhere"
         \/ program.fault = "panic"
               /\ program.at \in {"gate0", "check", "gate1", "act", "end"}
         \/ program.fault = "return" /\ program.at \in {"gate0", "gate1"}
         \/ program.fault = "skip" /\ program.at = "gate0"
  BY ProgramType DEF MemoryTypeOK
<1> DEFINE Felt(v) ==
        /\ pc[v] \in {"panicking", "dying"} => Faulty(v) /\ program.fault = "panic"
        /\ pc[v] = "exited" =>
              \/ ip[v] = "end" /\ ~Faulty(v)
              \/ Faulty(v) /\ program.fault \in {"panic", "return"}
        /\ v \in panicked <=> /\ pc[v] \in {"dying", "exited"}
                              /\ Faulty(v) /\ program.fault = "panic"
        /\ pc[v] = "await" => ~Faulty(v)
        /\ program.worker = v /\ program.fault \in {"panic", "return"} =>
              Pos[ip[v]] <= Pos[program.at]
        /\ ip[v] # "gate0" =>
              Opened(v, 0) \/ (program.fault = "skip" /\ program.worker = v)
<1>5. Felt(w)
  BY DEF FaultsAreFelt
<1>6. Felt(w)'
  <2>1. CASE Gated(w)
    BY <1>1, <1>2, <1>5, <2>1 DEF Gated, AwaitPark, code
  <2>2. CASE Past(w)
    <3>1. /\ pc[w] = "await" /\ pc'[w] = "run" /\ release[at[w]] = "closed"
          /\ panicked' = panicked
      BY <2>2 DEF Past, AwaitLeave
    <3>2. CASE Jump(w, "gate0", "check")
      <4>1. Opened(w, 0)
        BY <3>1, <3>2 DEF Jump, BehindGates, Opened
      <4>2. QED
        BY <1>1, <1>2, <1>4, <1>5, <3>1, <3>2, <4>1 DEF Jump, Pos
    <3>3. CASE Jump(w, "gate1", "act")
      BY <1>1, <1>2, <1>4, <1>5, <3>1, <3>3 DEF Jump, Pos
    <3>4. QED
      BY <2>2, <3>2, <3>3 DEF Past
  <2>3. CASE CheckIt(w)
    BY <1>1, <1>2, <1>4, <1>5, <2>3 DEF CheckIt, Jump, vars, fields, Pos
  <2>4. CASE Act(w)
    BY <1>1, <1>2, <1>4, <1>5, <2>4 DEF Act, Jump, vars, fields, Pos
  <2>5. CASE Load(w) \/ Store(w)
    BY <1>1, <1>2, <1>4, <1>5, <2>5 DEF Load, Store, Jump, vars, fields, Pos
  <2>6. CASE Return(w)
    BY <1>1, <1>2, <1>4, <1>5, <2>6 DEF Return, Exit, code
  <2>7. CASE Misstep(w)
    BY <1>1, <1>2, <1>4, <1>5, <2>7
       DEF Misstep, Panic, Exit, Jump, vars, fields, code
  <2>8. CASE Recover(w) /\ UNCHANGED code
    BY <1>1, <1>2, <1>4, <1>5, <2>8 DEF Recover, code
  <2>9. QED
    BY <2>1, <2>2, <2>3, <2>4, <2>5, <2>6, <2>7, <2>8 DEF WorkerStep
<1>7. QED
  BY <1>1, <1>2, <1>3, <1>6 DEF FaultsAreFelt

LEMMA WorkerKeepsMemory ==
    ASSUME Refines, NEW w \in Goroutine, WorkerStep(w)
    PROVE  MemoryTypeOK'
<1> USE DEF Refines, MemoryTypeOK, LiveInv, LiveTypeOK
<1>1. UNCHANGED <<program, path>>
  BY WorkerFrame DEF inputs, client
<1>2. /\ available' \in BOOLEAN
      /\ ok' \in [Goroutine -> BOOLEAN]
      /\ sum' \in [Goroutine -> Nat]
      /\ owners' \in Nat
  <2>1. CASE CheckIt(w)
    BY <2>1 DEF CheckIt
  <2>2. CASE Act(w)
    BY <2>2 DEF Act
  <2>3. CASE Load(w) \/ Store(w)
    BY <2>3 DEF Load, Store
  <2>4. CASE UNCHANGED <<available, owners, ok, sum>>
    BY <2>4
  <2>5. QED
    BY <2>1, <2>2, <2>3, <2>4
       DEF WorkerStep, Gated, Past, Return, Misstep, code
<1>3. QED
  BY <1>1, <1>2

\* The worker let go carries out its transition, and nobody else moves.
LEMMA WorkerHasEffect ==
    ASSUME Refines, NEW w \in Goroutine, WorkerStep(w)
    PROVE  Effects'
<1> USE DEF Refines, LiveInv, LiveTypeOK, MemoryTypeOK, Running, Faulty
<1>1. UNCHANGED <<inputs, client>>
  BY WorkerFrame
<1>2. /\ UNCHANGED <<program, script, stage, built, next, path>>
      /\ Stepping' = Stepping /\ This' = This /\ Now' = Now
  BY <1>1 DEF inputs, client, Stepping, This, Now
<1>3. ~Resting(w)
  BY RestingIsStill
<1>4. CASE ~Stepping
  <2>1. stage \in {"starting", "settling"}
    BY <1>3, <1>4 DEF CallMatches, RestedWorld, Stepping
  <2>2. ~Opened(w, 0) /\ ~Opened(w, 1)
    BY <1>4, <2>1 DEF OpenedInOrder
  <2>3. ip[w] \in {"gate0", "gate1"}
    BY <2>2 DEF BehindGates, Places
  <2>4. UNCHANGED <<available, owners, ok>>
    BY <2>3 DEF WorkerStep, Gated, Past, CheckIt, Act, Load, Store, Return,
                Misstep, Jump, code
  <2>5. Memory(next)' = Memory(next)
    BY <1>2, <2>4 DEF Memory
  <2>6. QED
    BY <1>2, <1>4, <2>5 DEF Effects
<1>5. CASE Stepping
  <2>1. w = This.worker /\ This \in NextSteps(next, Steps)
    BY <1>3, <1>5 DEF RestedWorld, OpenedInOrder
  <2>2. /\ next[w] \in {0, 1} /\ This = T(w, next[w]) /\ This.step = next[w]
    BY <2>1, NextStep, Keys
  <2>3. CASE next[w] = 0
    <3>1. DuringCheck(w)
      BY <1>5, <2>1, <2>2, <2>3 DEF Effects
    <3>2. ~Opened(w, 1)
      BY <1>5, <2>2, <2>3, Keys DEF OpenedInOrder
    <3>3. program.worker = w => program.at # "gate0"
      BY <1>5, <2>1, <2>2, <2>3 DEF RefusalsAreFaults
    <3>4. ip[w] = "gate1" /\ pc[w] = "await" => release[at[w]] # "closed"
      BY <3>2 DEF BehindGates, Opened
    <3>5. DuringCheck(w)'
      <4>1. CASE Past(w)
        <5>1. Jump(w, "gate0", "check") /\ UNCHANGED <<available, owners, ok>>
          BY <3>4, <4>1 DEF Past, AwaitLeave, Move, Jump
        <5>2. QED
          BY <1>2, <3>1, <5>1 DEF DuringCheck, Jump
      <4>2. CASE CheckIt(w)
        BY <1>2, <3>1, <4>2 DEF CheckIt, DuringCheck, Jump
      <4>3. CASE UNCHANGED code
        BY <1>2, <3>1, <4>3 DEF DuringCheck, code
      <4>4. Past(w) \/ CheckIt(w) \/ UNCHANGED code
        BY <3>1, <3>3 DEF WorkerStep, Gated, Act, Load, Store, Return, Misstep,
                          Jump, DuringCheck
      <4>5. QED
        BY <4>1, <4>2, <4>3, <4>4
    <3>6. QED
      BY <1>2, <1>5, <2>1, <2>2, <2>3, <3>5 DEF Effects
  <2>4. CASE next[w] = 1
    <3>1. DuringAct(w)
      BY <1>5, <2>1, <2>2, <2>4 DEF Effects
    <3>2. DuringAct(w)'
      <4>1. CASE Past(w)
        <5>1. Jump(w, "gate1", "act") /\ UNCHANGED <<available, owners, ok, sum>>
          BY <3>1, <4>1 DEF Past, Jump, DuringAct
        <5>2. QED
          BY <1>2, <3>1, <5>1 DEF DuringAct, Jump
      <4>2. CASE Act(w)
        BY <1>2, <3>1, <4>2 DEF Act, DuringAct, Jump
      <4>3. CASE Load(w)
        BY <1>2, <3>1, <4>3 DEF Load, DuringAct, Jump
      <4>4. CASE Store(w)
        BY <1>2, <3>1, <4>4 DEF Store, DuringAct, Jump
      <4>5. CASE UNCHANGED code
        BY <1>2, <3>1, <4>5 DEF DuringAct, code
      <4>6. Past(w) \/ Act(w) \/ Load(w) \/ Store(w) \/ UNCHANGED code
        BY <3>1 DEF WorkerStep, Gated, CheckIt, Return, Misstep, Jump, DuringAct
      <4>7. QED
        BY <4>1, <4>2, <4>3, <4>4, <4>5, <4>6
    <3>3. QED
      BY <1>2, <1>5, <2>1, <2>2, <2>4, <3>2 DEF Effects
  <2>5. QED
    BY <2>2, <2>3, <2>4
<1>6. QED
  BY <1>4, <1>5

LEMMA WorkerKeepsRefusals ==
    ASSUME Refines, NEW w \in Goroutine, WorkerStep(w)
    PROVE  RefusalsAreFaults'
<1>1. UNCHANGED <<program, script, stage, built, next>>
  BY WorkerFrame DEF inputs, client, Refines
<1>2. Stepping' = Stepping /\ This' = This /\ Remaining' = Remaining
  BY <1>1 DEF Stepping, This, Remaining
<1>3. QED
  BY <1>1, <1>2 DEF Refines, RefusalsAreFaults

-----------------------------------------------------------------------------
(* Steps of the client. *)

\* What the new conjuncts of the invariant add to those of LiveInv.
Added == MemoryTypeOK /\ Effects /\ FaultsAreFelt /\ RefusalsAreFaults

\* A step of the client that neither opens a gate nor observes.
LEMMA QuietStep ==
    ASSUME Refines, UNCHANGED <<at, panicked, inputs, code, built, next, path>>,
           \A k \in Key : release'[k] = "closed" <=> release[k] = "closed",
           \A w \in Goroutine :
               pc'[w] = pc[w] \/ (pc[w] = "new" /\ pc'[w] = "run"),
           Stepping' <=> Stepping,
           stage' = "refused" => stage = "refused"
    PROVE  Added'
<1> USE DEF Refines, inputs, code
<1>1. /\ This' = This /\ Now' = Now /\ Memory(next)' = Memory(next)
      /\ \A v \in Goroutine, n \in {0, 1} : Opened(v, n)' <=> Opened(v, n)
      /\ \A v \in Goroutine : Faulty(v)' <=> Faulty(v)
      /\ Remaining' = Remaining
  BY Keys DEF This, Now, Memory, Opened, Faulty, Remaining
<1>2. MemoryTypeOK'
  BY DEF MemoryTypeOK
<1>3. Effects'
  <2>1. \A w : (DuringCheck(w)' <=> DuringCheck(w)) /\ (DuringAct(w)' <=> DuringAct(w))
    BY <1>1 DEF DuringCheck, DuringAct
  <2>2. QED
    BY <1>1, <2>1 DEF Effects
<1>4. FaultsAreFelt'
  BY <1>1 DEF FaultsAreFelt, LiveInv, IInv, TypeOK
<1>5. RefusalsAreFaults'
  BY <1>1 DEF RefusalsAreFaults
<1>6. QED
  BY <1>2, <1>3, <1>4, <1>5 DEF Added

\* A worker that is not parked at its next transition has met a fault, or will.
LEMMA NobodyParked ==
    ASSUME Refines, stage = "ready", This \in NextSteps(next, Steps),
           pc[This.worker] = "await" => at[This.worker] # This
    PROVE  Refused(program, This)
<1> DEFINE w == This.worker
<1> USE DEF Refines, LiveInv
<1>1. /\ w \in Goroutine /\ next[w] \in {0, 1} /\ This = T(w, next[w])
      /\ This.step = next[w]
  BY NextStep, Keys
<1>2. Resting(w)
  BY <1>1 DEF RestedWorld
<1>3. \A n \in {0, 1} : Opened(w, n) <=> n < next[w]
  BY <1>1 DEF OpenedInOrder, Stepping
<1>4. \A n \in {0, 1} : n < next[w] => ~Refused(program, T(w, n))
  BY <1>1 DEF RefusalsAreFaults
<1>5. \A n : T(w, n).worker = w /\ T(w, n).step = n
  BY Keys
<1> HIDE DEF w
<1>6. CASE pc[w] = "await" /\ release[at[w]] # "closed"
  <2>1. CASE ip[w] = "gate0" /\ at[w] = T(w, 0)
    BY <1>1, <1>3, <1>6, <2>1 DEF Opened, w
  <2>2. CASE ip[w] = "gate1" /\ at[w] = T(w, 1)
    <3>1. next[w] = 0
      BY <1>1, <1>3, <1>6, <2>2 DEF Opened, w
    <3>2. program.fault = "skip" /\ program.worker = w
      BY <1>1, <1>3, <2>2, <3>1 DEF FaultsAreFelt
    <3>3. QED
      BY <1>1, <3>1, <3>2 DEF Refused, w
  <2>3. QED
    BY <1>1, <1>6, <2>1, <2>2 DEF BehindGates
<1>7. CASE pc[w] = "exited"
  <2>1. ip[w] # "end"
    BY <1>1, <1>3, <1>7 DEF BehindGates
  <2>2. /\ program.worker = w /\ program.at = ip[w]
        /\ program.fault \in {"panic", "return"}
    BY <1>1, <1>7, <2>1 DEF FaultsAreFelt, Faulty
  <2>3. ip[w] \in {"gate0", "check", "gate1"}
    BY <1>1, <1>3, <2>1 DEF BehindGates, LiveTypeOK, Places
  <2>4. ip[w] # "gate0" => next[w] = 1
    BY <1>1, <1>3, <2>2 DEF FaultsAreFelt
  <2>5. CASE program.fault = "panic"
    BY <1>1, <1>4, <1>5, <2>2, <2>3, <2>4, <2>5 DEF Refused, w
  <2>6. CASE program.fault = "return"
    BY <1>1, <1>4, <1>5, <2>2, <2>3, <2>4, <2>6, ProgramType
       DEF Refused, MemoryTypeOK, w
  <2>7. QED
    BY <2>2, <2>5, <2>6
<1>8. QED
  BY <1>2, <1>6, <1>7 DEF Resting

LEMMA OpenAdds ==
    ASSUME Refines, Open, UNCHANGED <<inputs, code>>
    PROVE  Added'
<1> USE DEF Refines, LiveInv, IInv, TypeOK
<1>1. /\ UNCHANGED <<pc, at, panicked, process, built, next, path>>
      /\ stage = "ready"
      /\ This \in NextSteps(next, Steps)
  BY DEF Open, Stage, ReleaseOpen, ReleaseNoWaiter
<1> DEFINE w == This.worker
<1>2. /\ This \in Key /\ w \in Goroutine /\ next[w] \in {0, 1}
      /\ This = T(w, next[w]) /\ This.step = next[w]
  BY <1>1, NextStep, Keys
<1>3. /\ This' = This /\ Now' = Now /\ Memory(next)' = Memory(next)
      /\ \A v \in Goroutine : Faulty(v)' <=> Faulty(v)
      /\ Remaining'
  BY <1>1 DEF This, Now, Memory, Faulty, Open, Remaining, inputs, code
<1>4. MemoryTypeOK'
  BY <1>1 DEF MemoryTypeOK, inputs, code
<1>5. /\ \A v \in Goroutine : Opened(v, 0) => Opened(v, 0)'
      /\ Memory(next) = Now /\ Now.next = next
  BY <1>1, <1>2, Keys
     DEF Opened, Open, ReleaseOpen, ReleaseNoWaiter, Ensured, Effects, Stepping
<1>6. FaultsAreFelt'
  BY <1>1, <1>3, <1>5 DEF FaultsAreFelt, inputs, code
<1>7. CASE ReleaseNoWaiter(Explorer, This) /\ Stage("ready", "refused")
  <2>1. stage' = "refused" /\ parked[This] = 0
    BY <1>7 DEF Stage, ReleaseNoWaiter
  <2>2. Awaiting(This) = {}
    BY <1>2, <2>1, CountedFinite, FS_EmptySet DEF CountsAgree
  <2>3. Refused(program, This)
    BY <1>1, <1>2, <2>2, NobodyParked DEF Awaiting
  <2>4. Effects'
    BY <1>1, <1>3, <1>5, <2>1 DEF Effects, Stepping
  <2>5. RefusalsAreFaults'
    BY <1>1, <1>3, <2>1, <2>3 DEF RefusalsAreFaults, Stepping, inputs
  <2>6. QED
    BY <1>4, <1>6, <2>4, <2>5 DEF Added
<1>8. CASE ReleaseOpen(Explorer, This) /\ Stage("ready", "releasing")
  <2>1. stage' = "releasing" /\ parked[This] # 0
    BY <1>8 DEF Stage, ReleaseOpen
  <2>2. pc[w] = "await" /\ at[w] = This
    <3>1. Awaiting(This) # {}
      BY <1>2, <2>1, CountedFinite, FS_EmptySet DEF CountsAgree
    <3>2. PICK g \in Goroutine : pc[g] = "await" /\ at[g] = This
      BY <3>1 DEF Awaiting
    <3>3. g = w
      BY <3>2, Keys DEF BehindGates
    <3>4. QED
      BY <3>2, <3>3
  <2>3. ip[w] = IF next[w] = 0 THEN "gate0" ELSE "gate1"
    BY <1>2, <2>2, Keys DEF BehindGates
  <2>4. ~Faulty(w)
    BY <1>2, <2>2 DEF FaultsAreFelt
  <2>5. Effects'
    <3>1. /\ available = ~Now.taken /\ owners = Now.owners
          /\ \A v \in Goroutine : ok[v] = ~Now.local[v]
      <4>1. /\ Now.taken = ~available /\ Now.owners = owners
            /\ \A v \in Goroutine : Now.local[v] = ~ok[v]
        BY <1>5 DEF Memory
      <4>2. QED
        BY <4>1 DEF MemoryTypeOK
    <3>2. next[w] = 0 => DuringCheck(w)'
      BY <1>3, <2>3, <3>1 DEF DuringCheck, code
    <3>3. next[w] = 1 => DuringAct(w)'
      BY <1>3, <2>3, <3>1 DEF DuringAct, code
    <3>4. QED
      BY <1>1, <1>2, <1>3, <1>5, <2>1, <3>2, <3>3 DEF Effects, Stepping
  <2>6. RefusalsAreFaults'
    BY <1>1, <1>2, <1>3, <2>1, <2>3, <2>4
       DEF RefusalsAreFaults, Stepping, Faulty, inputs
  <2>7. QED
    BY <1>4, <1>6, <2>5, <2>6 DEF Added
<1>9. QED
  BY <1>7, <1>8 DEF Open

\* A panic that was recovered is that of the worker let go, or came before the
\* first gate: it is one that refuses the transition.
LEMMA PanicRefuses ==
    ASSUME Refines, Stepping, panicked # {}
    PROVE  Refused(program, This)
<1> USE DEF Refines, LiveInv
<1>1. PICK v \in Goroutine : v \in panicked
  BY DEF IInv, TypeOK
<1>2. /\ program.fault = "panic" /\ program.worker = v /\ program.at = ip[v]
  BY <1>1 DEF FaultsAreFelt, Faulty
<1>3. \A n \in {0, 1} : Opened(v, n) =>
         This = T(v, n) \/ ~Refused(program, T(v, n))
  BY DEF OpenedInOrder, RefusalsAreFaults
<1>4. \A n : T(v, n).worker = v /\ T(v, n).step = n
  BY Keys
<1>5. program.at \in {"gate0", "check", "gate1", "act", "end"}
  BY <1>2, ProgramType DEF MemoryTypeOK
<1>6. CASE program.at = "gate0"
  BY <1>2, <1>6 DEF Refused
<1>7. CASE program.at \in {"check", "gate1"}
  <2>1. Opened(v, 0)
    BY <1>2, <1>7 DEF FaultsAreFelt
  <2>2. Refused(program, T(v, 0))
    BY <1>2, <1>4, <1>7 DEF Refused
  <2>3. QED
    BY <1>3, <2>1, <2>2
<1>8. CASE program.at \in {"act", "end"}
  <2>1. Opened(v, 1)
    BY <1>2, <1>8 DEF BehindGates
  <2>2. Refused(program, T(v, 1))
    BY <1>2, <1>4, <1>8 DEF Refused
  <2>3. QED
    BY <1>3, <2>1, <2>2
<1>9. QED
  BY <1>5, <1>6, <1>7, <1>8

\* When Quiesce has returned and nobody panicked, the transition was executed.
LEMMA Executed ==
    ASSUME Refines, Idle, stage = "quiescing", panicked = {}
    PROVE  /\ ~Refused(program, This)
           /\ IF This.step = 0 THEN ip[This.worker] = "gate1"
              ELSE ip[This.worker] = "end"
<1> DEFINE w == This.worker
<1> USE DEF Refines, LiveInv
<1>1. /\ w \in Goroutine /\ next[w] \in {0, 1} /\ This = T(w, next[w])
      /\ This.step = next[w]
  BY NextStep, Keys DEF OpenedInOrder, Stepping
<1>2. \A v \in Goroutine : Resting(v)
  BY DEF RestedWorld
<1>3. Opened(w, next[w])
  BY <1>1 DEF OpenedInOrder, Stepping
<1>4. /\ next[w] = 0 => ip[w] \in {"gate0", "check", "gate1"}
      /\ next[w] = 1 => ip[w] \in {"gate1", "act", "load", "store", "end"}
  <2>1. IF This.step = 0 THEN DuringCheck(w) ELSE DuringAct(w)
    BY DEF Effects, Stepping
  <2>2. DuringCheck(w) => ip[w] \in {"gate0", "check", "gate1"}
    BY DEF DuringCheck
  <2>3. DuringAct(w) => ip[w] \in {"gate1", "act", "load", "store", "end"}
    BY DEF DuringAct
  <2>4. QED
    BY <1>1, <2>1, <2>2, <2>3
<1>5. program.worker = w => program.at # IF next[w] = 0 THEN "gate0" ELSE "gate1"
  BY <1>1 DEF RefusalsAreFaults, Stepping
<1>6. \A v \in Goroutine : pc[v] = "exited" =>
         \/ ip[v] = "end" /\ ~Faulty(v)
         \/ Faulty(v) /\ program.fault = "return"
  BY DEF FaultsAreFelt
<1>7. program.worker = w /\ program.fault \in {"panic", "return"} =>
         Pos[ip[w]] <= Pos[program.at]
  BY <1>1 DEF FaultsAreFelt
<1>8. \/ program.fault \in {"none", "mutex"} /\ program.at = "nowhere"
      \/ program.fault = "panic"
           /\ program.at \in {"gate0", "check", "gate1", "act", "end"}
      \/ program.fault = "return" /\ program.at \in {"gate0", "gate1"}
      \/ program.fault = "skip" /\ program.at = "gate0"
  BY ProgramType DEF MemoryTypeOK
<1>9. /\ next[w] = 0 => ip[w] = "gate1"
      /\ next[w] = 1 => ip[w] = "end"
      /\ ~Faulty(w) \/ program.fault = "return"
  <2>1. CASE pc[w] = "exited"
    BY <1>1, <1>4, <1>5, <1>6, <1>8, <2>1 DEF Faulty
  <2>2. CASE pc[w] = "await" /\ release[at[w]] # "closed"
    BY <1>1, <1>3, <1>4, <2>2 DEF BehindGates, Opened, FaultsAreFelt
  <2>3. QED
    BY <1>1, <1>2, <2>1, <2>2 DEF Resting
<1>10. ~(program.fault = "panic" /\ program.at = "gate0")
  <2> SUFFICES ASSUME program.fault = "panic", program.at = "gate0" PROVE FALSE
    OBVIOUS
  <2> DEFINE v == program.worker
  <2>1. v \in Goroutine
    BY ProgramType DEF MemoryTypeOK
  <2>2. Pos[ip[v]] <= Pos["gate0"] /\ ip[v] \in Places
    BY <2>1 DEF FaultsAreFelt, LiveTypeOK
  <2>3. ip[v] = "gate0"
    BY <2>2 DEF Pos, Places
  <2>4. Faulty(v)
    BY <2>3 DEF Faulty
  <2>5. pc[v] = "exited"
    BY <1>2, <2>1, <2>4 DEF Resting, FaultsAreFelt
  <2>6. QED
    BY <1>6, <2>1, <2>3, <2>5
<1>11. ~Refused(program, This)
  <2>1. CASE program.worker # w \/ program.fault \in {"none", "mutex"}
    BY <1>1, <1>8, <1>10, <2>1 DEF Refused, Steps
  <2>2. CASE program.worker = w /\ program.fault = "panic"
    <3>1. ~Faulty(w)
      BY <1>9, <2>2
    <3>2. /\ ip[w] = "gate1" => program.at \notin {"gate0", "check", "gate1"}
          /\ ip[w] = "end" => program.at \notin {"act", "end"}
      BY <1>7, <2>2, <3>1 DEF Pos, Faulty
    <3>3. IF program.at \in {"act", "end"} THEN next[w] = 0 ELSE next[w] = 1
      BY <1>1, <1>8, <1>9, <2>2, <3>2
    <3>4. QED
      BY <1>1, <1>8, <1>10, <2>2, <3>3 DEF Refused
  <2>3. CASE program.worker = w /\ program.fault \in {"return", "skip"}
    BY <1>1, <1>5, <1>8, <2>3 DEF Refused
  <2>4. QED
    BY <1>8, <2>1, <2>2, <2>3
<1>12. QED
  BY <1>1, <1>9, <1>11

\* What a step of the scene makes of its state.
LEMMA ApplyComputes ==
    ASSUME NEW s \in Memories, NEW t \in Key
    PROVE  LET w == t.worker
               n == [s.next EXCEPT ![w] = t.step + 1]
           IN  CheckThenActApply(s, t) =
                  IF t.step = 0
                  THEN [taken |-> s.taken, owners |-> s.owners,
                        local |-> [s.local EXCEPT ![w] = s.taken], next |-> n]
                  ELSE IF s.local[w]
                  THEN [taken |-> s.taken, owners |-> s.owners,
                        local |-> s.local, next |-> n]
                  ELSE [taken |-> TRUE, owners |-> s.owners + 1,
                        local |-> s.local, next |-> n]
<1> DEFINE w == t.worker
           n == [s.next EXCEPT ![w] = t.step + 1]
           moved == [s EXCEPT !.next[w] = t.step + 1]
<1>1. w \in Goroutine /\ t.step \in {0, 1}
  BY LiveAssumption DEF T
<1>2. /\ s.taken \in BOOLEAN /\ s.owners \in Nat
      /\ s.local \in [Goroutine -> BOOLEAN] /\ s.next \in [Goroutine -> 0..Steps]
      /\ n \in [Goroutine -> 0..Steps]
  BY <1>1 DEF Memories, Steps
<1>3. moved = [taken |-> s.taken, owners |-> s.owners, local |-> s.local, next |-> n]
  BY <1>1, <1>2 DEF Memories
<1>4. moved \in Memories
  BY <1>2, <1>3 DEF Memories
<1>5. moved.local = s.local /\ moved.owners = s.owners /\ moved.next = n
  BY <1>3
<1>6. CASE t.step = 0
  <2>1. CheckThenActApply(s, t) = [moved EXCEPT !.local[w] = s.taken]
    BY <1>6 DEF CheckThenActApply
  <2>2. [moved EXCEPT !.local[w] = s.taken]
           = [taken |-> s.taken, owners |-> s.owners,
              local |-> [s.local EXCEPT ![w] = s.taken], next |-> n]
    <3>1. [moved.local EXCEPT ![w] = s.taken] \in [Goroutine -> BOOLEAN]
      BY <1>2, <1>5
    <3> HIDE DEF moved
    <3>2. QED
      BY <1>1, <1>2, <1>3, <1>4, <3>1 DEF Memories
  <2>3. QED
    BY <1>6, <2>1, <2>2
<1>7. CASE t.step = 1
  <2>1. CheckThenActApply(s, t) =
           IF s.local[w] THEN moved
           ELSE [moved EXCEPT !.taken = TRUE, !.owners = @ + 1]
    BY <1>7 DEF CheckThenActApply
  <2>2. [moved EXCEPT !.taken = TRUE, !.owners = @ + 1]
           = [taken |-> TRUE, owners |-> s.owners + 1, local |-> s.local,
              next |-> n]
    <3> HIDE DEF moved
    <3> DEFINE m == [moved EXCEPT !.taken = TRUE]
    <3>1. m = [taken |-> TRUE, owners |-> s.owners, local |-> s.local, next |-> n]
      <4>1. \A k \in BOOLEAN :
               [moved EXCEPT !.taken = k]
                  = [taken |-> k, owners |-> moved.owners,
                     local |-> moved.local, next |-> moved.next]
        BY <1>4 DEF Memories
      <4>2. QED
        BY <1>5, <4>1
    <3>2. m \in Memories /\ m.owners = s.owners
      BY <1>2, <3>1 DEF Memories
    <3> HIDE DEF m
    <3>3. [m EXCEPT !.owners = s.owners + 1]
             = [taken |-> TRUE, owners |-> s.owners + 1, local |-> s.local,
                next |-> n]
      <4>1. [m EXCEPT !.owners = s.owners + 1]
               = [taken |-> m.taken, owners |-> s.owners + 1,
                  local |-> m.local, next |-> m.next]
        BY <3>2 DEF Memories
      <4>2. m.taken = TRUE /\ m.local = s.local /\ m.next = n
        BY <3>1
      <4>3. QED
        BY <4>1, <4>2
    <3>4. [moved EXCEPT !.taken = TRUE, !.owners = @ + 1]
             = [m EXCEPT !.owners = s.owners + 1]
      BY <3>2 DEF m
    <3>5. QED
      BY <3>3, <3>4
  <2>3. QED
    BY <1>3, <1>7, <2>1, <2>2
<1>8. QED
  BY <1>1, <1>6, <1>7

\* Then the memory is that of the next state of the scene.
LEMMA ObservesApply ==
    ASSUME Refines, Idle, stage = "quiescing", panicked = {}
    PROVE  Memory([next EXCEPT ![This.worker] = @ + 1]) = CheckThenActApply(Now, This)
<1> DEFINE w == This.worker
           n == [next EXCEPT ![This.worker] = @ + 1]
<1> USE DEF Refines, LiveInv, MemoryTypeOK
<1>1. /\ w \in Goroutine /\ next[w] \in {0, 1} /\ This.step = next[w]
  BY NextStep, Keys DEF OpenedInOrder, Stepping
<1>2. Now \in Memories /\ Now.next = next
  BY DEF Now, Effects
<1>3. This \in Key /\ [Now.next EXCEPT ![w] = This.step + 1] = n
  BY <1>1, <1>2, NextStep DEF OpenedInOrder, Stepping
<1>4. /\ Now.taken \in BOOLEAN /\ Now.owners \in Nat
      /\ Now.local \in [Goroutine -> BOOLEAN]
  BY <1>2 DEF Memories
<1> DEFINE M(taken, count, local) ==
        [taken |-> taken, owners |-> count, local |-> local, next |-> n]
<1> PICK gone \in BOOLEAN : gone = ~available
  OBVIOUS
<1>5. Memory(n) = M(gone, owners, [v \in Goroutine |-> ~ok[v]])
  BY DEF Memory
<1>6. CASE This.step = 0
  <2>1. CheckThenActApply(Now, This)
           = M(Now.taken, Now.owners, [Now.local EXCEPT ![w] = Now.taken])
    BY <1>2, <1>3, <1>6, ApplyComputes
  <2>2. DuringCheck(w) /\ ip[w] = "gate1"
    BY <1>6, Executed DEF Effects, Stepping
  <2>3. gone = Now.taken /\ owners = Now.owners
    BY <1>4, <2>2 DEF DuringCheck
  <2>4. ASSUME NEW v \in Goroutine
        PROVE  ~ok[v] = [Now.local EXCEPT ![w] = Now.taken][v]
    <3>1. CASE v = w
      BY <1>1, <1>4, <2>2, <3>1 DEF DuringCheck
    <3>2. CASE v # w
      BY <1>1, <1>4, <2>2, <3>2 DEF DuringCheck
    <3>3. QED
      BY <3>1, <3>2
  <2>5. [v \in Goroutine |-> ~ok[v]] = [Now.local EXCEPT ![w] = Now.taken]
    BY <1>4, <2>4
  <2>6. QED
    BY <1>5, <2>1, <2>3, <2>5
<1>7. CASE This.step = 1
  <2>1. DuringAct(w) /\ ip[w] = "end"
    BY <1>7, Executed DEF Effects, Stepping
  <2>2. [v \in Goroutine |-> ~ok[v]] = Now.local
    <3>1. ASSUME NEW v \in Goroutine PROVE ~ok[v] = Now.local[v]
      BY <1>4, <2>1 DEF DuringAct
    <3>2. QED
      BY <1>4, <3>1
  <2>3. CASE Now.local[w]
    <3>1. gone = Now.taken /\ owners = Now.owners
      BY <1>1, <1>4, <2>1, <2>3 DEF DuringAct
    <3>2. CheckThenActApply(Now, This) = M(Now.taken, Now.owners, Now.local)
      BY <1>2, <1>3, <1>7, <2>3, ApplyComputes
    <3>3. QED
      BY <1>5, <2>2, <3>1, <3>2
  <2>4. CASE ~Now.local[w]
    <3>1. gone = TRUE /\ owners = Now.owners + 1
      BY <1>1, <1>4, <2>1, <2>4 DEF DuringAct
    <3>2. CheckThenActApply(Now, This) = M(TRUE, Now.owners + 1, Now.local)
      BY <1>2, <1>3, <1>7, <2>4, ApplyComputes
    <3>3. QED
      BY <1>5, <2>2, <3>1, <3>2
  <2>5. QED
    BY <2>3, <2>4
<1>8. QED
  BY <1>1, <1>6, <1>7

LEMMA MemoryType ==
    ASSUME MemoryTypeOK, NEW n \in [Goroutine -> 0..Steps]
    PROVE  Memory(n) \in Memories
<1>1. [w \in Goroutine |-> ~ok[w]] \in [Goroutine -> BOOLEAN]
  BY Zenon
<1>2. (~available) \in BOOLEAN
  BY Zenon
<1>3. QED
  BY <1>1, <1>2 DEF Memory, Memories, MemoryTypeOK

LEMMA ObserveAdds ==
    ASSUME Refines, Idle, panicked = {}, Stage("quiescing", "ready"), Observe,
           UNCHANGED <<vars, inputs, code>>
    PROVE  Added'
<1> DEFINE w == This.worker
           n == [next EXCEPT ![This.worker] = @ + 1]
<1> USE DEF Refines, LiveInv
<1>1. /\ UNCHANGED <<pc, at, panicked, release, program, script, ip,
                     available, owners, ok, sum>>
      /\ stage = "quiescing" /\ stage' = "ready"
      /\ next' = n /\ path' = Append(path, Memory(n))
  BY DEF Observe, Stage, vars, fields, inputs, code
<1>2. /\ w \in Goroutine /\ next[w] \in {0, 1} /\ This = T(w, next[w])
  BY <1>1, NextStep DEF OpenedInOrder, Stepping
<1>3. n \in [Goroutine -> 0..Steps]
  BY <1>2 DEF LiveTypeOK, Steps
<1>4. Memory(n) \in Memories
  BY <1>3, MemoryType
<1>5. path' \in Seq(Memories) /\ Len(path') \in Nat \ {0} /\ Now' = Memory(n)
  BY <1>1, <1>4, AppendProperties DEF Now, MemoryTypeOK
<1>6. MemoryTypeOK'
  BY <1>1, <1>5 DEF MemoryTypeOK
<1>7. Effects'
  <2>1. Memory(next)' = Memory(n) /\ Memory(n).next = n
    BY <1>1 DEF Memory
  <2>2. QED
    BY <1>1, <1>5, <2>1 DEF Effects, Stepping
<1>8. FaultsAreFelt'
  <2>1. \A v \in Goroutine, m \in {0, 1} : Opened(v, m)' <=> Opened(v, m)
    BY <1>1 DEF Opened
  <2>2. \A v \in Goroutine : Faulty(v)' <=> Faulty(v)
    BY <1>1 DEF Faulty
  <2>3. QED
    BY <1>1, <2>1, <2>2 DEF FaultsAreFelt
<1>9. RefusalsAreFaults'
  <2>1. ASSUME NEW v \in Goroutine, NEW m \in {0, 1}, m < n[v]
        PROVE  ~Refused(program, T(v, m))
    <3>1. ~Refused(program, This)
      BY <1>1, Executed
    <3>2. m < next[v] \/ (v = w /\ m = next[w])
      BY <1>2, <2>1 DEF LiveTypeOK, Steps
    <3>3. QED
      BY <1>2, <3>1, <3>2 DEF RefusalsAreFaults
  <2>2. QED
    BY <1>1, <2>1 DEF RefusalsAreFaults, Stepping
<1>10. QED
  BY <1>6, <1>7, <1>8, <1>9 DEF Added

-----------------------------------------------------------------------------
(* The theorem. *)

LEMMA RefinesInitially ==
    ASSUME LiveInit
    PROVE  Added
<1> USE LiveAssumption
<1>1. /\ \A w \in Goroutine : pc[w] = "new" /\ next[w] = 0 /\ ip[w] = "gate0"
      /\ panicked = {} /\ stage = "starting" /\ program \in Program
  BY DEF LiveInit, Init, Both
<1>2. /\ next \in [Goroutine -> 0..Steps]
      /\ ok \in [Goroutine -> BOOLEAN] /\ sum \in [Goroutine -> Nat]
      /\ available \in BOOLEAN /\ owners \in Nat
  <2>1. next \in [Goroutine -> 0..Steps] /\ sum \in [Goroutine -> Nat]
    BY DEF LiveInit, Both, Steps
  <2>2. ok \in [Goroutine -> BOOLEAN]
    <3>1. \A b \in BOOLEAN : Both(b) \in [Goroutine -> BOOLEAN]
      BY DEF Both
    <3>2. QED
      BY <3>1 DEF LiveInit
  <2>3. available \in BOOLEAN /\ owners \in Nat
    BY DEF LiveInit
  <2>4. QED
    BY <2>1, <2>2, <2>3
<1>3. Memory(next) \in Memories
  <2>1. /\ (~available) \in BOOLEAN
        /\ [w \in Goroutine |-> ~ok[w]] \in [Goroutine -> BOOLEAN]
    <3>1. [w \in Goroutine |-> ~ok[w]] \in [Goroutine -> BOOLEAN]
      BY Zenon
    <3>2. (~available) \in BOOLEAN
      BY Zenon
    <3>3. QED
      BY <3>1, <3>2
  <2>2. QED
    BY <1>2, <2>1 DEF Memory, Memories
<1>4. path = <<Memory(next)>>
  BY DEF LiveInit
<1>5. path \in Seq(Memories) /\ Len(path) = 1 /\ Now = Memory(next)
  BY <1>3, <1>4 DEF Now
<1>6. MemoryTypeOK
  BY <1>1, <1>2, <1>5 DEF MemoryTypeOK
<1>7. Effects
  <2>1. Memory(next).next = next
    BY DEF Memory
  <2>2. QED
    BY <1>1, <1>5, <2>1 DEF Effects, Stepping
<1>8. FaultsAreFelt
  <2>1. Pos["gate0"] = 0 /\ \A p \in Places : Pos[p] \in Nat
    BY DEF Pos, Places
  <2>2. program.fault \in {"panic", "return"} => program.at \in Places
    BY <1>1, ProgramType DEF Places
  <2>3. \A m \in Nat : 0 <= m
    OBVIOUS
  <2>4. QED
    BY <1>1, <2>1, <2>2, <2>3 DEF FaultsAreFelt
<1>9. RefusalsAreFaults
  BY <1>1 DEF RefusalsAreFaults, Stepping
<1>10. QED
  BY <1>6, <1>7, <1>8, <1>9 DEF Added

LEMMA StepAdds ==
    ASSUME Refines, [LiveNext]_live
    PROVE  Added'
<1>1. CASE UNCHANGED live
  BY <1>1, QuietStep
     DEF live, vars, fields, inputs, code, client, Stepping
<1>2. ASSUME NEW w \in Goroutine, WorkerStep(w)
      PROVE  Added'
  BY <1>2, WorkerFeelsFaults, WorkerKeepsMemory, WorkerHasEffect,
     WorkerKeepsRefusals DEF Added
<1>3. CASE ClientStep
  <2>1. UNCHANGED <<inputs, code>>
    BY <1>3 DEF ClientStep
  <2>2. ASSUME NEW w \in Goroutine, Launch(w)
        PROVE  Added'
    BY <2>1, <2>2, QuietStep
       DEF Launch, Go, Move, client, Stepping, Refines, LiveInv, IInv, TypeOK
  <2>3. CASE Settle \/ Ready \/ Quiesce
    BY <2>1, <2>3, QuietStep
       DEF Settle, Ready, Quiesce, QuiesceCall, Stage, vars, fields, Stepping
  <2>4. CASE InController
    <3>1. /\ UNCHANGED <<at, panicked, pc, client>>
          /\ \A k \in Key : release'[k] = "closed" <=> release[k] = "closed"
      BY <2>4 DEF InController, QuiesceCheck, Wake, ReleaseCheck, ReturnNoWaiter,
                  fields, client
    <3>2. QED
      BY <2>1, <3>1, QuietStep DEF client, Stepping
  <2>5. CASE Reject \/ GiveUp \/ Finish
    BY <2>1, <2>5, QuietStep
       DEF Reject, GiveUp, Finish, Abort, Over, vars, fields, Stepping
  <2>6. CASE Open
    BY <2>1, <2>6, OpenAdds
  <2>7. CASE Judge
    <3>1. CASE panicked # {}
      BY <2>1, <2>7, <3>1, QuietStep
         DEF Judge, Abort, Over, vars, fields, Stepping
    <3>2. CASE panicked = {}
      BY <2>1, <2>7, <3>2, ObserveAdds DEF Judge
    <3>3. QED
      BY <3>1, <3>2
  <2>8. QED
    BY <1>3, <2>2, <2>3, <2>4, <2>5, <2>6, <2>7 DEF ClientStep
<1>4. QED
  BY <1>1, <1>2, <1>3 DEF LiveNext

\* The run of replay.Run begins.
LEMMA InitRefines ==
    ASSUME LiveInit
    PROVE  Coop!InitReplay(script)
<1>1. /\ owners = 0 /\ next = Both(0) /\ path = <<Memory(next)>>
      /\ built = <<>> /\ outcome = "running" /\ found = Coop!NoWitness
  BY DEF LiveInit
<1>2. PICK gone \in BOOLEAN : gone = ~available
  OBVIOUS
<1>3. gone = FALSE
  BY <1>2 DEF LiveInit
<1>4. [w \in Goroutine |-> ~ok[w]] = Both(FALSE)
  <2>1. \A w \in Goroutine : ok[w] = TRUE
    BY LiveAssumption DEF LiveInit, Both
  <2>2. [w \in Goroutine |-> ~ok[w]] = [w \in Goroutine |-> FALSE]
    BY <2>1
  <2>3. \A b \in BOOLEAN : [w \in Goroutine |-> b] = Both(b)
    BY LiveAssumption DEF Both
  <2>4. QED
    BY <2>2, <2>3
<1>5. Memory(next) = CheckThenActInitial
  <2>1. Memory(next) = [taken |-> gone, owners |-> owners,
                        local |-> [w \in Goroutine |-> ~ok[w]], next |-> next]
    BY <1>2 DEF Memory
  <2>2. QED
    BY <1>1, <1>3, <1>4, <2>1 DEF CheckThenActInitial
<1>6. path[Len(path)] = CheckThenActInitial
  BY <1>1, <1>5
<1>7. QED
  BY <1>1, <1>5, <1>6 DEF Coop!InitReplay, LiveInitial

\* Every step is one of replay.Run on the scene, or none.
LEMMA StepRefines ==
    ASSUME Refines, [LiveNext]_live
    PROVE  [Coop!ReplayStep]_<<program, Coop!replaying>>
<1> DEFINE still == <<program, script, path, built, outcome, found>>
<1>1. ASSUME UNCHANGED still
      PROVE  UNCHANGED <<program, Coop!replaying>>
  BY <1>1 DEF Coop!replaying
<1>2. CASE UNCHANGED live
  BY <1>1, <1>2 DEF live, inputs, client
<1>3. ASSUME NEW w \in Goroutine, WorkerStep(w)
      PROVE  UNCHANGED still
  BY <1>3, WorkerFrame DEF inputs, client, Refines
<1>4. CASE ClientStep
  <2>1. UNCHANGED <<inputs, code>>
    BY <1>4 DEF ClientStep
  <2>2. CASE \/ \E w \in Goroutine : Launch(w)
             \/ Settle \/ InController \/ Ready \/ Open \/ Quiesce
    BY <1>1, <2>1, <2>2
       DEF Launch, Settle, InController, Ready, Open, Quiesce, inputs, client
  <2>3. CASE Finish
    <3>1. Coop!EndOfScript
      BY <2>1, <2>3 DEF Finish, Over, Coop!EndOfScript, Coop!Remaining,
                        Remaining, inputs
    <3>2. QED
      BY <3>1 DEF Coop!ReplayStep
  <2>4. ASSUME Over("invalid") \/ Over("crashed"), outcome = "running", Remaining,
               This \notin LiveEnabled(program, Now)
        PROVE  Coop!RefuseDisabled
    BY <2>1, <2>4 DEF Over, Coop!RefuseDisabled, Coop!Remaining,
                      Coop!NextTransition, Remaining, This, Now, inputs
  <2>5. Now.next = next
    BY DEF Refines, Effects
  <2>6. CASE Reject
    BY <2>4, <2>5, <2>6 DEF Reject, LiveEnabled, Coop!ReplayStep
  <2>7. CASE GiveUp
    <3>1. Refused(program, This) /\ Remaining
      BY <2>7 DEF GiveUp, Refines, RefusalsAreFaults, LiveInv
    <3>2. QED
      BY <2>4, <2>7, <3>1 DEF GiveUp, Abort, LiveEnabled, Coop!ReplayStep
  <2>8. CASE Judge
    <3>1. CASE panicked # {}
      <4>1. stage = "quiescing" /\ outcome = "running" /\ Abort
        BY <2>8, <3>1 DEF Judge
      <4>2. Refused(program, This) /\ Remaining
        BY <3>1, <4>1, PanicRefuses DEF Stepping, Refines, RefusalsAreFaults
      <4>3. QED
        BY <2>4, <4>1, <4>2 DEF Abort, LiveEnabled, Coop!ReplayStep
    <3>2. CASE panicked = {}
      <4> DEFINE s == CheckThenActApply(Now, This)
      <4>1. /\ stage = "quiescing" /\ outcome = "running" /\ Idle
            /\ Observe
        BY <2>8, <3>2 DEF Judge, Stage
      <4>2. /\ Remaining /\ This \in LiveEnabled(program, Now)
        BY <2>5, <3>2, <4>1, Executed
           DEF Refines, LiveInv, OpenedInOrder, RefusalsAreFaults, Stepping,
               LiveEnabled
      <4>3. [next EXCEPT ![This.worker] = @ + 1] \in [Goroutine -> 0..Steps]
        BY <4>1, NextStep
           DEF Refines, LiveInv, OpenedInOrder, Stepping, LiveTypeOK, Steps
      <4>4. Memory([next EXCEPT ![This.worker] = @ + 1]) = s
        BY <3>2, <4>1, ObservesApply
      <4>5. /\ built' = Append(built, This)
            /\ path' = Append(path, s)
            /\ found' = Coop!Check(program, s, built')
            /\ outcome' = IF Coop!Violates(program, s) THEN "failed" ELSE "running"
        BY <4>1, <4>4 DEF Observe
      <4>6. Now' = s
        <5>1. s \in Memories
          BY <4>4, <4>3, MemoryType DEF Refines
        <5>2. QED
          BY <4>5, <5>1, AppendProperties DEF Now, Refines, MemoryTypeOK
      <4>7. Coop!Take
        <5> HIDE DEF s
        <5>1. s = LiveApply(program, Now, Coop!NextTransition)
          BY DEF s, LiveApply, Coop!NextTransition, This
        <5>2. /\ Remaining <=> Coop!Remaining
              /\ This = Coop!NextTransition
          BY DEF Remaining, Coop!Remaining, This, Coop!NextTransition
        <5>3. (IF outcome = "crashed" THEN "invalid" ELSE outcome)' =
                 IF Coop!Violates(program, s) THEN "failed" ELSE "running"
          BY <4>5
        <5>4. QED
          BY <2>1, <4>1, <4>2, <4>5, <4>6, <5>1, <5>2, <5>3
             DEF Coop!Take, Now, inputs
      <4>8. QED
        BY <4>7 DEF Coop!ReplayStep
    <3>3. QED
      BY <3>1, <3>2
  <2>9. QED
    BY <1>4, <2>2, <2>3, <2>6, <2>7, <2>8 DEF ClientStep
<1>5. QED
  BY <1>1, <1>2, <1>3, <1>4 DEF LiveNext

\* An execution on real goroutines is one of replay.Run on the scene, with the
\* same verdict, evidence and memory, for every schedule and every program with
\* a fault of this module (explore.go:72).
THEOREM LiveImplementsReplay ==
    ASSUME ~Reawait
    PROVE  LiveSpec => ImplementsReplay
<1>1. LiveInit => Coop!InitReplay(script) /\ Added
  BY InitRefines, RefinesInitially
<1>2. LiveInv /\ Added /\ [LiveNext]_live => Added'
  BY StepAdds DEF Refines, Added
<1>3. LiveInv /\ Added /\ [LiveNext]_live
         => [Coop!ReplayStep]_<<program, Coop!replaying>>
  BY StepRefines DEF Refines, Added
<1>4. QED
  BY <1>1, <1>2, <1>3, LiveInductive, PTL
     DEF LiveSpec, ImplementsReplay, Coop!RunSpec
=============================================================================
