-------------------------------- MODULE Gate --------------------------------
(***************************************************************************)
(* gate.Controller (internal/gate/gate.go): the monitor that holds the     *)
(* goroutines of the system under test (SUT) at named transitions until an *)
(* explorer opens the gate.                                                *)
(*                                                                         *)
(* One action is one critical section of Controller.mu (or one channel     *)
(* receive), so the model has every interleaving the lock permits.  The    *)
(* client is the most general one: goroutines of the SUT call Await, start *)
(* further goroutines, panic or return as they like, and several callers   *)
(* may use Quiesce and Release at any time, in any order.                  *)
(***************************************************************************)
EXTENDS Integers, FiniteSets

CONSTANTS
    Goroutine,  \* goroutines that Controller.Go can start
    Key,        \* transitions, as rendered by Transition.String
    Caller,     \* goroutines, outside the SUT, that call Quiesce and Release
    Reawait     \* may the SUT Await a transition that is already open?

ASSUME GateAssumption ==
    /\ IsFiniteSet(Goroutine)
    /\ Reawait \in BOOLEAN

VARIABLES
    \* The fields of Controller.
    release,    \* release[k]: the channel of k is absent, open or closed
    parked,     \* parked[k]: the count kept for k, 0 when the map has no entry
    living,     \* goroutines started
    exited,     \* goroutines finished
    waiters,    \* callers whose wake-up channel is in the list
    panicked,   \* goroutines whose recovered value was appended
    \* Control of the goroutines and of the callers.
    pc,         \* pc[g]: where goroutine g is
    at,         \* at[g]: the transition of g's latest Await
    call,       \* call[c]: where caller c is in Quiesce or Release
    want,       \* want[c]: the transition of c's latest Release
    \* Outside the program.
    process,    \* "running", or "killed" by the runtime (concurrent map access)
    threw       \* history: the goroutines whose function panicked

fields == <<release, parked, living, exited, waiters, panicked>>
vars == <<fields, pc, at, call, want, process, threw>>

-----------------------------------------------------------------------------
(* States. *)

Channel == {"none", "open", "closed"}

\* "await" lasts from the first critical section of Await to its second one;
\* "panicking" from the panic to its recovery; "dying" from there to exited++.
GoroutinePC == {"new", "run", "await", "panicking", "dying", "exited"}

\* "noWaiter" lasts while Release formats the error of a refused release,
\* which it does after unlocking.
CallerPC == {"idle", "quiesce", "quiesceWait",
             "releaseCheck", "releaseWait", "noWaiter"}

\* One pair for each unit of each count of f, so that their number is the sum
\* settledLocked computes over the map.
Units(f) == UNION {{k} \X (1..f[k]) : k \in DOMAIN f}

ParkedSum == Cardinality(Units(parked))

\* settledLocked.
Settled ==
    LET active == living - exited
    IN  \/ living = 0
        \/ active = 0
        \/ ParkedSum = active

Init ==
    /\ release = [k \in Key |-> "none"]
    /\ parked = [k \in Key |-> 0]
    /\ living = 0
    /\ exited = 0
    /\ waiters = {}
    /\ panicked = {}
    /\ pc = [g \in Goroutine |-> "new"]
    /\ call = [c \in Caller |-> "idle"]
    /\ \E k \in Key : /\ at = [g \in Goroutine |-> k]
                       /\ want = [c \in Caller |-> k]
    /\ process = "running"
    /\ threw = {}

-----------------------------------------------------------------------------
(* Steps of the SUT's goroutines. *)

Move(g, from, to) == pc[g] = from /\ pc' = [pc EXCEPT ![g] = to]

\* Slip: the list is never emptied.
BroadcastSkipped == UNCHANGED waiters

\* broadcastLocked: close every waiting channel and drop the list.
Broadcast == waiters' = {}

\* ensureLocked: the channel of k exists afterwards.
Ensured(k) ==
    [release EXCEPT ![k] = IF release[k] = "none" THEN "open" ELSE release[k]]

\* A write to the parked map.  The runtime may kill the process when another
\* goroutine is iterating over the map at that moment, and only then.
WriteParked(k, n) ==
    /\ parked' = [parked EXCEPT ![k] = n]
    /\ \/ UNCHANGED process
       \/ (\E c \in Caller : call[c] = "noWaiter") /\ process' = "killed"

\* Go, by an idle caller or by a goroutine of the SUT: living++ before the
\* goroutine starts, and no broadcast.
Go(g) ==
    /\ \/ \E c \in Caller : call[c] = "idle"
       \/ \E h \in Goroutine : pc[h] = "run"
    /\ Move(g, "new", "run")
    /\ living' = living + 1
    /\ UNCHANGED <<release, parked, exited, waiters, panicked, at, call, want,
                   process, threw>>

\* Await, up to the receive.
AwaitPark(g, k) ==
    /\ Reawait \/ release[k] # "closed"
    /\ Move(g, "run", "await")
    /\ at' = [at EXCEPT ![g] = k]
    /\ release' = Ensured(k)
    /\ WriteParked(k, parked[k] + 1)
    /\ Broadcast
    /\ UNCHANGED <<living, exited, panicked, call, want, threw>>

\* Slip: parked is not decremented.
AwaitLeaveUncounted(g) ==
    /\ release[at[g]] = "closed"
    /\ Move(g, "await", "run")
    /\ Broadcast
    /\ UNCHANGED <<release, parked, living, exited, panicked, at, call, want,
                   process, threw>>

\* Slip: parked is decremented by Await and by its caller.
AwaitLeaveTwice(g) ==
    /\ release[at[g]] = "closed"
    /\ Move(g, "await", "run")
    /\ WriteParked(at[g], parked[at[g]] - 2)
    /\ Broadcast
    /\ UNCHANGED <<release, living, exited, panicked, at, call, want, threw>>

\* Await, once the channel is closed.
AwaitLeave(g) ==
    /\ release[at[g]] = "closed"
    /\ Move(g, "await", "run")
    /\ WriteParked(at[g], parked[at[g]] - 1)
    /\ Broadcast
    /\ UNCHANGED <<release, living, exited, panicked, at, call, want, threw>>

\* The function given to Go panics (outside the controller).
Panic(g) ==
    /\ Move(g, "run", "panicking")
    /\ threw' = threw \cup {g}
    /\ UNCHANGED <<fields, at, call, want, process>>

\* The deferred function: first critical section, only after a panic.
Recover(g) ==
    /\ Move(g, "panicking", "dying")
    /\ panicked' = panicked \cup {g}
    /\ UNCHANGED <<release, parked, living, exited, waiters, at, call, want,
                   process, threw>>

\* Slip: exited++ is deferred before, and so may run ahead of, the recovery.
ExitBeforeRecover(g) ==
    /\ pc[g] \in {"run", "panicking"}
    /\ pc' = [pc EXCEPT ![g] = "exited"]
    /\ exited' = exited + 1
    /\ Broadcast
    /\ UNCHANGED <<release, parked, living, panicked, at, call, want, process,
                   threw>>

\* The deferred function: second critical section, on every way out.
Exit(g) ==
    /\ \/ Move(g, "run", "exited")
       \/ Move(g, "dying", "exited")
    /\ exited' = exited + 1
    /\ Broadcast
    /\ UNCHANGED <<release, parked, living, panicked, at, call, want, process,
                   threw>>

-----------------------------------------------------------------------------
(* Steps of the callers. *)

Goto(c, from, to) == call[c] = from /\ call' = [call EXCEPT ![c] = to]

\* Append a fresh channel to the waiting list; the caller then receives on it.
Enlist(c) == waiters' = waiters \cup {c}

\* Quiesce is called.
QuiesceCall(c) ==
    /\ Goto(c, "idle", "quiesce")
    /\ UNCHANGED <<fields, pc, at, want, process, threw>>

\* One round of Quiesce's loop: return, or enlist and wait.
QuiesceCheck(c) ==
    /\ \/ Settled /\ Goto(c, "quiesce", "idle") /\ UNCHANGED waiters
       \/ ~Settled /\ Goto(c, "quiesce", "quiesceWait") /\ Enlist(c)
    /\ UNCHANGED <<release, parked, living, exited, panicked, pc, at, want,
                   process, threw>>

\* The receive on the caller's channel succeeds: somebody broadcast.
Wake(c) ==
    /\ c \notin waiters
    /\ \/ Goto(c, "quiesceWait", "quiesce")
       \/ Goto(c, "releaseWait", "releaseCheck")
    /\ UNCHANGED <<fields, pc, at, want, process, threw>>

\* Release(k) finds the gate open: ErrAlreadyReleased.
ReleaseAgain(c, k) ==
    /\ call[c] = "idle"
    /\ release[k] = "closed"
    /\ want' = [want EXCEPT ![c] = k]
    /\ UNCHANGED <<fields, pc, at, call, process, threw>>

\* Release(k) finds nobody parked: the channel stays registered, the lock is
\* dropped, and ErrNoWaiter is formatted from the parked map.
ReleaseNoWaiter(c, k) ==
    /\ release[k] # "closed"
    /\ parked[k] = 0
    /\ Goto(c, "idle", "noWaiter")
    /\ want' = [want EXCEPT ![c] = k]
    /\ release' = Ensured(k)
    /\ UNCHANGED <<parked, living, exited, waiters, panicked, pc, at, process,
                   threw>>

\* The error is formatted and returned.
ReturnNoWaiter(c) ==
    /\ Goto(c, "noWaiter", "idle")
    /\ UNCHANGED <<fields, pc, at, want, process, threw>>

\* Release(k) opens the gate.
ReleaseOpen(c, k) ==
    /\ release[k] # "closed"
    /\ parked[k] # 0
    /\ Goto(c, "idle", "releaseCheck")
    /\ want' = [want EXCEPT ![c] = k]
    /\ release' = [release EXCEPT ![k] = "closed"]
    /\ Broadcast
    /\ UNCHANGED <<parked, living, exited, panicked, pc, at, process, threw>>

\* Slip: Release does not wait for the goroutines it let go.
ReleaseCheckEager(c) ==
    /\ Goto(c, "releaseCheck", "idle")
    /\ UNCHANGED <<fields, pc, at, want, process, threw>>

\* One round of Release's loop: return when the waiters have left, or wait.
ReleaseCheck(c) ==
    /\ \/ /\ parked[want[c]] = 0
          /\ Goto(c, "releaseCheck", "idle")
          /\ UNCHANGED waiters
       \/ /\ parked[want[c]] # 0
          /\ Goto(c, "releaseCheck", "releaseWait")
          /\ Enlist(c)
    /\ UNCHANGED <<release, parked, living, exited, panicked, pc, at, want,
                   process, threw>>

-----------------------------------------------------------------------------
GoroutineStep(g) ==
    \/ Go(g)
    \/ \E k \in Key : AwaitPark(g, k)
    \/ AwaitLeave(g)
    \/ Panic(g)
    \/ Recover(g)
    \/ Exit(g)

CallerStep(c) ==
    \/ QuiesceCall(c)
    \/ QuiesceCheck(c)
    \/ Wake(c)
    \/ \E k \in Key : ReleaseAgain(c, k) \/ ReleaseNoWaiter(c, k)
                                         \/ ReleaseOpen(c, k)
    \/ ReturnNoWaiter(c)
    \/ ReleaseCheck(c)

\* A killed process takes no step.
Next ==
    /\ process = "running"
    /\ \/ \E g \in Goroutine : GoroutineStep(g)
       \/ \E c \in Caller : CallerStep(c)

Spec == Init /\ [][Next]_vars

\* The Go scheduler runs every goroutine that can run.  What the SUT does
\* between two calls of the controller, and whether anybody calls it, is left
\* to the client: only the code of the controller itself is fair.
Alive(action) == process = "running" /\ action

Fairness ==
    /\ \A g \in Goroutine :
          WF_vars(Alive(\/ AwaitLeave(g)
                        \/ Recover(g)
                        \/ pc[g] = "dying" /\ Exit(g)))
    /\ \A c \in Caller :
          WF_vars(Alive(\/ QuiesceCheck(c)
                        \/ Wake(c)
                        \/ ReleaseCheck(c)
                        \/ ReturnNoWaiter(c)))

FairSpec == Spec /\ Fairness

-----------------------------------------------------------------------------
(* Properties. *)

\* Every field has the values its Go type and its use allow.
TypeOK ==
    /\ release \in [Key -> Channel]
    /\ parked \in [Key -> Nat]
    /\ living \in Nat
    /\ exited \in Nat
    /\ waiters \subseteq Caller
    /\ panicked \subseteq Goroutine
    /\ pc \in [Goroutine -> GoroutinePC]
    /\ at \in [Goroutine -> Key]
    /\ call \in [Caller -> CallerPC]
    /\ want \in [Caller -> Key]
    /\ process \in {"running", "killed"}
    /\ threw \subseteq Goroutine

Started == {g \in Goroutine : pc[g] # "new"}
Finished == {g \in Goroutine : pc[g] = "exited"}
Awaiting(k) == {g \in Goroutine : pc[g] = "await" /\ at[g] = k}

\* The counters agree with the goroutines they count, at every release of the
\* lock: living++ (gate.go:45), parked++ and parked-- (91, 98), exited++ (55).
CountsAgree ==
    /\ living = Cardinality(Started)
    /\ exited = Cardinality(Finished)
    /\ \A k \in Key : parked[k] = Cardinality(Awaiting(k))

\* A caller on the waiting list waits for something that is not yet true, so
\* no change that would let Quiesce (gate.go:162) or Release (109) return was
\* made without a broadcast.
NoLostWakeup ==
    \A c \in waiters :
        \/ call[c] = "quiesceWait" /\ ~Settled
        \/ call[c] = "releaseWait" /\ parked[want[c]] # 0

\* A panic that is not recorded yet belongs to a goroutine that has not
\* reached exited++.
PanicsPending == \A g \in threw \ panicked : pc[g] = "panicking"

\* A goroutine parked at an open gate is being waited for by the Release that
\* opened it.
OpenedAreWatched ==
    \A g \in Goroutine :
        pc[g] = "await" =>
            /\ release[at[g]] # "none"
            /\ release[at[g]] = "closed" =>
                  \E c \in Caller : /\ call[c] \in {"releaseCheck", "releaseWait"}
                                    /\ want[c] = at[g]

\* The invariant the step properties below follow from.
IInv ==
    /\ TypeOK
    /\ CountsAgree
    /\ NoLostWakeup
    /\ PanicsPending
    /\ ~Reawait => OpenedAreWatched

QuiesceReturning(c) == call[c] = "quiesce" /\ call'[c] = "idle"
ReleaseReturning(c) == call[c] = "releaseCheck" /\ call'[c] = "idle"

\* Quiesce's comment (gate.go:157): when it returns, every tracked goroutine
\* has exited or is parked, although the code only compares three counters.
QuiesceSound ==
    [][\A c \in Caller : QuiesceReturning(c) =>
          \A g \in Started : pc[g] \in {"await", "exited"}]_vars

\* With one caller and a SUT that awaits each transition before it is opened
\* (the contract of Program.Start, gate.go:211), Quiesce returns only when no
\* goroutine can take a step before the caller's next Release: the world
\* stands still.
QuiesceStill ==
    [][\A c \in Caller : QuiesceReturning(c) =>
          \A g \in Started :
             \/ pc[g] = "exited"
             \/ pc[g] = "await" /\ release[at[g]] = "open"]_vars

\* A panic is recorded before Quiesce can return past it (gate.go:48-58):
\* execute reads Panicked right after Quiesce and must not miss one.
NoMissedPanic ==
    [][\A c \in Caller : QuiesceReturning(c) => threw \subseteq panicked]_vars

\* Release returns nil only when every goroutine it let go has left the Await
\* it was parked in (gate.go:103), so the one-shot gate has no straggler.
ReleaseDrains ==
    [][\A c \in Caller : ReleaseReturning(c) =>
          Awaiting(want[c]) = {}]_vars

\* Release hands back an error and never more than that when it is called
\* ahead of the SUT (gate.go:14-16).
NeverKilled == process = "running"

\* If the goroutines settle for good, a Quiesce under way returns.
QuiesceReturns ==
    \A c \in Caller :
        <>[](Settled /\ process = "running")
            => []<>(call[c] \notin {"quiesce", "quiesceWait"})

\* If from some time on the SUT keeps the contract of Program.Start
\* (gate.go:211) and awaits no transition that is already open, a Release that
\* opened its gate returns.
ReleaseReturns ==
    <>[][\A g \in Goroutine :
            pc[g] = "run" /\ pc'[g] = "await" => release[at'[g]] # "closed"]_vars
    => \A c \in Caller :
          call[c] = "releaseCheck" ~> (process = "killed" \/ call[c] = "idle")
=============================================================================
