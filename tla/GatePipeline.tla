---------------------------- MODULE GatePipeline ----------------------------
(***************************************************************************)
(* The pipeline on a live program (gate_test.go): gate.Explore finds a     *)
(* witness, minimize.Minimize shortens it through the adapter              *)
(* ReplayScenario, and gate.Replay executes one of the two.                *)
(*                                                                         *)
(* The adapter offers what the contract of Program promises, and its Apply *)
(* panics on what the program does not carry out: that ends the process.   *)
(***************************************************************************)
EXTENDS Minimize, GateSearch

\* The invariants programs are explored with have names.
ASSUME NamesAssumption == \A p \in Scene : Named(p)

VARIABLES
    stage,      \* "search", "minimize", "replay", "over" or "crashed"
    artifact    \* the witness replayed

pipeline == <<vars, searching, stage, artifact>>

GateInit ==
    /\ scene \in Scene
    /\ SearchBegin
    /\ stage = "search"
    /\ artifact = NoWitness
    /\ pc = "start"
    /\ original = NoWitness
    /\ sched = <<>>
    /\ index = 1
    /\ current = NoWitness
    /\ attempts = 0
    /\ trace = <<>>

\* The search goes on.
Exploring ==
    /\ stage = "search"
    /\ Search
    /\ UNCHANGED <<between, stage, artifact>>

Goto(from, to) == stage = from /\ stage' = to

\* Explore passes.
NothingFound ==
    /\ Goto("search", "over")
    /\ phase = "over" /\ result = NoWitness
    /\ UNCHANGED <<vars, searching, artifact>>

\* Explore returns a witness, which is given to Minimize.
Found ==
    /\ Goto("search", "minimize")
    /\ result # NoWitness
    /\ original' = result
    /\ UNCHANGED <<scene, replaying, pc, sched, index, current, attempts, trace,
                   searching, artifact>>

\* A replay is about to apply a transition the program does not carry out.
NotCarriedOut ==
    /\ outcome = "running"
    /\ Remaining
    /\ NextTransition \notin Enabled(scene, state)

\* Slip: the adapter offers any transition.
OfferedAlways == NotCarriedOut

\* The adapter's Enabled, which goes by next, offers it all the same.
OfferedInVain ==
    /\ NotCarriedOut
    /\ NextTransition \in Offer(scene, Counts(scene, taken))

\* Apply panics.
Crash ==
    /\ Goto("minimize", "crashed")
    /\ pc \in {"verify", "trial"}
    /\ OfferedInVain
    /\ UNCHANGED <<vars, searching, artifact>>

\* The minimizer goes on.
Minimizing ==
    /\ stage = "minimize"
    /\ pc \in {"verify", "trial"} => ~OfferedInVain
    /\ Next
    /\ UNCHANGED <<searching, stage, artifact>>

\* gate.Replay is called on one of the two witnesses.
ReplayOne ==
    /\ Goto("minimize", "replay")
    /\ pc = "done"
    /\ \E w \in {original, current} :
          artifact' = w /\ BeginReplay(w.schedule)
    /\ UNCHANGED <<scene, between, searching>>

\* execute goes on.
ReplayingOne ==
    /\ stage = "replay"
    /\ ReplayStep
    /\ UNCHANGED <<between, searching, stage, artifact>>

GateNext ==
    \/ Exploring \/ NothingFound \/ Found
    \/ Crash \/ Minimizing
    \/ ReplayOne \/ ReplayingOne

GateSpec == GateInit /\ [][GateNext]_pipeline

FairGate == GateSpec /\ WF_pipeline(GateNext)

-----------------------------------------------------------------------------
(* Properties. *)

\* Apply panics (scenario.go:45-52) only for a program that breaks the contract
\* of Program.Start: minimizing through the adapter leaves no transition out
\* that a gate it keeps depends on.
CrashMeansBroken == stage = "crashed" => ~Honest

\* A witness of gate.Explore is one that Minimize accepts, for programs that
\* break the contract too: what execute carried out once, it and the adapter
\* carry out again.  And gate.Replay of the witness, or of the minimized one,
\* gives it back: same schedule, invariant and error, at the same step
\* (gate_test.go:30-37, 65-68).
GateReplayConfirms ==
    /\ pc # "refused"
    /\ stage = "replay" /\ outcome # "running" =>
          outcome = "failed" /\ found = artifact

\* The pipeline comes to its end.
GateEnds ==
    <>(\/ stage \in {"over", "crashed"}
       \/ stage = "replay" /\ outcome # "running")
=============================================================================
