----------------------------- MODULE GateProofs -----------------------------
(* Theorems about Gate, for every finite set of goroutines and any sets of   *)
(* transitions and callers.                                                  *)
EXTENDS Gate, FiniteSetTheorems, FunctionTheorems, TLAPS

-----------------------------------------------------------------------------
(* Type correctness. *)

LEMMA InitTypeOK == Init => TypeOK
BY DEF Init, TypeOK, Channel, GoroutinePC, CallerPC

\* Every step keeps the types; parked-- needs the count to be positive, which
\* is where CountsAgree comes in.
LEMMA StepTypeOK ==
    ASSUME TypeOK, CountsAgree, [Next]_vars
    PROVE  TypeOK'
<1> USE DEF TypeOK, Channel, GoroutinePC, CallerPC, Broadcast, Ensured, Move,
            Goto, Enlist, WriteParked, fields
<1>1. CASE UNCHANGED vars
  BY <1>1 DEF vars
<1>2. ASSUME NEW g \in Goroutine, Go(g) PROVE TypeOK'
  BY <1>2 DEF Go
<1>3. ASSUME NEW g \in Goroutine, NEW k \in Key, AwaitPark(g, k) PROVE TypeOK'
  BY <1>3 DEF AwaitPark
<1>4. ASSUME NEW g \in Goroutine, AwaitLeave(g) PROVE TypeOK'
  <2>1. g \in Awaiting(at[g])
    BY <1>4 DEF AwaitLeave, Awaiting
  <2>2. IsFiniteSet(Awaiting(at[g]))
    BY GateAssumption, FS_Subset DEF Awaiting
  <2>3. parked[at[g]] # 0
    BY <2>1, <2>2, FS_EmptySet DEF CountsAgree
  <2>4. parked[at[g]] - 1 \in Nat
    BY <2>3
  <2>5. QED
    BY <1>4, <2>4 DEF AwaitLeave
<1>5. ASSUME NEW g \in Goroutine, Panic(g) \/ Recover(g) \/ Exit(g)
      PROVE TypeOK'
  BY <1>5 DEF Panic, Recover, Exit
<1>6. ASSUME NEW c \in Caller, QuiesceCall(c) \/ QuiesceCheck(c) \/ Wake(c)
      PROVE TypeOK'
  BY <1>6 DEF QuiesceCall, QuiesceCheck, Wake
<1>7. ASSUME NEW c \in Caller, NEW k \in Key,
             ReleaseAgain(c, k) \/ ReleaseNoWaiter(c, k) \/ ReleaseOpen(c, k)
      PROVE TypeOK'
  BY <1>7 DEF ReleaseAgain, ReleaseNoWaiter, ReleaseOpen
<1>8. ASSUME NEW c \in Caller, ReturnNoWaiter(c) \/ ReleaseCheck(c)
      PROVE TypeOK'
  BY <1>8 DEF ReturnNoWaiter, ReleaseCheck
<1>9. QED
  BY <1>1, <1>2, <1>3, <1>4, <1>5, <1>6, <1>7, <1>8
     DEF Next, GoroutineStep, CallerStep

-----------------------------------------------------------------------------
(* The counters. *)

LEMMA InitCounts == Init => CountsAgree
<1> SUFFICES ASSUME Init PROVE CountsAgree
  OBVIOUS
<1>1. Started = {} /\ Finished = {} /\ \A k \in Key : Awaiting(k) = {}
  BY DEF Init, Started, Finished, Awaiting
<1>2. QED
  BY <1>1, FS_EmptySet DEF Init, CountsAgree

\* The sets that are counted are finite.
LEMMA CountedFinite ==
    /\ IsFiniteSet(Started)
    /\ IsFiniteSet(Finished)
    /\ \A k \in Key : IsFiniteSet(Awaiting(k))
<1>1. /\ Started \in SUBSET Goroutine
      /\ Finished \in SUBSET Goroutine
      /\ \A k \in Key : Awaiting(k) \in SUBSET Goroutine
  BY DEF Started, Finished, Awaiting
<1>2. QED
  BY <1>1, GateAssumption, FS_Subset

\* A step that leaves the counted sets and the counters alone.
LEMMA CountsUntouched ==
    ASSUME CountsAgree, UNCHANGED <<living, exited, parked>>,
           Started' = Started, Finished' = Finished,
           \A k \in Key : Awaiting(k)' = Awaiting(k)
    PROVE  CountsAgree'
BY DEF CountsAgree

LEMMA StepCounts ==
    ASSUME TypeOK, CountsAgree, [Next]_vars
    PROVE  CountsAgree'
<1> USE DEF TypeOK, Move, fields
<1>1. CASE UNCHANGED vars
  BY <1>1, CountsUntouched DEF vars, Started, Finished, Awaiting
<1>2. ASSUME NEW g \in Goroutine, Go(g) PROVE CountsAgree'
  <2>1. /\ Started' = Started \cup {g} /\ g \notin Started
        /\ Finished' = Finished
        /\ \A k \in Key : Awaiting(k)' = Awaiting(k)
    BY <1>2 DEF Go, Started, Finished, Awaiting
  <2>2. Cardinality(Started') = Cardinality(Started) + 1
    BY <2>1, CountedFinite, FS_AddElement
  <2>3. QED
    BY <1>2, <2>1, <2>2 DEF Go, CountsAgree
<1>3. ASSUME NEW g \in Goroutine, NEW k \in Key, AwaitPark(g, k)
      PROVE  CountsAgree'
  <2>1. /\ Started' = Started
        /\ Finished' = Finished
        /\ Awaiting(k)' = Awaiting(k) \cup {g} /\ g \notin Awaiting(k)
        /\ \A j \in Key \ {k} : Awaiting(j)' = Awaiting(j)
    BY <1>3 DEF AwaitPark, Started, Finished, Awaiting
  <2>2. Cardinality(Awaiting(k)') = Cardinality(Awaiting(k)) + 1
    BY <2>1, CountedFinite, FS_AddElement
  <2>3. /\ parked'[k] = parked[k] + 1
        /\ \A j \in Key \ {k} : parked'[j] = parked[j]
    BY <1>3 DEF AwaitPark, WriteParked
  <2>4. QED
    BY <1>3, <2>1, <2>2, <2>3 DEF AwaitPark, CountsAgree
<1>4. ASSUME NEW g \in Goroutine, AwaitLeave(g) PROVE CountsAgree'
  <2> PICK k \in Key : k = at[g]
    OBVIOUS
  <2>1. /\ Started' = Started
        /\ Finished' = Finished
        /\ Awaiting(k)' = Awaiting(k) \ {g} /\ g \in Awaiting(k)
        /\ \A j \in Key \ {k} : Awaiting(j)' = Awaiting(j)
    BY <1>4 DEF AwaitLeave, Started, Finished, Awaiting
  <2>2. Cardinality(Awaiting(k)') = Cardinality(Awaiting(k)) - 1
    <3>1. IsFiniteSet(Awaiting(k))
      BY CountedFinite
    <3>2. Cardinality(Awaiting(k) \ {g}) = Cardinality(Awaiting(k)) - 1
      BY <2>1, <3>1, FS_RemoveElement
    <3>3. QED
      BY <2>1, <3>2
  <2>3. /\ parked'[k] = parked[k] - 1
        /\ \A j \in Key \ {k} : parked'[j] = parked[j]
    BY <1>4 DEF AwaitLeave, WriteParked
  <2>4. QED
    BY <1>4, <2>1, <2>2, <2>3 DEF AwaitLeave, CountsAgree
<1>5. ASSUME NEW g \in Goroutine, Exit(g) PROVE CountsAgree'
  <2>1. /\ Started' = Started
        /\ Finished' = Finished \cup {g} /\ g \notin Finished
        /\ \A k \in Key : Awaiting(k)' = Awaiting(k)
    BY <1>5 DEF Exit, Started, Finished, Awaiting
  <2>2. Cardinality(Finished') = Cardinality(Finished) + 1
    BY <2>1, CountedFinite, FS_AddElement
  <2>3. QED
    BY <1>5, <2>1, <2>2 DEF Exit, CountsAgree
<1>6. ASSUME NEW g \in Goroutine, Panic(g) \/ Recover(g) PROVE CountsAgree'
  BY <1>6, CountsUntouched DEF Panic, Recover, Started, Finished, Awaiting
<1>7. ASSUME NEW c \in Caller, CallerStep(c) PROVE CountsAgree'
  <2>1. UNCHANGED <<living, exited, parked, pc, at>>
    BY <1>7 DEF CallerStep, QuiesceCall, QuiesceCheck, Wake, ReleaseAgain,
                ReleaseNoWaiter, ReleaseOpen, ReturnNoWaiter, ReleaseCheck
  <2>2. QED
    BY <2>1, CountsUntouched DEF Started, Finished, Awaiting
<1>8. QED
  BY <1>1, <1>2, <1>3, <1>4, <1>5, <1>6, <1>7 DEF Next, GoroutineStep

-----------------------------------------------------------------------------
(* From the counters to the goroutines. *)

Active == {g \in Goroutine : pc[g] \notin {"new", "exited"}}
Parked == {g \in Goroutine : pc[g] = "await"}

\* living - exited is the number of goroutines that have started and not yet
\* finished.
LEMMA ActiveCount ==
    ASSUME TypeOK, CountsAgree
    PROVE  living - exited = Cardinality(Active)
<1>1. /\ Active = Started \ Finished
      /\ Started \cap Finished = Finished
  BY DEF Active, Started, Finished
<1>2. Cardinality(Active) = Cardinality(Started) - Cardinality(Finished)
  BY <1>1, CountedFinite, FS_Difference
<1>3. QED
  BY <1>2 DEF CountsAgree

\* The sum over the map is the number of goroutines in Await: enumerating the
\* goroutines parked at each transition makes a bijection from the units.
LEMMA ParkedCount ==
    ASSUME TypeOK, CountsAgree
    PROVE  ParkedSum = Cardinality(Parked)
<1> USE DEF TypeOK
<1> DEFINE B(k) == CHOOSE f : f \in Bijection(1..parked[k], Awaiting(k))
           U == Units(parked)
           F == [u \in U |-> B(u[1])[u[2]]]
<1>1. ASSUME NEW k \in Key
      PROVE  /\ B(k) \in [1..parked[k] -> Awaiting(k)]
             /\ \A i, j \in 1..parked[k] : B(k)[i] = B(k)[j] => i = j
             /\ \A g \in Awaiting(k) : \E i \in 1..parked[k] : B(k)[i] = g
  <2>1. ExistsBijection(1..parked[k], Awaiting(k))
    BY CountedFinite, FS_CardinalityType DEF CountsAgree
  <2>2. \E f : f \in Bijection(1..parked[k], Awaiting(k))
    BY <2>1 DEF ExistsBijection
  <2>3. B(k) \in Bijection(1..parked[k], Awaiting(k))
    BY <2>2
  <2>4. QED
    BY <2>3 DEF Bijection, Injection, Surjection, IsInjective
<1>2. /\ \A u \in U : \E k \in Key : \E i \in 1..parked[k] : u = <<k, i>>
      /\ \A k \in Key : \A i \in 1..parked[k] : <<k, i>> \in U
  BY DEF Units
<1> HIDE DEF B, U
<1>3. \A k \in Key : \A i \in 1..parked[k] :
         F[<<k, i>>] = B(k)[i] /\ F[<<k, i>>] \in Awaiting(k)
  BY <1>1, <1>2
<1>4. F \in [U -> Parked]
  <2>1. ASSUME NEW u \in U PROVE F[u] \in Parked
    <3> PICK k \in Key : \E i \in 1..parked[k] : u = <<k, i>>
      BY <1>2
    <3>1. F[u] \in Awaiting(k)
      BY <1>3
    <3>2. QED
      BY <3>1 DEF Awaiting, Parked
  <2>2. QED
    BY <2>1
<1>5. ASSUME NEW u \in U, NEW v \in U, F[u] = F[v]
      PROVE  u = v
  <2> PICK k \in Key : \E i \in 1..parked[k] : u = <<k, i>>
    BY <1>2
  <2> PICK m \in Key : \E j \in 1..parked[m] : v = <<m, j>>
    BY <1>2
  <2>1. PICK i \in 1..parked[k] : u = <<k, i>>
    OBVIOUS
  <2>2. PICK j \in 1..parked[m] : v = <<m, j>>
    OBVIOUS
  <2>3. k = m
    <3>1. F[u] \in Awaiting(k) /\ F[v] \in Awaiting(m)
      BY <1>3, <2>1, <2>2
    <3>2. QED
      BY <1>5, <3>1 DEF Awaiting
  <2>4. B(k)[i] = B(k)[j]
    BY <1>3, <1>5, <2>1, <2>2, <2>3
  <2>5. QED
    BY <1>1, <2>1, <2>2, <2>3, <2>4
<1>6. ASSUME NEW g \in Parked
      PROVE  \E u \in U : F[u] = g
  <2>1. at[g] \in Key /\ g \in Awaiting(at[g])
    BY DEF Parked, Awaiting
  <2>2. PICK i \in 1..parked[at[g]] : B(at[g])[i] = g
    BY <1>1, <2>1
  <2>3. <<at[g], i>> \in U /\ F[<<at[g], i>>] = g
    BY <1>2, <1>3, <2>1, <2>2
  <2>4. QED
    BY <2>3
<1> HIDE DEF F
<1>7. F \in Bijection(U, Parked)
  BY <1>4, <1>5, <1>6, Fun_IsBij
<1>8. ExistsBijection(Parked, U)
  BY <1>7, Fun_ExistsBijSymmetric DEF ExistsBijection
<1>9. IsFiniteSet(Parked)
  BY GateAssumption, FS_Subset DEF Parked
<1>10. QED
  BY <1>8, <1>9, FS_Bijection DEF ParkedSum, U

\* settledLocked's comparison of three counters, in terms of the goroutines.
LEMMA SettledMeaning ==
    ASSUME TypeOK, CountsAgree
    PROVE  /\ Settled <=> Active \subseteq Parked
           /\ ParkedSum <= living - exited
           /\ ParkedSum \in Nat
<1>1. /\ IsFiniteSet(Active)
      /\ Parked \in SUBSET Active
      /\ Started \in SUBSET Goroutine
  BY GateAssumption, FS_Subset DEF Active, Parked, Started
<1>2. /\ Cardinality(Parked) <= Cardinality(Active)
      /\ Cardinality(Parked) = Cardinality(Active) => Active = Parked
      /\ Cardinality(Parked) \in Nat
      /\ Cardinality(Active) \in Nat
      /\ Cardinality(Active) = 0 => Active = {}
  BY <1>1, FS_Subset, FS_CardinalityType, FS_EmptySet
<1>3. living = 0 => Active = {}
  <2>1. living = 0 => Started = {}
    BY CountedFinite, FS_EmptySet DEF CountsAgree
  <2>2. QED
    BY <2>1 DEF Started, Active
<1>4. Active \subseteq Parked => Active = Parked
  BY <1>1
<1>5. QED
  BY <1>2, <1>3, <1>4, ActiveCount, ParkedCount DEF Settled

-----------------------------------------------------------------------------
(* Waking up, panics and opened gates. *)

\* What a step does to the waiting list: it empties it, or adds a caller that
\* has just seen its condition false, and then changes nothing the conditions
\* of the others depend on.
LEMMA StepNoLostWakeup ==
    ASSUME TypeOK, CountsAgree, NoLostWakeup, [Next]_vars
    PROVE  NoLostWakeup'
<1> USE DEF TypeOK, Move, Goto, fields
<1> DEFINE SameCounts == UNCHANGED <<living, exited, parked>>
<1>1. ASSUME waiters' = {} PROVE NoLostWakeup'
  BY <1>1 DEF NoLostWakeup
<1>2. SameCounts => Settled' = Settled
  BY DEF Settled, ParkedSum, Units
<1>3. ASSUME SameCounts, UNCHANGED <<waiters, want>>,
             \A c \in waiters : call'[c] = call[c]
      PROVE  NoLostWakeup'
  BY <1>2, <1>3 DEF NoLostWakeup
<1>4. CASE UNCHANGED vars
  BY <1>3, <1>4 DEF vars
<1>5. ASSUME NEW g \in Goroutine, Go(g) PROVE NoLostWakeup'
  <2>1. ~Settled => ~Settled'
    <3>1. ParkedSum' = ParkedSum
      BY <1>5 DEF Go, ParkedSum, Units
    <3>2. QED
      BY <1>5, <3>1, SettledMeaning DEF Go, Settled
  <2>2. QED
    BY <1>5, <2>1 DEF Go, NoLostWakeup
<1>6. ASSUME NEW g \in Goroutine,
             AwaitLeave(g) \/ Exit(g) \/ \E k \in Key : AwaitPark(g, k)
      PROVE  NoLostWakeup'
  BY <1>1, <1>6 DEF AwaitPark, AwaitLeave, Exit, Broadcast
<1>7. ASSUME NEW g \in Goroutine, Panic(g) \/ Recover(g) PROVE NoLostWakeup'
  BY <1>3, <1>7 DEF Panic, Recover
<1>8. ASSUME NEW c \in Caller, NEW k \in Key, ReleaseOpen(c, k)
      PROVE  NoLostWakeup'
  BY <1>1, <1>8 DEF ReleaseOpen, Broadcast
<1>9. ASSUME NEW c \in Caller, QuiesceCheck(c) PROVE NoLostWakeup'
  BY <1>2, <1>9 DEF QuiesceCheck, NoLostWakeup, Enlist
<1>10. ASSUME NEW c \in Caller, ReleaseCheck(c) PROVE NoLostWakeup'
  BY <1>2, <1>10 DEF ReleaseCheck, NoLostWakeup, Enlist
<1>11. ASSUME NEW c \in Caller, Wake(c) PROVE NoLostWakeup'
  BY <1>3, <1>11 DEF Wake
<1>12. ASSUME NEW c \in Caller, QuiesceCall(c) \/ ReturnNoWaiter(c)
       PROVE  NoLostWakeup'
  <2>1. c \notin waiters
    BY <1>12 DEF QuiesceCall, ReturnNoWaiter, NoLostWakeup
  <2>2. QED
    BY <1>3, <1>12, <2>1 DEF QuiesceCall, ReturnNoWaiter
<1>13. ASSUME NEW c \in Caller, NEW k \in Key,
              ReleaseAgain(c, k) \/ ReleaseNoWaiter(c, k)
       PROVE  NoLostWakeup'
  <2>1. c \notin waiters
    BY <1>13 DEF ReleaseAgain, ReleaseNoWaiter, NoLostWakeup
  <2>2. QED
    BY <1>2, <1>13, <2>1 DEF ReleaseAgain, ReleaseNoWaiter, NoLostWakeup
<1>14. QED
  BY <1>4, <1>5, <1>6, <1>7, <1>8, <1>9, <1>10, <1>11, <1>12, <1>13
     DEF Next, GoroutineStep, CallerStep

LEMMA StepPanicsPending ==
    ASSUME TypeOK, PanicsPending, [Next]_vars
    PROVE  PanicsPending'
<1> USE DEF TypeOK, PanicsPending, Move, fields
<1>1. CASE UNCHANGED vars
  BY <1>1 DEF vars
<1>2. ASSUME NEW g \in Goroutine, GoroutineStep(g) PROVE PanicsPending'
  BY <1>2 DEF GoroutineStep, Go, AwaitPark, AwaitLeave, Panic, Recover, Exit
<1>3. ASSUME NEW c \in Caller, CallerStep(c) PROVE PanicsPending'
  BY <1>3 DEF CallerStep, QuiesceCall, QuiesceCheck, Wake, ReleaseAgain,
              ReleaseNoWaiter, ReleaseOpen, ReturnNoWaiter, ReleaseCheck
<1>4. QED
  BY <1>1, <1>2, <1>3 DEF Next

LEMMA StepOpenedAreWatched ==
    ASSUME TypeOK, CountsAgree, ~Reawait, OpenedAreWatched, [Next]_vars
    PROVE  OpenedAreWatched'
<1> USE DEF TypeOK, Move, Goto, Ensured, fields
<1>1. ASSUME UNCHANGED <<release, at, call, want>>,
             \A g \in Goroutine : pc'[g] = "await" => pc[g] = "await"
      PROVE  OpenedAreWatched'
  BY <1>1 DEF OpenedAreWatched
<1>2. CASE UNCHANGED vars
  BY <1>1, <1>2 DEF vars
<1>3. ASSUME NEW g \in Goroutine, NEW k \in Key, AwaitPark(g, k)
      PROVE  OpenedAreWatched'
  <2>1. release'[k] = "open" /\ at'[g] = k
    BY <1>3 DEF AwaitPark, Channel
  <2>2. \A h \in Goroutine \ {g} : pc'[h] = pc[h] /\ at'[h] = at[h]
    BY <1>3 DEF AwaitPark
  <2>3. \A j \in Key : /\ release[j] # "none" => release'[j] # "none"
                       /\ release'[j] = "closed" => release[j] = "closed"
    BY <1>3, <2>1 DEF AwaitPark, Channel
  <2>4. UNCHANGED <<call, want>>
    BY <1>3 DEF AwaitPark
  <2>5. QED
    BY <2>1, <2>2, <2>3, <2>4 DEF OpenedAreWatched
<1>4. ASSUME NEW g \in Goroutine,
             Go(g) \/ AwaitLeave(g) \/ Panic(g) \/ Recover(g) \/ Exit(g)
      PROVE  OpenedAreWatched'
  BY <1>1, <1>4 DEF Go, AwaitLeave, Panic, Recover, Exit
<1>5. ASSUME NEW c \in Caller, NEW k \in Key, ReleaseOpen(c, k)
      PROVE  OpenedAreWatched'
  <2>1. /\ call'[c] = "releaseCheck" /\ want'[c] = k
        /\ \A d \in Caller \ {c} : call'[d] = call[d] /\ want'[d] = want[d]
        /\ call[c] = "idle"
    BY <1>5 DEF ReleaseOpen
  <2>2. /\ release'[k] = "closed"
        /\ \A j \in Key \ {k} : release'[j] = release[j]
        /\ UNCHANGED <<pc, at>>
    BY <1>5 DEF ReleaseOpen
  <2>3. QED
    BY <2>1, <2>2 DEF OpenedAreWatched
<1>6. ASSUME NEW c \in Caller, NEW k \in Key,
             ReleaseAgain(c, k) \/ ReleaseNoWaiter(c, k)
      PROVE  OpenedAreWatched'
  <2>1. /\ call[c] = "idle"
        /\ \A d \in Caller \ {c} : call'[d] = call[d] /\ want'[d] = want[d]
        /\ UNCHANGED <<pc, at>>
    BY <1>6 DEF ReleaseAgain, ReleaseNoWaiter
  <2>2. \A j \in Key : /\ release[j] # "none" => release'[j] # "none"
                       /\ release'[j] = "closed" => release[j] = "closed"
    BY <1>6 DEF ReleaseAgain, ReleaseNoWaiter, Channel
  <2>3. QED
    BY <2>1, <2>2 DEF OpenedAreWatched
<1>7. ASSUME NEW c \in Caller, ReleaseCheck(c) PROVE OpenedAreWatched'
  <2>1. parked[want[c]] = 0 => Awaiting(want[c]) = {}
    BY CountedFinite, FS_EmptySet DEF CountsAgree
  <2>2. QED
    BY <1>7, <2>1 DEF ReleaseCheck, OpenedAreWatched, Awaiting
<1>8. ASSUME NEW c \in Caller,
             QuiesceCall(c) \/ QuiesceCheck(c) \/ Wake(c) \/ ReturnNoWaiter(c)
      PROVE  OpenedAreWatched'
  <2>1. /\ UNCHANGED <<release, pc, at, want>>
        /\ \A d \in Caller :
              call[d] \in {"releaseCheck", "releaseWait"} =>
                 call'[d] \in {"releaseCheck", "releaseWait"}
    BY <1>8 DEF QuiesceCall, QuiesceCheck, Wake, ReturnNoWaiter
  <2>2. QED
    BY <2>1 DEF OpenedAreWatched
<1>9. QED
  BY <1>2, <1>3, <1>4, <1>5, <1>6, <1>7, <1>8
     DEF Next, GoroutineStep, CallerStep

-----------------------------------------------------------------------------
(* The theorems. *)

LEMMA InitIInv == Init => IInv
<1> SUFFICES ASSUME Init PROVE IInv
  OBVIOUS
<1>1. NoLostWakeup /\ PanicsPending /\ OpenedAreWatched
  BY DEF Init, NoLostWakeup, PanicsPending, OpenedAreWatched
<1>2. QED
  BY <1>1, InitTypeOK, InitCounts DEF IInv

LEMMA NextIInv == IInv /\ [Next]_vars => IInv'
BY StepTypeOK, StepCounts, StepNoLostWakeup, StepPanicsPending,
   StepOpenedAreWatched DEF IInv

LEMMA InductiveInvariant == Spec => []IInv
BY InitIInv, NextIInv, PTL DEF Spec

\* The state is well typed; in particular no count of parked goroutines ever
\* goes negative (gate.go:98).
THEOREM TypeCorrect == Spec => []TypeOK
<1>1. IInv => TypeOK
  BY DEF IInv
<1>2. QED
  BY <1>1, InductiveInvariant, PTL

\* living, exited and parked count what their names say (gate.go:45, 55, 91).
THEOREM CountsAreRight == Spec => []CountsAgree
<1>1. IInv => CountsAgree
  BY DEF IInv
<1>2. QED
  BY <1>1, InductiveInvariant, PTL

\* No caller of Quiesce or Release sleeps through the change it waits for
\* (gate.go:139-142, 169-172, 200-205).
THEOREM WakeupsAreNotLost == Spec => []NoLostWakeup
<1>1. IInv => NoLostWakeup
  BY DEF IInv
<1>2. QED
  BY <1>1, InductiveInvariant, PTL

\* A Quiesce that returns has seen Settled.
LEMMA ReturnSettled ==
    ASSUME IInv, [Next]_vars, NEW c \in Caller, QuiesceReturning(c)
    PROVE  Settled /\ UNCHANGED <<pc, at, release, panicked, threw>>
<1> USE DEF IInv, TypeOK, QuiesceReturning, Goto, Move, fields
<1>1. PICK d \in Caller : QuiesceCheck(d) /\ call'[d] = "idle"
  <2>1. ASSUME NEW g \in Goroutine, GoroutineStep(g) PROVE call' = call
    BY <2>1 DEF GoroutineStep, Go, AwaitPark, AwaitLeave, Panic, Recover, Exit
  <2>2. ASSUME NEW d \in Caller, CallerStep(d)
        PROVE  QuiesceCheck(d) /\ call'[d] = "idle"
    BY <2>2 DEF CallerStep, QuiesceCall, QuiesceCheck, Wake, ReleaseAgain,
                ReleaseNoWaiter, ReleaseOpen, ReturnNoWaiter, ReleaseCheck
  <2>3. QED
    BY <2>1, <2>2 DEF Next, vars
<1>2. QED
  BY <1>1 DEF QuiesceCheck

\* Quiesce keeps the promise of its comment (gate.go:157): three counters
\* agree only if every goroutine started has exited or is parked.
THEOREM QuiesceIsSound == Spec => QuiesceSound
<1> DEFINE Step == \A c \in Caller : QuiesceReturning(c) =>
                      \A g \in Started : pc[g] \in {"await", "exited"}
<1>1. IInv /\ [Next]_vars => [Step]_vars
  <2> SUFFICES ASSUME IInv, [Next]_vars, NEW c \in Caller, QuiesceReturning(c),
                      NEW g \in Started
               PROVE  pc[g] \in {"await", "exited"}
    OBVIOUS
  <2>1. Active \subseteq Parked
    BY ReturnSettled, SettledMeaning DEF IInv
  <2>2. QED
    BY <2>1 DEF Active, Parked, Started
<1>2. QED
  BY <1>1, InductiveInvariant, PTL DEF Spec, QuiesceSound

\* When Quiesce returns, every panic so far is in the list that Panicked
\* returns (gate.go:48-58, 64).
THEOREM PanicsAreNotMissed == Spec => NoMissedPanic
<1> DEFINE Step == \A c \in Caller : QuiesceReturning(c) =>
                      threw \subseteq panicked
<1>1. IInv /\ [Next]_vars => [Step]_vars
  <2> SUFFICES ASSUME IInv, [Next]_vars, NEW c \in Caller, QuiesceReturning(c),
                      NEW g \in threw \ panicked
               PROVE  FALSE
    OBVIOUS
  <2>1. pc[g] = "panicking" /\ g \in Goroutine
    BY DEF IInv, PanicsPending, TypeOK
  <2>2. Active \subseteq Parked
    BY ReturnSettled, SettledMeaning DEF IInv
  <2>3. QED
    BY <2>1, <2>2 DEF Active, Parked
<1>2. QED
  BY <1>1, InductiveInvariant, PTL DEF Spec, NoMissedPanic

\* With one caller and no Await of an open transition, nothing in the world
\* can move between Quiesce's return and the caller's next Release: what the
\* explorer then observes is stable (gate.go:157, 211, 214).
THEOREM QuiesceStandsStill ==
    ASSUME ~Reawait, \A c, d \in Caller : c = d
    PROVE  Spec => QuiesceStill
<1> DEFINE Step == \A c \in Caller : QuiesceReturning(c) =>
                      \A g \in Started :
                         \/ pc[g] = "exited"
                         \/ pc[g] = "await" /\ release[at[g]] = "open"
<1>1. IInv /\ [Next]_vars => [Step]_vars
  <2> SUFFICES ASSUME IInv, [Next]_vars, NEW c \in Caller, QuiesceReturning(c),
                      NEW g \in Started
               PROVE  \/ pc[g] = "exited"
                      \/ pc[g] = "await" /\ release[at[g]] = "open"
    OBVIOUS
  <2>1. g \in Goroutine /\ pc[g] \in {"await", "exited"}
    <3>1. Active \subseteq Parked
      BY ReturnSettled, SettledMeaning DEF IInv
    <3>2. QED
      BY <3>1 DEF Active, Parked, Started
  <2>2. ASSUME pc[g] = "await" PROVE release[at[g]] = "open"
    <3>1. release[at[g]] # "closed"
      BY <2>1, <2>2 DEF IInv, OpenedAreWatched, QuiesceReturning
    <3>2. QED
      BY <2>1, <2>2, <3>1 DEF IInv, OpenedAreWatched, TypeOK, Channel
  <2>3. QED
    BY <2>1, <2>2
<1>2. QED
  BY <1>1, InductiveInvariant, PTL DEF Spec, QuiesceStill

\* Release returns only when the goroutines it let go have left (gate.go:103).
THEOREM ReleaseLeavesNobody == Spec => ReleaseDrains
<1> DEFINE Step == \A c \in Caller :
                      ReleaseReturning(c) => Awaiting(want[c]) = {}
<1>1. IInv /\ [Next]_vars => [Step]_vars
  <2> SUFFICES ASSUME IInv, [Next]_vars, NEW c \in Caller, ReleaseReturning(c)
               PROVE  Awaiting(want[c]) = {}
    OBVIOUS
  <2> USE DEF IInv, TypeOK, ReleaseReturning, Goto, Move, fields
  <2>1. ASSUME NEW g \in Goroutine, GoroutineStep(g) PROVE call' = call
    BY <2>1 DEF GoroutineStep, Go, AwaitPark, AwaitLeave, Panic, Recover, Exit
  <2>2. ASSUME NEW d \in Caller, CallerStep(d)
        PROVE  parked[want[c]] = 0
    BY <2>2 DEF CallerStep, QuiesceCall, QuiesceCheck, Wake, ReleaseAgain,
                ReleaseNoWaiter, ReleaseOpen, ReturnNoWaiter, ReleaseCheck
  <2>3. parked[want[c]] = 0
    BY <2>1, <2>2 DEF Next, vars
  <2>4. QED
    BY <2>3, CountedFinite, FS_EmptySet DEF CountsAgree
<1>2. QED
  BY <1>1, InductiveInvariant, PTL DEF Spec, ReleaseDrains
=============================================================================
