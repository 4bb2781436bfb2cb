--------------------------- MODULE MinimizeProofs ---------------------------
(* Theorems about Minimize and the replays it makes, for every scene and     *)
(* every witness given.                                                      *)
EXTENDS Minimize, ScenarioProofs

-----------------------------------------------------------------------------
(* Candidates. *)

\* A candidate is one transition shorter.
LEMMA WithoutType ==
    ASSUME NEW s \in Schedule, NEW n \in 1..Len(s)
    PROVE  /\ Without(s, n) \in Schedule
           /\ Len(Without(s, n)) = Len(s) - 1
<1>1. Len(s) \in Nat /\ n \in Nat /\ 1 <= n /\ n <= Len(s) /\ s \in Seq(Transition)
  BY DEF Schedule
<1>2. /\ SubSeq(s, 1, n-1) \in Seq(Transition)
      /\ Len(SubSeq(s, 1, n-1)) = n - 1
  BY <1>1
<1>3. /\ SubSeq(s, n+1, Len(s)) \in Seq(Transition)
      /\ Len(SubSeq(s, n+1, Len(s))) = Len(s) - n
  BY <1>1
<1> DEFINE a == SubSeq(s, 1, n-1)
           b == SubSeq(s, n+1, Len(s))
<1>4. /\ a \in Seq(Transition) /\ Len(a) = n - 1
      /\ b \in Seq(Transition) /\ Len(b) = Len(s) - n
      /\ Without(s, n) = a \o b
  BY <1>2, <1>3 DEF Without
<1> HIDE DEF a, b
<1>5. a \o b \in Seq(Transition) /\ Len(a \o b) = Len(a) + Len(b)
  BY <1>4, ConcatProperties
<1>6. (n - 1) + (Len(s) - n) = Len(s) - 1
  BY <1>1
<1>7. QED
  BY <1>4, <1>5, <1>6 DEF Schedule

\* Without its last transition, a schedule is a prefix of itself.
LEMMA WithoutLast ==
    ASSUME NEW s \in Schedule, s # <<>>
    PROVE  Without(s, Len(s)) = SubSeq(s, 1, Len(s) - 1)
<1>1. Len(s) \in Nat /\ s \in Seq(Transition)
  BY DEF Schedule
<1>2. SubSeq(s, Len(s) + 1, Len(s)) = <<>>
  BY <1>1
<1>3. SubSeq(s, 1, Len(s) - 1) \in Seq(Transition)
  BY <1>1
<1>4. QED
  BY <1>2, <1>3 DEF Without

\* A position the loop goes on with is one of a longer schedule.
LEMMA Inside ==
    ASSUME NEW l \in Nat, NEW i \in 1..l+1, ~(i > l), l # 1
    PROVE  i \in 1..l /\ l > 1
OBVIOUS

\* At the end of the loop every position has been passed.
LEMMA AllPassed ==
    ASSUME NEW l \in Nat, l > 1, NEW i \in 1..l+1, i > l \/ l = 1,
           NEW n \in 1..l
    PROVE  n \in 1..i-1
OBVIOUS

-----------------------------------------------------------------------------
(* Replays. *)

\* What is known of a replay at any time.
ReplayInv ==
    /\ ReplayTypeOK
    /\ ReplayIsFaithful
    /\ outcome = "failed" => taken # <<>>

LEMMA BeginReplayOK ==
    ASSUME scene \in Scene, scene' = scene,
           NEW schedule \in Schedule, BeginReplay(schedule)
    PROVE  ReplayInv'
<1>1. Initial(scene) \in State(scene)
  BY SceneAssumption
<1>2. ReplayTypeOK'
  <2>1. Len(schedule) \in Nat /\ <<>> \in Schedule /\ Len(<<>>) = 0
    BY DEF Schedule
  <2>2. <<Initial(scene)>> \in Seq(State(scene))
    BY <1>1
  <2>3. QED
    BY <1>1, <2>1, <2>2, NoWitnessType DEF BeginReplay, ReplayTypeOK
<1>3. ReplayIsFaithful'
  <2>1. <<>> = SubSeq(schedule, 1, Len(<<>>))
    BY DEF Schedule
  <2>2. IsRun(scene, <<Initial(scene)>>, <<>>)
    BY DEF IsRun
  <2>3. CleanUpTo(scene, <<Initial(scene)>>, Len(<<Initial(scene)>>))
    BY DEF CleanUpTo
  <2>4. QED
    BY <2>1, <2>2, <2>3 DEF BeginReplay, ReplayIsFaithful
<1>4. QED
  BY <1>2, <1>3 DEF ReplayInv, BeginReplay

LEMMA ReplayStepOK ==
    ASSUME ReplayInv, ReplayStep
    PROVE  ReplayInv' /\ scene' = scene /\ script' = script
<1>1. ReplayTypeOK /\ ReplayIsFaithful
  BY DEF ReplayInv
<1>2. CASE RefuseDisabled
  <2>1. ReplayTypeOK' /\ scene' = scene /\ script' = script
    BY <1>1, <1>2 DEF RefuseDisabled, ReplayTypeOK
  <2>2. ReplayIsFaithful'
    BY <1>1, <1>2 DEF RefuseDisabled, ReplayIsFaithful, Remaining, NextTransition
  <2>3. QED
    BY <1>2, <2>1, <2>2 DEF RefuseDisabled, ReplayInv
<1>3. CASE EndOfScript
  <2>1. ReplayTypeOK' /\ scene' = scene /\ script' = script
    BY <1>1, <1>3 DEF EndOfScript, ReplayTypeOK
  <2>2. taken = script
    <3>1. Len(taken) = Len(script)
      BY <1>1, <1>3 DEF EndOfScript, Remaining, ReplayTypeOK, Schedule
    <3>2. QED
      BY <1>1, <3>1 DEF ReplayIsFaithful, ReplayTypeOK, Schedule
  <2>3. ReplayIsFaithful'
    BY <1>1, <1>3, <2>2 DEF EndOfScript, ReplayIsFaithful
  <2>4. QED
    BY <1>3, <2>1, <2>3 DEF EndOfScript, ReplayInv
<1>4. CASE Take
  <2> DEFINE t == NextTransition
             s == Apply(scene, state, t)
  <2>1. /\ scene \in Scene /\ state \in State(scene)
        /\ script \in Seq(Transition) /\ taken \in Seq(Transition)
        /\ path \in Seq(State(scene))
        /\ Len(taken) < Len(script)
        /\ t = script[Len(taken) + 1]
        /\ t \in Enabled(scene, state)
    BY <1>1, <1>4 DEF Take, ReplayTypeOK, Schedule, Remaining, NextTransition
  <2>2. s \in State(scene) /\ t \in Transition
    BY <2>1, SceneAssumption
  <2>3. /\ taken' = Append(taken, t)
        /\ path' = Append(path, s)
        /\ state' = s
        /\ scene' = scene /\ script' = script
        /\ found' = Check(scene, s, taken')
        /\ outcome' = IF Violates(scene, s) THEN "failed" ELSE "running"
    BY <1>4 DEF Take
  <2> HIDE DEF t, s
  <2>4. /\ taken' \in Schedule /\ taken' # <<>>
        /\ Len(taken') = Len(taken) + 1
        /\ Len(taken') <= Len(script)
        /\ taken' = SubSeq(script, 1, Len(taken'))
    <3>1. taken' \in Seq(Transition) /\ Len(taken') = Len(taken) + 1
      BY <2>1, <2>2, <2>3
    <3>2. \A i \in 1..Len(taken) : taken[i] = script[i]
      <4>1. taken = SubSeq(script, 1, Len(taken))
        BY <1>1 DEF ReplayIsFaithful
      <4>2. QED
        BY <2>1, <4>1
    <3>3. \A i \in 1..Len(taken') : taken'[i] = script[i]
      BY <2>1, <2>2, <2>3, <3>1, <3>2
    <3>4. Len(taken') \in Nat /\ Len(taken') <= Len(script) /\ Len(script) \in Nat
      BY <2>1, <3>1
    <3>5. /\ Len(SubSeq(script, 1, Len(taken'))) = Len(taken')
          /\ \A i \in 1..Len(taken') : SubSeq(script, 1, Len(taken'))[i] = script[i]
          /\ SubSeq(script, 1, Len(taken')) \in Seq(Transition)
      BY <2>1, <3>4
    <3>6. taken' = SubSeq(script, 1, Len(taken'))
      BY <3>1, <3>3, <3>5, SeqEqual
    <3>7. taken' # <<>>
      BY <2>1, <3>1
    <3>8. QED
      BY <3>1, <3>4, <3>6, <3>7 DEF Schedule
  <2>5. /\ IsRun(scene, path', taken')
        /\ path'[Len(path')] = s
        /\ CleanUpTo(scene, path', Len(path') - 1)
        /\ ~Violates(scene, s) => CleanUpTo(scene, path', Len(path'))
    <3>1. /\ IsRun(scene, path, taken)
          /\ path[Len(path)] = state
          /\ CleanUpTo(scene, path, Len(path))
          /\ taken \in Schedule
      BY <1>1, <1>4, <2>1 DEF ReplayIsFaithful, Take, Schedule
    <3>2. t \in Enabled(scene, path[Len(path)]) /\ s = Apply(scene, path[Len(path)], t)
      BY <2>1, <3>1 DEF s
    <3>3. /\ IsRun(scene, Append(path, s), Append(taken, t))
          /\ Append(path, s)[Len(Append(path, s))] = s
          /\ CleanUpTo(scene, Append(path, s), Len(Append(path, s)) - 1)
          /\ ~Violates(scene, s)
                => CleanUpTo(scene, Append(path, s), Len(Append(path, s)))
      BY <2>1, <3>1, <3>2, ExecutionGrows
    <3>4. QED
      BY <2>3, <3>3
  <2>6. IF Violates(scene, s) THEN found' \in Witness ELSE found' = NoWitness
    <3>1. CASE Violates(scene, s)
      BY <2>1, <2>2, <2>3, <2>4, <3>1, CheckFails
    <3>2. CASE ~Violates(scene, s)
      BY <2>3, <3>2 DEF Check
    <3>3. QED
      BY <3>1, <3>2
  <2>7. ReplayTypeOK'
    <3>1. path' \in Seq(State(scene))
      BY <2>1, <2>2, <2>3
    <3>2. found' \in Witness
      BY <2>6, NoWitnessType
    <3>3. script \in Schedule
      BY <2>1 DEF Schedule
    <3>4. QED
      BY <2>1, <2>2, <2>3, <2>4, <3>1, <3>2, <3>3 DEF ReplayTypeOK
  <2>8. ReplayIsFaithful'
    BY <2>3, <2>4, <2>5, <2>6 DEF ReplayIsFaithful
  <2>9. QED
    BY <2>3, <2>4, <2>7, <2>8 DEF ReplayInv
<1>5. QED
  BY <1>2, <1>3, <1>4 DEF ReplayStep

-----------------------------------------------------------------------------
(* Verdicts. *)

\* Executing schedule from the initial state fails the invariant called name:
\* after some of its transitions a state violates an invariant, none before it
\* does, and it is name that the check of that state reports.
Fails(sc, schedule, name) ==
    \E m \in 1..Len(schedule) : \E p \in Seq(State(sc)) :
        /\ IsRun(sc, p, SubSeq(schedule, 1, m))
        /\ CleanUpTo(sc, p, m)
        /\ Violates(sc, p[m+1])
        /\ Check(sc, p[m+1], SubSeq(schedule, 1, m)).invariant = name

\* A replay that failed shows how its schedule fails.
LEMMA FailureIsReal ==
    ASSUME ReplayInv, outcome = "failed"
    PROVE  Fails(scene, script, found.invariant)
<1> DEFINE k == Len(taken)
<1>1. /\ script \in Schedule /\ taken \in Schedule
      /\ path \in Seq(State(scene))
      /\ k <= Len(script) /\ taken # <<>>
      /\ taken = SubSeq(script, 1, k)
      /\ IsRun(scene, path, taken)
      /\ path[Len(path)] = state
      /\ CleanUpTo(scene, path, Len(path) - 1)
      /\ Violates(scene, state)
      /\ found = Check(scene, state, taken)
  BY DEF ReplayInv, ReplayTypeOK, ReplayIsFaithful
<1>2. k \in 1..Len(script)
  BY <1>1 DEF Schedule
<1>3. Len(path) = k + 1 /\ Len(path) - 1 = k
  BY <1>1, <1>2 DEF IsRun
<1> HIDE DEF k
<1>4. QED
  BY <1>1, <1>2, <1>3 DEF Fails

\* A schedule that fails an invariant fails it in every replay of it.
LEMMA FailureIsFound ==
    ASSUME ReplayInv, outcome # "running", NEW name, Fails(scene, script, name)
    PROVE  outcome = "failed" /\ found.invariant = name
<1> DEFINE k == Len(taken)
<1>1. /\ scene \in Scene
      /\ script \in Seq(Transition) /\ taken \in Seq(Transition)
      /\ path \in Seq(State(scene))
      /\ k \in Nat /\ k <= Len(script) /\ Len(script) \in Nat
      /\ taken = SubSeq(script, 1, k)
      /\ IsRun(scene, path, taken)
      /\ path[Len(path)] = state
      /\ outcome \in {"invalid", "passed", "failed"}
  BY DEF ReplayInv, ReplayTypeOK, ReplayIsFaithful, Schedule
<1>2. Len(path) = k + 1 /\ path[k+1] = state
  BY <1>1 DEF IsRun
<1>3. PICK m \in 1..Len(script), p \in Seq(State(scene)) :
        /\ IsRun(scene, p, SubSeq(script, 1, m))
        /\ CleanUpTo(scene, p, m)
        /\ Violates(scene, p[m+1])
        /\ Check(scene, p[m+1], SubSeq(script, 1, m)).invariant = name
  BY DEF Fails
<1> DEFINE a == SubSeq(script, 1, m)
<1>4. /\ m \in Nat /\ 1 <= m
      /\ a \in Seq(Transition) /\ Len(a) = m
      /\ \A i \in 1..m : a[i] = script[i]
  BY <1>1, <1>3
<1>5. \A i \in 1..k : taken[i] = script[i]
  BY <1>1
<1>6. IsRun(scene, p, a) /\ a \in Schedule /\ taken \in Schedule
  BY <1>1, <1>3, <1>4 DEF Schedule
<1> HIDE DEF a, k
<1>7. ASSUME m <= k PROVE p[m+1] = path[m+1]
  <2>1. \A i \in 1..m : a[i] = taken[i]
    BY <1>1, <1>4, <1>5, <1>7
  <2>2. m <= Len(a) /\ m <= Len(taken)
    BY <1>4, <1>7 DEF k
  <2>3. /\ scene \in Scene /\ IsRun(scene, path, taken)
        /\ path \in Seq(State(scene)) /\ m \in Nat
    BY <1>1, <1>4
  <2>4. \A i \in 1..m+1 : p[i] = path[i]
    BY <1>6, <2>1, <2>2, <2>3, RunsAgree
  <2>5. QED
    BY <1>4, <2>4
<1>8. ASSUME k <= m PROVE p[k+1] = state
  <2>1. \A i \in 1..k : a[i] = taken[i]
    BY <1>1, <1>4, <1>5, <1>8
  <2>2. \A i \in 1..k+1 : p[i] = path[i]
    BY <1>1, <1>4, <1>6, <1>8, <2>1, RunsAgree DEF k
  <2>3. QED
    BY <1>1, <1>2, <2>2
<1>9. ASSUME m <= k, CleanUpTo(scene, path, m + 1) PROVE FALSE
  BY <1>3, <1>4, <1>7, <1>9 DEF CleanUpTo
<1>10. CASE outcome = "passed"
  <2>1. m <= k
    BY <1>3, <1>10 DEF ReplayInv, ReplayIsFaithful, k
  <2>2. CleanUpTo(scene, path, k + 1)
    BY <1>2, <1>10 DEF ReplayInv, ReplayIsFaithful
  <2>3. QED
    BY <1>1, <1>4, <1>9, <2>1, <2>2 DEF CleanUpTo
<1>11. CASE outcome = "invalid"
  <2>1. CleanUpTo(scene, path, k + 1)
    BY <1>2, <1>11 DEF ReplayInv, ReplayIsFaithful
  <2>2. script[k+1] \notin Enabled(scene, state)
    BY <1>11 DEF ReplayInv, ReplayIsFaithful, NextTransition, k
  <2>3. CASE m <= k
    BY <1>1, <1>4, <1>9, <2>1, <2>3 DEF CleanUpTo
  <2>4. CASE k < m
    <3>1. k + 1 \in 1..m /\ k <= m
      BY <1>1, <1>4, <2>4
    <3>2. a[k+1] \in Enabled(scene, p[k+1])
      BY <1>4, <1>6, <3>1 DEF IsRun
    <3>3. QED
      BY <1>4, <1>8, <2>2, <3>1, <3>2
  <2>5. QED
    BY <1>1, <1>4, <2>3, <2>4
<1>12. CASE outcome = "failed"
  <2>1. /\ CleanUpTo(scene, path, k)
        /\ Violates(scene, state)
        /\ found = Check(scene, state, taken)
        /\ k # 0
    <3>1. taken # <<>>
      BY <1>12 DEF ReplayInv
    <3>2. Len(taken) # 0
      BY <1>1, <3>1, EmptySeq
    <3>3. Len(path) - 1 = k
      BY <1>1, <1>2
    <3>4. /\ CleanUpTo(scene, path, Len(path) - 1)
          /\ Violates(scene, state)
          /\ found = Check(scene, state, taken)
      BY <1>12 DEF ReplayInv, ReplayIsFaithful
    <3>5. QED
      BY <3>2, <3>3, <3>4 DEF k
  <2>2. CASE m < k
    <3>1. m + 1 <= k /\ m <= k
      BY <1>1, <1>4, <2>2
    <3>2. CleanUpTo(scene, path, m + 1)
      BY <1>1, <1>4, <2>1, <3>1 DEF CleanUpTo
    <3>3. QED
      BY <1>9, <3>1, <3>2
  <2>3. CASE k < m
    <3>1. k + 1 \in 2..m /\ k <= m
      BY <1>1, <1>4, <2>1, <2>3
    <3>2. QED
      BY <1>3, <1>8, <2>1, <3>1 DEF CleanUpTo
  <2>4. CASE m = k
    <3>1. SubSeq(script, 1, m) = taken
      BY <1>1, <2>4
    <3>2. p[m+1] = state
      BY <1>1, <1>8, <2>4
    <3>3. QED
      BY <1>3, <1>12, <2>1, <3>1, <3>2
  <2>5. QED
    BY <1>1, <1>4, <2>2, <2>3, <2>4
<1>13. QED
  BY <1>1, <1>10, <1>11, <1>12

\* Minimize's verdict is right.
LEMMA VerdictRight ==
    ASSUME ReplayInv, outcome # "running"
    PROVE  Same <=> Fails(scene, script, Target)
<1>1. Same => Fails(scene, script, Target)
  BY FailureIsReal DEF Same
<1>2. Fails(scene, script, Target) => Same
  BY FailureIsFound DEF Same
<1>3. QED
  BY <1>1, <1>2

-----------------------------------------------------------------------------
(* The inductive invariant. *)

\* Positions the loop has passed since it last started over hold transitions
\* the violation needs; at the end, all of them do.
PassedAreNeeded ==
    Len(sched) > 1 =>
        /\ pc \in {"scan", "trial"} =>
              \A n \in 1..index-1 : ~Fails(scene, Without(sched, n), Target)
        /\ pc = "done" =>
              \A n \in 1..Len(sched) : ~Fails(scene, Without(sched, n), Target)

\* A witness is refused because it does not fail what it should.
RefusedFailsNot ==
    pc = "refused" =>
        Target = "" \/ ~Fails(scene, original.schedule, Target)

IInv ==
    /\ TypeOK
    /\ ReplayInv
    /\ CurrentIsEvidence
    /\ pc \in {"scan", "trial", "done"} => current.schedule # <<>>
    /\ PassedAreNeeded
    /\ RefusedFailsNot

LEMMA InitReplayOK ==
    ASSUME scene \in Scene, InitReplay(<<>>)
    PROVE  ReplayInv
<1>1. <<>> \in Schedule /\ Len(<<>>) = 0
  BY DEF Schedule
<1>2. Initial(scene) \in State(scene)
  BY SceneAssumption
<1>3. ReplayTypeOK
  <2>1. <<Initial(scene)>> \in Seq(State(scene))
    BY <1>2
  <2>2. QED
    BY <1>1, <1>2, <2>1, NoWitnessType DEF InitReplay, ReplayTypeOK
<1>4. ReplayIsFaithful
  <2>1. <<>> = SubSeq(<<>>, 1, Len(<<>>))
    BY <1>1
  <2>2. IsRun(scene, <<Initial(scene)>>, <<>>)
    BY DEF IsRun
  <2>3. CleanUpTo(scene, <<Initial(scene)>>, Len(<<Initial(scene)>>))
    BY DEF CleanUpTo
  <2>4. QED
    BY <2>1, <2>2, <2>3 DEF InitReplay, ReplayIsFaithful
<1>5. QED
  BY <1>3, <1>4 DEF ReplayInv, InitReplay

\* Minimize is yet to be called.
NotCalled ==
    /\ scene \in Scene
    /\ original \in Witness
    /\ pc = "start"
    /\ sched = <<>>
    /\ index = 1
    /\ current = NoWitness
    /\ attempts = 0
    /\ trace = <<>>

LEMMA NotCalledOK == NotCalled /\ ReplayInv => IInv
<1> SUFFICES ASSUME NotCalled, ReplayInv PROVE IInv
  OBVIOUS
<1>1. scene \in Scene /\ original \in Witness
  BY DEF NotCalled
<1>2. <<>> \in Schedule /\ Len(<<>>) = 0 /\ <<>> \in Seq(State(scene))
  BY DEF Schedule
<1>3. TypeOK
  BY <1>1, <1>2, NoWitnessType DEF NotCalled, TypeOK, ReplayInv
<1>4. QED
  BY <1>3
     DEF IInv, NotCalled, CurrentIsEvidence, PassedAreNeeded, RefusedFailsNot

LEMMA InitOK == Init => IInv
<1> SUFFICES ASSUME Init PROVE IInv
  OBVIOUS
<1>1. NotCalled /\ InitReplay(<<>>)
  BY EvidencesAssumption DEF Init, NotCalled
<1>2. QED
  BY <1>1, NotCalledOK, InitReplayOK DEF NotCalled

\* What Minimize adopts when a replay fails the same way is evidence.
LEMMA AdoptedIsEvidence ==
    ASSUME TypeOK, ReplayInv, Same,
           scene' = scene, original' = original, sched' = script,
           current' = found, trace' = path
    PROVE  CurrentIsEvidence' /\ current'.schedule # <<>>
<1>1. /\ scene \in Scene /\ state \in State(scene)
      /\ script \in Schedule /\ taken \in Schedule
      /\ Len(taken) <= Len(script) /\ taken # <<>>
      /\ taken = SubSeq(script, 1, Len(taken))
      /\ IsRun(scene, path, taken)
      /\ path[Len(path)] = state
      /\ CleanUpTo(scene, path, Len(path) - 1)
      /\ Violates(scene, state)
      /\ found = Check(scene, state, taken)
      /\ found.invariant = Target
  BY DEF ReplayInv, ReplayTypeOK, ReplayIsFaithful, Same
<1>2. found.schedule = taken
  BY <1>1, CheckFails
<1>3. Target' = Target
  BY DEF Target
<1>4. IsPrefixOf(taken, script)
  BY <1>1 DEF IsPrefixOf
<1>5. QED
  BY <1>1, <1>2, <1>3, <1>4 DEF CurrentIsEvidence

\* Between replays, what is known of the last one stays known.
LEMMA ReplayRests ==
    ASSUME ReplayInv, UNCHANGED <<scene, replaying>>
    PROVE  ReplayInv'
<1>1. UNCHANGED <<scene, script, state, taken, outcome, found, path>>
  BY DEF replaying
<1>2. ReplayTypeOK' /\ ReplayIsFaithful'
  BY <1>1 DEF ReplayInv, ReplayTypeOK, ReplayIsFaithful, Remaining,
              NextTransition
<1>3. QED
  BY <1>1, <1>2 DEF ReplayInv

LEMMA ReplayingOK == IInv /\ Replaying => IInv'
<1> SUFFICES ASSUME IInv, Replaying PROVE IInv'
  OBVIOUS
<1>1. /\ TypeOK /\ ReplayInv /\ CurrentIsEvidence
      /\ ReplayStep
      /\ UNCHANGED <<pc, original, sched, index, current, attempts, trace>>
  BY DEF IInv, Replaying, between
<1>2. ReplayInv' /\ scene' = scene /\ script' = script
  BY <1>1, ReplayStepOK
<1>3. Target' = Target
  BY <1>1 DEF Target
<1>4. TypeOK'
  BY <1>1, <1>2 DEF TypeOK, ReplayInv, Without
<1>5. CurrentIsEvidence'
  BY <1>1, <1>2, <1>3 DEF CurrentIsEvidence
<1>6. PassedAreNeeded' /\ RefusedFailsNot'
  BY <1>1, <1>2, <1>3 DEF IInv, PassedAreNeeded, RefusedFailsNot, Without
<1>7. QED
  BY <1>1, <1>2, <1>4, <1>5, <1>6 DEF IInv

\* The steps that only refuse the witness given.
LEMMA RefusingOK == IInv /\ (RefuseInput \/ RefuseOriginal) => IInv'
<1> SUFFICES ASSUME IInv, RefuseInput \/ RefuseOriginal PROVE IInv'
  OBVIOUS
<1>1. /\ TypeOK /\ ReplayInv
      /\ pc \in {"start", "verify"} /\ pc' = "refused"
      /\ UNCHANGED <<scene, replaying, original, sched, index, current,
                     attempts, trace>>
  BY DEF IInv, RefuseInput, RefuseOriginal
<1>2. ReplayInv'
  BY <1>1, ReplayRests
<1>3. TypeOK'
  BY <1>1, <1>2 DEF TypeOK, ReplayInv
<1>4. RefusedFailsNot'
  <2>1. CASE RefuseInput
    <3>1. original.schedule = <<>> => ~Fails(scene, original.schedule, Target)
      BY DEF Fails
    <3>2. QED
      BY <1>1, <2>1, <3>1 DEF RefuseInput, RefusedFailsNot, Target
  <2>2. CASE RefuseOriginal
    <3>1. script = original.schedule
      BY <1>1, <2>2 DEF RefuseOriginal, TypeOK
    <3>2. ~Fails(scene, original.schedule, Target)
      BY <1>1, <2>2, <3>1, VerdictRight DEF RefuseOriginal, NotSame
    <3>3. QED
      BY <1>1, <3>2 DEF RefusedFailsNot, Target
  <2>3. QED
    BY <2>1, <2>2, RefuseInput \/ RefuseOriginal
<1>5. QED
  BY <1>1, <1>2, <1>3, <1>4 DEF IInv, CurrentIsEvidence, PassedAreNeeded

\* The steps that start a replay.
LEMMA TryingOK == IInv /\ (Verify \/ Try) => IInv'
<1> SUFFICES ASSUME IInv, Verify \/ Try PROVE IInv'
  OBVIOUS
<1>1. /\ TypeOK /\ ReplayInv
      /\ scene' = scene
      /\ UNCHANGED <<original, sched, index, current, trace>>
      /\ scene \in Scene /\ attempts \in Nat
      /\ sched \in Schedule /\ Len(sched) \in Nat
  <2>1. TypeOK /\ ReplayInv
    BY DEF IInv
  <2>2. /\ scene' = scene
        /\ UNCHANGED <<original, sched, index, current, trace>>
    BY DEF Verify, Try
  <2>3. scene \in Scene /\ attempts \in Nat /\ sched \in Schedule
    BY <2>1 DEF TypeOK, ReplayTypeOK
  <2>4. Len(sched) \in Nat
    BY <2>3 DEF Schedule
  <2>5. QED
    BY <2>1, <2>2, <2>3, <2>4
<1>2. Target' = Target
  BY <1>1 DEF Target
<1>3. CASE Verify
  <2>1. /\ BeginReplay(original.schedule) /\ attempts' = attempts + 1
        /\ pc' = "verify"
        /\ original.schedule \in Schedule
    BY <1>1, <1>3 DEF Verify, Evaluate, TypeOK, Witness
  <2>2. ReplayInv'
    BY <1>1, <2>1, BeginReplayOK
  <2>3. script' = original.schedule
    BY <2>1 DEF BeginReplay
  <2>4. TypeOK'
    BY <1>1, <2>1, <2>2, <2>3 DEF TypeOK, ReplayInv
  <2>5. QED
    BY <1>1, <2>1, <2>2, <2>4
       DEF IInv, CurrentIsEvidence, PassedAreNeeded, RefusedFailsNot
<1>4. CASE Try
  <2>1. /\ pc = "scan" /\ pc' = "trial"
        /\ BeginReplay(Without(sched, index)) /\ attempts' = attempts + 1
        /\ ~Exhausted
    BY <1>4 DEF Try, Evaluate
  <2>2. index \in 1..Len(sched) /\ Len(sched) > 1
    <3>1. index \in 1..Len(sched) + 1
      BY <1>1 DEF TypeOK
    <3>2. ~(index > Len(sched)) /\ Len(sched) # 1
      BY <2>1 DEF Exhausted
    <3>3. QED
      BY <1>1, <3>1, <3>2, Inside
  <2>3. /\ Without(sched, index) \in Schedule
        /\ Len(Without(sched, index)) = Len(sched) - 1
    BY <1>1, <2>2, WithoutType
  <2>4. Without(sched, index) # <<>>
    <3>1. Len(Without(sched, index)) # 0
      BY <1>1, <2>2, <2>3
    <3>2. Len(<<>>) = 0
      OBVIOUS
    <3>3. QED
      BY <3>1, <3>2
  <2>5. ReplayInv'
    BY <1>1, <2>1, <2>3, BeginReplayOK
  <2>6. script' = Without(sched, index)
    BY <2>1 DEF BeginReplay
  <2>7. Without(sched, index)' = Without(sched, index)
    BY <1>1 DEF Without
  <2>8. index <= Len(sched) /\ attempts' \in Nat
    BY <1>1, <2>1, <2>2
  <2>9. TypeOK'
    BY <1>1, <2>1, <2>4, <2>5, <2>6, <2>7, <2>8 DEF TypeOK, ReplayInv
  <2>10. CurrentIsEvidence' /\ current'.schedule # <<>>
    BY <1>1, <1>2, <2>1 DEF IInv, CurrentIsEvidence
  <2>11. PassedAreNeeded' /\ RefusedFailsNot'
    BY <1>1, <1>2, <2>1 DEF IInv, PassedAreNeeded, RefusedFailsNot
  <2>12. QED
    BY <2>5, <2>9, <2>10, <2>11 DEF IInv
<1>5. QED
  BY <1>3, <1>4

\* The steps that adopt a shorter schedule, or the one given.
LEMMA AdoptingOK == IInv /\ (Adopt \/ Remove) => IInv'
<1> SUFFICES ASSUME IInv, Adopt \/ Remove PROVE IInv'
  OBVIOUS
<1>1. /\ TypeOK /\ ReplayInv /\ Same
      /\ pc' = "scan" /\ index' = 1
      /\ current' = found /\ trace' = path
      /\ UNCHANGED <<scene, replaying, original, attempts>>
      /\ script \in Schedule /\ found \in Witness
      /\ path \in Seq(State(scene))
  BY DEF IInv, Adopt, Remove, ReplayInv, ReplayTypeOK
<1>2. sched' = script
  BY <1>1 DEF Adopt, Remove, TypeOK
<1>3. ReplayInv'
  BY <1>1, ReplayRests
<1>4. CurrentIsEvidence' /\ current'.schedule # <<>>
  BY <1>1, <1>2, AdoptedIsEvidence
<1>5. TypeOK'
  <2>1. 1 \in 1..Len(script) + 1
    BY <1>1 DEF Schedule
  <2>2. QED
    BY <1>1, <1>2, <1>3, <2>1 DEF TypeOK, ReplayInv
<1>6. PassedAreNeeded'
  <2>1. 1..index'-1 = {}
    BY <1>1
  <2>2. QED
    BY <1>1, <2>1 DEF PassedAreNeeded
<1>7. QED
  BY <1>1, <1>3, <1>4, <1>5, <1>6 DEF IInv, RefusedFailsNot

\* A transition is kept because the violation needs it.
LEMMA KeepOK == IInv /\ Keep => IInv'
<1> SUFFICES ASSUME IInv, Keep PROVE IInv'
  OBVIOUS
<1>1. /\ TypeOK /\ ReplayInv
      /\ pc = "trial" /\ pc' = "scan" /\ index' = index + 1 /\ NotSame
      /\ UNCHANGED <<scene, replaying, original, sched, current, attempts,
                     trace>>
      /\ sched \in Schedule /\ Len(sched) \in Nat
      /\ index \in 1..Len(sched)
      /\ script = Without(sched, index)
  BY DEF IInv, Keep, TypeOK, Schedule
<1>2. Target' = Target
  BY <1>1 DEF Target
<1>3. ReplayInv'
  BY <1>1, ReplayRests
<1>4. TypeOK'
  <2>1. index' \in 1..Len(sched) + 1
    BY <1>1
  <2>2. QED
    BY <1>1, <1>3, <2>1 DEF TypeOK, ReplayInv
<1>5. CurrentIsEvidence' /\ current'.schedule # <<>>
  BY <1>1, <1>2 DEF IInv, CurrentIsEvidence
<1>6. PassedAreNeeded'
  <2>1. ~Fails(scene, Without(sched, index), Target)
    BY <1>1, VerdictRight DEF NotSame
  <2>2. ASSUME Len(sched) > 1, NEW n \in 1..index
        PROVE  ~Fails(scene, Without(sched, n), Target)
    <3>1. n = index \/ n \in 1..index-1
      BY <1>1
    <3>2. QED
      BY <1>1, <2>1, <2>2, <3>1 DEF IInv, PassedAreNeeded
  <2>3. 1..index'-1 = 1..index
    BY <1>1
  <2>4. \A n : Without(sched, n)' = Without(sched, n)
    BY <1>1 DEF Without
  <2>5. QED
    BY <1>1, <1>2, <2>2, <2>3 DEF PassedAreNeeded
<1>7. QED
  BY <1>1, <1>3, <1>4, <1>5, <1>6 DEF IInv, RefusedFailsNot

\* When the loop is through, every transition is needed.
LEMMA ReturnOK == IInv /\ Return => IInv'
<1> SUFFICES ASSUME IInv, Return PROVE IInv'
  OBVIOUS
<1>1. /\ TypeOK /\ ReplayInv
      /\ pc = "scan" /\ pc' = "done" /\ Exhausted
      /\ UNCHANGED <<scene, replaying, original, sched, index, current,
                     attempts, trace>>
      /\ Len(sched) \in Nat
      /\ index \in 1..Len(sched) + 1
  BY DEF IInv, Return, TypeOK, Schedule
<1>2. Target' = Target
  BY <1>1 DEF Target
<1>3. ReplayInv'
  BY <1>1, ReplayRests
<1>4. TypeOK'
  BY <1>1, <1>3 DEF TypeOK, ReplayInv
<1>5. CurrentIsEvidence' /\ current'.schedule # <<>>
  BY <1>1, <1>2 DEF IInv, CurrentIsEvidence
<1>6. PassedAreNeeded'
  <2>1. ASSUME Len(sched) > 1, NEW n \in 1..Len(sched)
        PROVE  ~Fails(scene, Without(sched, n), Target)
    <3>1. n \in 1..index-1
      BY <1>1, <2>1, AllPassed DEF Exhausted
    <3>2. QED
      BY <1>1, <2>1, <3>1 DEF IInv, PassedAreNeeded
  <2>2. QED
    BY <1>1, <1>2, <2>1 DEF PassedAreNeeded
<1>7. QED
  BY <1>1, <1>3, <1>4, <1>5, <1>6 DEF IInv, RefusedFailsNot

LEMMA StutterOK == IInv /\ UNCHANGED vars => IInv'
<1> SUFFICES ASSUME IInv, UNCHANGED vars PROVE IInv'
  OBVIOUS
<1>1. /\ UNCHANGED <<scene, replaying>>
      /\ UNCHANGED <<script, pc, original, sched, index, current, attempts,
                     trace>>
  BY DEF vars, between, replaying
<1>2. ReplayInv'
  BY <1>1, ReplayRests DEF IInv
<1>3. TypeOK'
  BY <1>1, <1>2 DEF IInv, TypeOK, ReplayInv
<1>4. CurrentIsEvidence' /\ PassedAreNeeded' /\ RefusedFailsNot'
  BY <1>1 DEF IInv, CurrentIsEvidence, PassedAreNeeded, RefusedFailsNot, Target
<1>5. QED
  BY <1>1, <1>2, <1>3, <1>4 DEF IInv

LEMMA StepOK == IInv /\ [Next]_vars => IInv'
BY ReplayingOK, RefusingOK, TryingOK, AdoptingOK, KeepOK, ReturnOK, StutterOK
   DEF Next

LEMMA Invariance == Spec => []IInv
BY InitOK, StepOK, PTL DEF Spec

-----------------------------------------------------------------------------
(* Theorems. *)

\* Every variable keeps its type and its use: in particular, no candidate is
\* ever empty, and every trial is of the schedule that removeAt built.
THEOREM TypeCorrect == Spec => []TypeOK
<1>1. IInv => TypeOK
  BY DEF IInv
<1>2. QED
  BY Invariance, <1>1, PTL

\* Each replay, at every moment, has executed the beginning of its schedule,
\* and its verdict is that of the states it went through (replay.Run).
THEOREM ReplaysAreFaithful == Spec => []ReplayIsFaithful
<1>1. IInv => ReplayIsFaithful
  BY DEF IInv, ReplayInv
<1>2. QED
  BY Invariance, <1>1, PTL

\* The witness Minimize holds is evidence of the violation it was given, and
\* belongs to the schedule it is shortening (minimize.go:78-95).
THEOREM CurrentStaysEvidence == Spec => []CurrentIsEvidence
<1>1. IInv => CurrentIsEvidence
  BY DEF IInv
<1>2. QED
  BY Invariance, <1>1, PTL

\* The current witness shows how each schedule it is a part of fails.
LEMMA EvidenceFails ==
    ASSUME IInv, pc \in {"scan", "trial", "done"},
           NEW schedule \in Schedule, IsPrefixOf(current.schedule, schedule)
    PROVE  Fails(scene, schedule, Target)
<1> DEFINE k == Len(current.schedule)
<1>1. /\ current.schedule \in Schedule /\ current.schedule # <<>>
      /\ trace \in Seq(State(scene))
      /\ IsRun(scene, trace, current.schedule)
      /\ CleanUpTo(scene, trace, Len(trace) - 1)
      /\ Violates(scene, trace[Len(trace)])
      /\ current = Check(scene, trace[Len(trace)], current.schedule)
      /\ current.invariant = Target
  BY DEF IInv, TypeOK, Witness, CurrentIsEvidence
<1>2. k \in Nat /\ k # 0
  BY <1>1, EmptySeq DEF Schedule
<1>3. Len(trace) = k + 1 /\ Len(trace) - 1 = k
  BY <1>1, <1>2 DEF IsRun
<1>4. k \in 1..Len(schedule) /\ current.schedule = SubSeq(schedule, 1, k)
  BY <1>2 DEF IsPrefixOf, Schedule
<1> HIDE DEF k
<1>5. QED
  BY <1>1, <1>3, <1>4 DEF Fails

\* The witness returned ends where the violation is: its last transition is
\* needed, so a replay cannot stop before it.
LEMMA NothingIsLeft == IInv => NothingAfterViolation
<1> SUFFICES ASSUME IInv, pc = "done", current.schedule # sched PROVE FALSE
  BY DEF NothingAfterViolation
<1> DEFINE k == Len(current.schedule)
           l == Len(sched)
           w == SubSeq(sched, 1, l - 1)
<1>1. /\ sched \in Schedule /\ current.schedule \in Schedule
      /\ current.schedule # <<>>
      /\ k <= l /\ current.schedule = SubSeq(sched, 1, k)
  BY DEF IInv, TypeOK, Witness, CurrentIsEvidence, IsPrefixOf
<1>2. k \in Nat \ {0} /\ l \in Nat /\ sched \in Seq(Transition)
  BY <1>1, EmptySeq DEF Schedule
<1>3. k # l
  BY <1>1, <1>2, SubSeqFull
<1>4. l > 1 /\ l \in 1..l /\ k <= l - 1
  BY <1>1, <1>2, <1>3
<1>5. w \in Schedule /\ Len(w) = l - 1
  BY <1>2, <1>4 DEF Schedule
<1>6. SubSeq(w, 1, k) = current.schedule
  <2>1. \A i \in 1..l-1 : w[i] = sched[i]
    BY <1>2, <1>4
  <2>2. SubSeq(w, 1, k) = SubSeq(sched, 1, k)
    BY <1>2, <1>4, <1>5, <2>1 DEF Schedule
  <2>3. QED
    BY <1>1, <2>2
<1>7. IsPrefixOf(current.schedule, w)
  BY <1>4, <1>5, <1>6 DEF IsPrefixOf
<1>8. Fails(scene, w, Target)
  BY <1>5, <1>7, EvidenceFails
<1>9. w = Without(sched, l)
  BY <1>1, <1>2, <1>4, EmptySeq, WithoutLast
<1>10. QED
  BY <1>4, <1>8, <1>9 DEF IInv, PassedAreNeeded

\* What is returned has nothing after the violation (minimize_test.go:116-117).
THEOREM EndsWithViolation == Spec => []NothingAfterViolation
BY Invariance, NothingIsLeft, PTL

\* 1-minimality (minimize.go:4-5), in terms of executions: the witness returned
\* fails the invariant aimed at, and with any one of its transitions removed it
\* does not.
Minimal ==
    pc = "done" =>
        /\ Fails(scene, current.schedule, Target)
        /\ Len(current.schedule) > 1 =>
              \A n \in 1..Len(current.schedule) :
                  ~Fails(scene, Without(current.schedule, n), Target)

\* The schedule Minimize returns is 1-minimal, for every scene, every witness
\* and every number of removals (minimize.go:78-113).
THEOREM ReturnsMinimal == Spec => []Minimal
<1>1. IInv => Minimal
  <2> SUFFICES ASSUME IInv, pc = "done" PROVE Minimal
    BY DEF Minimal
  <2>1. current.schedule = sched /\ sched \in Schedule
    BY NothingIsLeft DEF NothingAfterViolation, IInv, TypeOK
  <2>2. IsPrefixOf(sched, sched)
    BY <2>1, SubSeqFull DEF IsPrefixOf, Schedule
  <2>3. Fails(scene, current.schedule, Target)
    BY <2>1, <2>2, EvidenceFails
  <2>4. QED
    BY <2>1, <2>3 DEF IInv, PassedAreNeeded, Minimal
<1>2. QED
  BY Invariance, <1>1, PTL

\* A witness that does fail the invariant it names is never refused
\* (minimize.go:62-75).
THEOREM RefusalIsRight == Spec => []RefusedFailsNot
<1>1. IInv => RefusedFailsNot
  BY DEF IInv
<1>2. QED
  BY Invariance, <1>1, PTL

-----------------------------------------------------------------------------
(* What is removed, and in how many replays. *)

LEMMA Whole ==
    ASSUME NEW s \in Schedule
    PROVE  IsPartOf(s, s)
<1>1. Len(s) \in Nat
  BY DEF Schedule
<1> DEFINE at == [i \in 1..Len(s) |-> i]
<1>2. /\ at \in [1..Len(s) -> 1..Len(s)]
      /\ \A i, k \in 1..Len(s) : i < k => at[i] < at[k]
      /\ \A i \in 1..Len(s) : s[i] = s[at[i]]
  BY <1>1
<1>3. QED
  BY <1>2 DEF IsPartOf

\* removeAt takes out one position and leaves the others in their order.
LEMMA WithoutAt ==
    ASSUME NEW s \in Schedule, NEW n \in 1..Len(s), NEW i \in 1..Len(s)-1
    PROVE  Without(s, n)[i] = s[IF i < n THEN i ELSE i + 1]
<1>1. Len(s) \in Nat /\ n \in Nat /\ i \in Nat /\ s \in Seq(Transition)
  BY DEF Schedule
<1> DEFINE a == SubSeq(s, 1, n-1)
           b == SubSeq(s, n+1, Len(s))
<1>2. /\ a \in Seq(Transition) /\ Len(a) = n - 1
      /\ b \in Seq(Transition) /\ Len(b) = Len(s) - n
      /\ i < n => a[i] = s[i]
      /\ ~(i < n) => b[i - (n - 1)] = s[i + 1]
  BY <1>1
<1>3. Without(s, n) = a \o b
  BY DEF Without
<1> HIDE DEF a, b
<1>4. i \in 1..Len(a) + Len(b)
  BY <1>1, <1>2
<1>5. (a \o b)[i] = IF i <= Len(a) THEN a[i] ELSE b[i - Len(a)]
  BY <1>2, <1>4, ConcatProperties
<1>6. i <= Len(a) <=> i < n
  BY <1>1, <1>2
<1>7. QED
  BY <1>2, <1>3, <1>5, <1>6

LEMMA PartWithout ==
    ASSUME NEW s \in Schedule, NEW t \in Schedule, NEW n \in 1..Len(s),
           IsPartOf(s, t)
    PROVE  IsPartOf(Without(s, n), t)
<1>1. PICK at \in [1..Len(s) -> 1..Len(t)] :
         /\ \A i, k \in 1..Len(s) : i < k => at[i] < at[k]
         /\ \A i \in 1..Len(s) : s[i] = t[at[i]]
  BY DEF IsPartOf
<1>2. Len(s) \in Nat /\ n \in Nat /\ Len(t) \in Nat
  BY DEF Schedule
<1>3. Len(Without(s, n)) = Len(s) - 1
  BY WithoutType
<1> DEFINE skip(i) == IF i < n THEN i ELSE i + 1
           to == [i \in 1..Len(s)-1 |-> at[skip(i)]]
<1>4. \A i \in 1..Len(s)-1 : skip(i) \in 1..Len(s)
  BY <1>2
<1>5. \A i, k \in 1..Len(s)-1 : i < k => skip(i) < skip(k)
  BY <1>2
<1> HIDE DEF skip
<1>6. to \in [1..Len(s)-1 -> 1..Len(t)]
  BY <1>1, <1>4
<1>7. \A i, k \in 1..Len(s)-1 : i < k => to[i] < to[k]
  BY <1>1, <1>4, <1>5
<1>8. \A i \in 1..Len(s)-1 : Without(s, n)[i] = t[to[i]]
  <2>1. ASSUME NEW i \in 1..Len(s)-1
        PROVE  Without(s, n)[i] = t[to[i]]
    <3>1. Without(s, n)[i] = s[skip(i)]
      BY WithoutAt DEF skip
    <3>2. QED
      BY <1>1, <1>4, <3>1
  <2>2. QED
    BY <2>1
<1>9. QED
  BY <1>3, <1>6, <1>7, <1>8 DEF IsPartOf

Twice(k) == k * (k + 1)     \* twice the sum of 1..k

LEMMA TwiceIsSum ==
    ASSUME NEW k \in Nat
    PROVE  /\ Twice(k) \in Nat
           /\ Twice(k) >= 2 * k
           /\ k # 0 => Twice(k) = Twice(k - 1) + 2 * k
<1>1. Twice(k) = k * k + k
  BY DEF Twice
<1>2. k * k \in Nat /\ (k = 0 \/ k * k >= k)
  OBVIOUS
<1>3. k # 0 => Twice(k - 1) = k * k - k
  BY DEF Twice
<1>4. QED
  BY <1>1, <1>2, <1>3

\* What is being shortened is part of what was given, and each replay so far
\* belongs to a position that was passed, in this scan or before a removal.
Progress ==
    LET n == Len(original.schedule)
        m == Len(sched)
        most == 2 + Twice(n) - Twice(m)
    IN  /\ pc \in {"scan", "trial", "done"} =>
              IsPartOf(sched, original.schedule)
        /\ pc = "start" => attempts = 0
        /\ pc \in {"verify", "refused"} => attempts <= 1
        /\ pc \in {"scan", "done"} => 2 * attempts <= most + 2 * (index - 1)
        /\ pc = "trial" => 2 * attempts <= most + 2 * index

LEMMA ProgressStep ==
    ASSUME IInv, Progress, Next \/ UNCHANGED vars
    PROVE  Progress'
<1> DEFINE n == Len(original.schedule)
           m == Len(sched)
<1>1. /\ n \in Nat /\ m \in Nat /\ index \in 1..m+1 /\ attempts \in Nat
      /\ sched \in Schedule /\ original.schedule \in Schedule
  BY DEF IInv, TypeOK, Witness, Schedule
<1>2. Twice(n) \in Nat /\ Twice(m) \in Nat
  BY <1>1, TwiceIsSum
<1>3. UNCHANGED original
  <2>1. CASE Replaying \/ UNCHANGED vars
    BY <2>1 DEF Replaying, vars, between
  <2>2. ASSUME RefuseInput \/ RefuseOriginal
        PROVE  UNCHANGED <<scene, replaying, original, sched, index, current,
                           attempts, trace>>
    BY <2>2 DEF RefuseInput, RefuseOriginal
  <2>3. ASSUME Verify \/ Try
        PROVE  UNCHANGED <<scene, original, sched, index, current, trace>>
    BY <2>3 DEF Verify, Try
  <2>4. Adopt \/ Remove \/ Keep \/ Return => UNCHANGED original
    BY DEF Adopt, Remove, Keep, Return
  <2>5. QED
    BY <2>1, <2>2, <2>3, <2>4 DEF Next
<1>4. CASE Replaying \/ UNCHANGED vars
  BY <1>4 DEF Progress, Replaying, vars, between
<1>5. CASE RefuseInput \/ RefuseOriginal
  <2>1. /\ pc \in {"start", "verify"} /\ pc' = "refused"
        /\ UNCHANGED <<scene, replaying, original, sched, index, current,
                       attempts, trace>>
    BY <1>5 DEF RefuseInput, RefuseOriginal
  <2>2. attempts <= 1
    BY <2>1 DEF Progress
  <2>3. QED
    BY <2>1, <2>2 DEF Progress
<1>6. CASE Verify
  <2>1. /\ pc = "start" /\ pc' = "verify" /\ attempts' = attempts + 1
        /\ original.schedule \in Schedule
    BY <1>1, <1>6 DEF Verify, Evaluate
  <2>2. attempts' <= 1
    BY <2>1 DEF Progress
  <2>3. QED
    BY <2>1, <2>2 DEF Progress
<1>7. CASE Adopt
  <2>1. attempts <= 1 /\ attempts' = attempts /\ index' = 1 /\ pc' = "scan"
    BY <1>7 DEF Progress, Adopt
  <2>2. sched' = original.schedule /\ IsPartOf(sched', original.schedule)
    BY <1>1, <1>7, Whole DEF Adopt
  <2>3. 2 * attempts' <= 2 + Twice(n) - Twice(n) + 2 * (1 - 1)
    BY <1>1, <1>2, <2>1
  <2>4. QED
    BY <1>3, <2>1, <2>2, <2>3 DEF Progress
<1>8. CASE Try
  <2>1. /\ attempts' = attempts + 1 /\ UNCHANGED <<sched, index>>
        /\ pc = "scan" /\ pc' = "trial"
    BY <1>8 DEF Try, Evaluate
  <2>2. 2 * attempts' <= 2 + Twice(n) - Twice(m) + 2 * index
    <3>1. 2 * attempts <= 2 + Twice(n) - Twice(m) + 2 * (index - 1)
      BY <2>1 DEF Progress
    <3> HIDE DEF n, m
    <3>2. QED
      BY <1>1, <1>2, <2>1, <3>1
  <2>3. QED
    BY <1>3, <2>1, <2>2 DEF Progress
<1>9. CASE Remove
  <2>1. /\ UNCHANGED attempts /\ index' = 1 /\ sched' = Without(sched, index)
        /\ pc = "trial" /\ pc' = "scan" /\ index \in 1..m
    BY <1>1, <1>9 DEF Remove, IInv, TypeOK
  <2>2. IsPartOf(sched', original.schedule) /\ Len(sched') = m - 1
    BY <1>1, <2>1, PartWithout, WithoutType DEF Progress
  <2>3. 2 * attempts <= 2 + Twice(n) - Twice(m) + 2 * index
    BY <2>1 DEF Progress
  <2>4. Twice(m) = Twice(m - 1) + 2 * m /\ Twice(m - 1) \in Nat
    BY <1>1, <2>1, TwiceIsSum
  <2>5. 2 * attempts' <= 2 + Twice(n) - Twice(m - 1) + 2 * (1 - 1)
    <3> HIDE DEF n, m
    <3>1. /\ attempts \in Nat /\ index \in Nat /\ m \in Nat /\ index <= m
          /\ Twice(n) \in Nat
      BY <1>1, <1>2, <2>1
    <3>2. QED
      BY <2>1, <2>3, <2>4, <3>1
  <2>6. QED
    BY <1>3, <2>1, <2>2, <2>5 DEF Progress
<1>10. CASE Keep
  <2>1. /\ UNCHANGED <<attempts, sched>> /\ index' = index + 1
        /\ pc = "trial" /\ pc' = "scan"
    BY <1>10 DEF Keep
  <2>2. 2 * attempts' <= 2 + Twice(n) - Twice(m) + 2 * ((index + 1) - 1)
    <3>1. 2 * attempts <= 2 + Twice(n) - Twice(m) + 2 * index
      BY <2>1 DEF Progress
    <3> HIDE DEF n, m
    <3>2. QED
      BY <1>1, <1>2, <2>1, <3>1
  <2>3. QED
    BY <1>3, <2>1, <2>2 DEF Progress
<1>11. CASE Return
  BY <1>11 DEF Progress, Return
<1>12. QED
  BY <1>4, <1>5, <1>6, <1>7, <1>8, <1>9, <1>10, <1>11 DEF Next

LEMMA ProgressAlways == Spec => []Progress
<1>1. Init => Progress
  BY DEF Init, Progress
<1>2. QED
  BY <1>1, ProgressStep, Invariance, PTL DEF Spec

\* The witness returned is the one given with transitions left out, in their
\* order (minimize.go:136-141).
THEOREM ReturnsPart == Spec => []OnlyRemoves
<1>1. IInv /\ Progress => OnlyRemoves
  BY NothingIsLeft DEF Progress, OnlyRemoves, NothingAfterViolation
<1>2. QED
  BY <1>1, ProgressAlways, Invariance, PTL

\* Minimize makes at most one replay for each position of each schedule it
\* shortens, and one for the witness given (minimize.go:82-105).
THEOREM ReplaysAreBounded == Spec => []AttemptsBounded
<1>1. IInv /\ Progress => AttemptsBounded
  <2> SUFFICES ASSUME IInv, Progress
               PROVE  AttemptsBounded
    OBVIOUS
  <2> DEFINE n == Len(original.schedule)
             m == Len(sched)
  <2>1. /\ n \in Nat /\ m \in Nat /\ index \in 1..m+1 /\ attempts \in Nat
    BY DEF IInv, TypeOK, Witness, Schedule
  <2>5. /\ Twice(n) \in Nat /\ Twice(m) \in Nat /\ Twice(m) >= 2 * m
    BY <2>1, TwiceIsSum
  <2> HIDE DEF n, m
  <2>2. 2 * attempts <= 2 + Twice(n)
    <3>1. CASE pc \in {"scan", "done"}
      <4>1. 2 * attempts <= 2 + Twice(n) - Twice(m) + 2 * (index - 1)
        BY <3>1 DEF Progress, n, m
      <4>2. QED
        BY <2>1, <2>5, <4>1
    <3>2. CASE pc = "trial"
      <4>1. 2 * attempts <= 2 + Twice(n) - Twice(m) + 2 * index /\ index <= m
        BY <3>2 DEF Progress, IInv, TypeOK, n, m
      <4>2. QED
        BY <2>1, <2>5, <4>1
    <3>3. CASE pc \in {"start", "verify", "refused"}
      <4>1. attempts <= 1
        BY <3>3 DEF Progress
      <4>2. QED
        BY <2>1, <2>5, <4>1
    <3>4. QED
      BY <3>1, <3>2, <3>3 DEF IInv, TypeOK
  <2>3. attempts <= 1 + Twice(n) \div 2
    BY <2>1, <2>2, <2>5
  <2>4. QED
    BY <2>3 DEF AttemptsBounded, Twice, n
<1>2. QED
  BY <1>1, ProgressAlways, Invariance, PTL

-----------------------------------------------------------------------------
(* Failure, computed. *)

LEMMA FailsReaches ==
    ASSUME NEW sc \in Scene, NEW schedule \in Schedule, NEW name
    PROVE  Fails(sc, schedule, name) <=>
              \E m \in 1..Len(schedule) : \E s :
                 /\ Reaches(sc, schedule, m, s)
                 /\ Violates(sc, s)
                 /\ Check(sc, s, SubSeq(schedule, 1, m)).invariant = name
<1>1. ASSUME Fails(sc, schedule, name)
      PROVE  \E m \in 1..Len(schedule) : \E s :
                 /\ Reaches(sc, schedule, m, s)
                 /\ Violates(sc, s)
                 /\ Check(sc, s, SubSeq(schedule, 1, m)).invariant = name
  BY <1>1 DEF Fails, Reaches
<1>2. ASSUME NEW m \in 1..Len(schedule), NEW s,
             Reaches(sc, schedule, m, s), Violates(sc, s),
             Check(sc, s, SubSeq(schedule, 1, m)).invariant = name
      PROVE  Fails(sc, schedule, name)
  <2>1. PICK p \in Seq(State(sc)) : /\ IsRun(sc, p, SubSeq(schedule, 1, m))
                                    /\ CleanUpTo(sc, p, m)
                                    /\ p[m+1] = s
    BY <1>2 DEF Reaches
  <2>2. QED
    BY <1>2, <2>1 DEF Fails
<1>3. QED
  BY <1>1, <1>2

LEMMA NoWitnessNamesNone == NoWitness.invariant = ""
BY Zenon DEF NoWitness

\* FailureOf computes what Fails says.
LEMMA FailureComputed ==
    ASSUME NEW sc \in Scene, NEW schedule \in Schedule,
           NEW name, name # NoWitness.invariant
    PROVE  FailureOf(sc, schedule) = name <=> Fails(sc, schedule, name)
<1>1. ASSUME NEW m \in 1..Len(schedule), NEW s,
             Reaches(sc, schedule, m, s), Violates(sc, s)
      PROVE  FailureOf(sc, schedule) = Check(sc, s, SubSeq(schedule, 1, m)).invariant
  BY <1>1, WitnessOfReached DEF FailureOf
<1>2. ASSUME Fails(sc, schedule, name)
      PROVE  FailureOf(sc, schedule) = name
  BY <1>1, <1>2, FailsReaches
<1>3. ASSUME FailureOf(sc, schedule) = name
      PROVE  Fails(sc, schedule, name)
  <2>1. WitnessOf(sc, schedule) # NoWitness
    BY <1>3 DEF FailureOf
  <2>2. PICK m \in 1..Len(schedule) :
           \E s : Reaches(sc, schedule, m, s) /\ Violates(sc, s)
    BY <2>1, WitnessOfReached
  <2> PICK s : Reaches(sc, schedule, m, s) /\ Violates(sc, s)
    BY <2>2
  <2>3. Check(sc, s, SubSeq(schedule, 1, m)).invariant = name
    BY <1>1, <1>3
  <2>4. QED
    BY <2>3, FailsReaches
<1>4. QED
  BY <1>2, <1>3

\* Minimize goes on only if it has something to aim at.
TargetIsGiven == pc \in {"start", "refused"} \/ Target # ""

LEMMA TargetStaysGiven == Spec => []TargetIsGiven
<1>1. Init => TargetIsGiven
  BY DEF Init, TargetIsGiven
<1>2. TargetIsGiven /\ [Next]_vars => TargetIsGiven'
  BY DEF TargetIsGiven, Target, Next, vars, between, Replaying, RefuseInput,
         Verify, RefuseOriginal, Adopt, Try, Remove, Keep, Return
<1>3. QED
  BY <1>1, <1>2, PTL DEF Spec

\* 1-minimality as the run computes it: replaying the witness returned without
\* any one of its transitions does not fail the same invariant
\* (minimize.go:4-5, 78-113).
THEOREM OneMinimalAlways == Spec => []OneMinimal
<1>1. IInv /\ Minimal /\ TargetIsGiven => OneMinimal
  <2> SUFFICES ASSUME IInv, Minimal, TargetIsGiven,
                      pc = "done", Len(current.schedule) > 1,
                      NEW n \in 1..Len(current.schedule)
               PROVE  FailureOf(scene, Without(current.schedule, n)) # Target
    BY DEF OneMinimal
  <2>1. ~Fails(scene, Without(current.schedule, n), Target)
    BY DEF Minimal
  <2>2. scene \in Scene /\ current.schedule \in Schedule /\ Target # ""
    BY DEF IInv, TypeOK, ReplayTypeOK, Witness, TargetIsGiven
  <2>3. Without(current.schedule, n) \in Schedule
    BY <2>2, WithoutType
  <2>4. QED
    BY <2>1, <2>2, <2>3, NoWitnessNamesNone, FailureComputed
<1>2. QED
  BY <1>1, Invariance, ReturnsMinimal, TargetStaysGiven, PTL

\* Minimize refuses a witness only if there is nothing to aim at, or replaying
\* it does not fail what it names (minimize.go:62-75).
THEOREM RefusesRightly == Spec => []RefusesOnlyTheRest
<1>1. IInv => RefusesOnlyTheRest
  <2> SUFFICES ASSUME IInv, pc = "refused", Target # ""
               PROVE  FailureOf(scene, original.schedule) # Target
    BY DEF RefusesOnlyTheRest
  <2>1. ~Fails(scene, original.schedule, Target)
    BY DEF IInv, RefusedFailsNot
  <2>2. scene \in Scene /\ original.schedule \in Schedule
    BY DEF IInv, TypeOK, ReplayTypeOK, Witness
  <2>3. QED
    BY <2>1, <2>2, NoWitnessNamesNone, FailureComputed
<1>2. QED
  BY <1>1, Invariance, PTL

-----------------------------------------------------------------------------
(* Evidence, and what replaying it shows. *)

\* The schedule of w leads, through states that violate nothing, to one that
\* fails the check w reports.
Reproduces(sc, w) ==
    \E p \in Seq(State(sc)) :
        /\ IsRun(sc, p, w.schedule)
        /\ CleanUpTo(sc, p, Len(p) - 1)
        /\ Violates(sc, p[Len(p)])
        /\ w = Check(sc, p[Len(p)], w.schedule)
        /\ w.schedule # <<>>

\* What a replay that failed has found, and what Minimize returns, is evidence.
LEMMA FoundReproduces ==
    ASSUME ReplayInv, outcome = "failed"
    PROVE  found \in Witness /\ Reproduces(scene, found) /\ found.schedule = taken
<1>1. /\ scene \in Scene /\ path \in Seq(State(scene)) /\ found \in Witness
      /\ state \in State(scene) /\ taken \in Schedule /\ taken # <<>>
      /\ IsRun(scene, path, taken) /\ path[Len(path)] = state
      /\ CleanUpTo(scene, path, Len(path) - 1)
      /\ Violates(scene, state) /\ found = Check(scene, state, taken)
  BY DEF ReplayInv, ReplayTypeOK, ReplayIsFaithful
<1>2. found.schedule = taken
  BY <1>1, CheckFails
<1>3. QED
  BY <1>1, <1>2 DEF Reproduces

LEMMA CurrentReproduces ==
    ASSUME IInv, pc = "done"
    PROVE  Reproduces(scene, current)
BY DEF IInv, TypeOK, CurrentIsEvidence, Reproduces

LEMMA EvidenceIsFailure ==
    ASSUME NEW sc \in Scene, NEW w \in Witness, Reproduces(sc, w)
    PROVE  Fails(sc, w.schedule, w.invariant)
<1>1. PICK p \in Seq(State(sc)) :
        /\ IsRun(sc, p, w.schedule)
        /\ CleanUpTo(sc, p, Len(p) - 1)
        /\ Violates(sc, p[Len(p)])
        /\ w = Check(sc, p[Len(p)], w.schedule)
        /\ w.schedule # <<>>
  BY DEF Reproduces
<1> DEFINE k == Len(w.schedule)
<1>2. /\ w.schedule \in Seq(Transition) /\ k \in 1..Len(w.schedule)
      /\ w.schedule = SubSeq(w.schedule, 1, k)
  BY <1>1 DEF Witness, Schedule
<1>3. Len(p) = k + 1 /\ Len(p) - 1 = k
  BY <1>1, <1>2 DEF IsRun
<1> HIDE DEF k
<1>4. QED
  BY <1>1, <1>2, <1>3 DEF Fails

\* A run that goes on after a beginning that violates something is not clean.
LEMMA SameEnd ==
    ASSUME NEW sc \in Scene,
           NEW a \in Schedule, NEW p \in Seq(State(sc)), IsRun(sc, p, a),
           NEW b \in Schedule, NEW q \in Seq(State(sc)), IsRun(sc, q, b),
           a = SubSeq(b, 1, Len(a)), Len(a) <= Len(b), a # <<>>,
           Violates(sc, p[Len(p)]), CleanUpTo(sc, q, Len(q) - 1)
    PROVE  a = b /\ p[Len(p)] = q[Len(q)]
<1> DEFINE k == Len(a)
           l == Len(b)
<1>1. a \in Seq(Transition) /\ b \in Seq(Transition)
  BY DEF Schedule
<1>2. k \in Nat \ {0} /\ l \in Nat /\ k <= l
  BY <1>1
<1>3. Len(p) = k + 1 /\ Len(q) = l + 1
  BY DEF IsRun
<1>4. \A i \in 1..k : a[i] = b[i]
  <2>1. k \in 0..l
    BY <1>2
  <2>2. \A i \in 1..k : SubSeq(b, 1, k)[i] = b[i]
    BY <1>1, <2>1, Beginning
  <2>3. QED
    BY <2>2
<1>5. k <= Len(a) /\ k <= Len(b)
  BY <1>2
<1> HIDE DEF k
<1>6. \A i \in 1..k+1 : p[i] = q[i]
  BY <1>2, <1>4, <1>5, RunsAgree
<1> HIDE DEF l
<1>7. p[Len(p)] = q[k+1]
  BY <1>2, <1>3, <1>6
<1>8. k = l
  <2>1. ASSUME k # l PROVE FALSE
    <3>1. k + 1 \in 2..Len(q) - 1
      BY <1>2, <1>3, <2>1
    <3>2. QED
      BY <1>7, <3>1 DEF CleanUpTo
  <2>2. QED
    BY <2>1
<1>9. a = b
  BY <1>1, <1>8, SubSeqFull DEF k, l
<1>10. QED
  BY <1>3, <1>7, <1>8, <1>9

\* Replaying evidence gives it back: same schedule, check and message.
LEMMA ReplayGivesBack ==
    ASSUME ReplayInv, outcome # "running", NEW w \in Witness,
           script = w.schedule, Reproduces(scene, w)
    PROVE  outcome = "failed" /\ found = w
<1>1. scene \in Scene
  BY DEF ReplayInv, ReplayTypeOK
<1>2. outcome = "failed"
  BY <1>1, EvidenceIsFailure, FailureIsFound
<1>3. PICK p \in Seq(State(scene)) :
        /\ IsRun(scene, p, script)
        /\ CleanUpTo(scene, p, Len(p) - 1)
        /\ w = Check(scene, p[Len(p)], script)
  BY DEF Reproduces
<1>4. /\ script \in Schedule /\ taken \in Schedule /\ path \in Seq(State(scene))
      /\ taken = SubSeq(script, 1, Len(taken)) /\ taken # <<>>
      /\ Len(taken) <= Len(script)
      /\ IsRun(scene, path, taken) /\ path[Len(path)] = state
      /\ Violates(scene, state) /\ found = Check(scene, state, taken)
  BY <1>2 DEF ReplayInv, ReplayTypeOK, ReplayIsFaithful
<1>5. Violates(scene, path[Len(path)])
  BY <1>4
<1>6. taken = script /\ path[Len(path)] = p[Len(p)]
  BY <1>1, <1>3, <1>4, <1>5, SameEnd
<1>7. QED
  BY <1>2, <1>3, <1>4, <1>6

-----------------------------------------------------------------------------
(* For the modules in which Minimize is one of several steps. *)

\* A walk that ends in a violation is evidence of it.
LEMMA WalkReproduces ==
    ASSUME NEW sc \in Scene, NEW schedule \in Schedule, schedule # <<>>,
           NEW s \in State(sc), WalksTo(sc, schedule, s), Violates(sc, s)
    PROVE  /\ Check(sc, s, schedule) \in Witness
           /\ Reproduces(sc, Check(sc, s, schedule))
<1>1. /\ Check(sc, s, schedule) \in Witness
      /\ Check(sc, s, schedule).schedule = schedule
  BY CheckFails
<1>2. QED
  BY <1>1 DEF WalksTo, Reproduces

\* Evidence of a scene where failures have names has one.
LEMMA EvidenceNamed ==
    ASSUME NEW sc \in Scene, Named(sc), NEW w \in Witness, Reproduces(sc, w)
    PROVE  w.invariant # ""
<1>1. PICK p \in Seq(State(sc)) :
        /\ IsRun(sc, p, w.schedule)
        /\ Violates(sc, p[Len(p)])
        /\ w = Check(sc, p[Len(p)], w.schedule)
  BY DEF Reproduces
<1>2. w.schedule \in Seq(Transition)
  BY DEF Witness, Schedule
<1>3. p[Len(p)] \in State(sc)
  BY <1>1, <1>2 DEF IsRun
<1>4. QED
  BY <1>1, <1>3, CheckNamed, Zenon

\* Minimize keeps to its scene and to its witness.
LEMMA NextKeeps == IInv /\ Next => UNCHANGED <<scene, original>>
<1> SUFFICES ASSUME IInv, Next PROVE UNCHANGED <<scene, original>>
  OBVIOUS
<1>1. CASE Replaying
  BY <1>1, ReplayStepOK DEF IInv, Replaying, between
<1>2. CASE ~Replaying
  BY <1>2 DEF Next, RefuseInput, Verify, RefuseOriginal, Adopt, Try, Remove,
              Keep, Return
<1>3. QED
  BY <1>1, <1>2

\* A witness that is evidence, and has a name, is not refused.
LEMMA EvidenceAccepted ==
    ASSUME IInv, Named(scene), Reproduces(scene, original)
    PROVE  pc # "refused"
<1>1. scene \in Scene /\ original \in Witness
  BY DEF IInv, TypeOK, ReplayTypeOK
<1>2. Target # ""
  BY <1>1, EvidenceNamed DEF Target
<1>3. Fails(scene, original.schedule, Target)
  BY <1>1, EvidenceIsFailure DEF Target
<1>4. QED
  BY <1>2, <1>3 DEF IInv, RefusedFailsNot

\* Once Minimize has returned, other replays may be made.
LEMMA ReturnedRests ==
    ASSUME IInv, pc = "done", ReplayInv', scene' = scene, UNCHANGED between
    PROVE  IInv'
<1>1. UNCHANGED <<pc, original, sched, index, current, attempts, trace>>
  BY DEF between
<1>2. Target' = Target
  BY <1>1 DEF Target
<1>3. TypeOK'
  BY <1>1 DEF IInv, TypeOK, ReplayInv
<1>4. CurrentIsEvidence' /\ PassedAreNeeded' /\ RefusedFailsNot'
  BY <1>1, <1>2 DEF IInv, CurrentIsEvidence, PassedAreNeeded, RefusedFailsNot,
                    Without
<1>5. QED
  BY <1>1, <1>3, <1>4 DEF IInv
=============================================================================
