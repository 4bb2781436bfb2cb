--------------------------- MODULE ScenarioProofs ---------------------------
(* Facts about scenes, checks and executions that every search rests on.     *)
EXTENDS Scenario, SequenceTheorems, WellFoundedInduction, TLAPS

\* A nonempty set of numbers has a least element.
LEMMA LeastNumber ==
    ASSUME NEW N \in SUBSET Nat, N # {}
    PROVE  \E m \in N : \A n \in N : m <= n
<1>1. \E m \in N : \A n \in N : ~(<<n, m>> \in OpToRel(<, Nat))
  BY NatLessThanWellFounded, WFMin
<1>2. PICK m \in N : \A n \in N : ~(<<n, m>> \in OpToRel(<, Nat))
  BY <1>1
<1>3. ASSUME NEW n \in N, n < m
      PROVE  <<n, m>> \in OpToRel(<, Nat)
  BY <1>3 DEF OpToRel
<1>4. \A n \in N : ~(n < m)
  BY <1>2, <1>3
<1>5. QED
  BY <1>4

\* Induction, for sets.
LEMMA AllNumbers ==
    ASSUME NEW N, 0 \in N, \A n \in Nat : n \in N => n + 1 \in N
    PROVE  Nat \subseteq N
<1> DEFINE Left == Nat \ N
<1>1. ASSUME Left # {} PROVE FALSE
  <2>1. PICK m \in Left : \A n \in Left : m <= n
    BY <1>1, LeastNumber
  <2>2. m \in Nat \ {0} /\ m - 1 \in Nat /\ m - 1 \notin Left
    BY <2>1
  <2>3. (m - 1) + 1 \in N
    BY <2>2
  <2>4. QED
    BY <2>2, <2>3
<1>2. QED
  BY <1>1

\* f starts at c and takes step n to get to n.
Follows(f, c, step) ==
    f[0] = c /\ \A n \in Nat : f[n+1] = step[n+1][f[n]]

\* There is such a function.
LEMMA Recursion ==
    ASSUME NEW D, NEW c \in D, NEW step \in [Nat -> [D -> D]]
    PROVE  \E f \in [Nat -> D] : Follows(f, c, step)
<1> DEFINE Upto(n) == {g \in [0..n -> D] :
                         /\ g[0] = c
                         /\ \A i \in 0..n-1 : g[i+1] = step[i+1][g[i]]}
<1>1. \A n \in Nat : Upto(n) # {}
  <2> DEFINE N == {n \in Nat : Upto(n) # {}}
  <2>1. 0 \in N
    <3>1. [i \in 0..0 |-> c] \in Upto(0)
      OBVIOUS
    <3>2. QED
      BY <3>1
  <2>2. ASSUME NEW n \in Nat, n \in N PROVE n + 1 \in N
    <3>1. PICK g : g \in Upto(n)
      BY <2>2
    <3> DEFINE h == [i \in 0..n+1 |-> IF i = n+1 THEN step[n+1][g[n]] ELSE g[i]]
    <3>2. g \in [0..n -> D] /\ n \in 0..n /\ g[n] \in D
      BY <3>1
    <3>3. step[n+1][g[n]] \in D
      BY <3>2
    <3>4. h \in [0..n+1 -> D] /\ h[0] = c
      BY <3>1, <3>2, <3>3
    <3>5. ASSUME NEW i \in 0..(n+1)-1 PROVE h[i+1] = step[i+1][h[i]]
      BY <3>1
    <3>6. h \in Upto(n+1)
      BY <3>4, <3>5
    <3> HIDE DEF Upto, h
    <3>7. QED
      BY <3>6
  <2> HIDE DEF N
  <2>3. Nat \subseteq N
    BY <2>1, <2>2, AllNumbers
  <2>4. QED
    BY <2>3 DEF N
<1>2. ASSUME NEW n \in Nat, NEW m \in Nat, NEW g \in Upto(n), NEW h \in Upto(m),
             NEW k \in Nat, k <= n, k <= m
      PROVE  g[k] = h[k]
  <2> DEFINE N == {i \in Nat : i <= k => g[i] = h[i]}
  <2>1. 0 \in N
    OBVIOUS
  <2>2. ASSUME NEW i \in Nat, i \in N PROVE i + 1 \in N
    <3>1. CASE i + 1 <= k
      <4>1. i \in 0..n-1 /\ i \in 0..m-1 /\ g[i] = h[i]
        BY <1>2, <2>2, <3>1
      <4>2. g[i+1] = step[i+1][g[i]] /\ h[i+1] = step[i+1][h[i]]
        BY <4>1
      <4>3. QED
        BY <4>1, <4>2
    <3>2. QED
      BY <3>1
  <2> HIDE DEF N
  <2>3. Nat \subseteq N
    BY <2>1, <2>2, AllNumbers
  <2>4. QED
    BY <2>3 DEF N
<1> HIDE DEF Upto
<1> DEFINE f == [n \in Nat |-> (CHOOSE g : g \in Upto(n))[n]]
<1>3. ASSUME NEW n \in Nat, NEW g \in Upto(n) PROVE f[n] = g[n]
  <2>1. PICK h : h = CHOOSE e : e \in Upto(n)
    OBVIOUS
  <2>2. h \in Upto(n)
    BY <1>1, <2>1
  <2>3. h[n] = g[n]
    BY <1>2, <2>2, n <= n
  <2>4. f[n] = h[n]
    BY <2>1
  <2>5. QED
    BY <2>3, <2>4
<1>4. ASSUME NEW n \in Nat
      PROVE  f[n] \in D /\ f[n+1] = step[n+1][f[n]]
  <2>1. PICK g : g \in Upto(n+1)
    BY <1>1
  <2> DEFINE h == [i \in 0..n |-> g[i]]
  <2>1a. /\ g \in [0..n+1 -> D] /\ g[0] = c
         /\ \A i \in 0..n : g[i+1] = step[i+1][g[i]]
    BY <2>1 DEF Upto
  <2>2. h \in Upto(n)
    BY <2>1a DEF Upto
  <2>3. f[n+1] = g[n+1] /\ f[n] = h[n]
    <3>1. n + 1 \in Nat
      OBVIOUS
    <3> HIDE DEF f, h
    <3>2. QED
      BY <1>3, <2>1, <2>2, <3>1
  <2>4. g[n+1] = step[n+1][g[n]] /\ h[n] = g[n] /\ g[n] \in D
    BY <2>1a
  <2>5. QED
    BY <2>3, <2>4
<1>5. f[0] = c
  <2>1. PICK g : g \in Upto(0)
    BY <1>1
  <2>2. g[0] = c
    BY <2>1 DEF Upto
  <2> HIDE DEF f
  <2>3. QED
    BY <1>3, <2>1, <2>2
<1> HIDE DEF f
<1>6. f \in [Nat -> D]
  BY <1>4 DEF f
<1>7. QED
  BY <1>4, <1>5, <1>6 DEF Follows

LEMMA NoWitnessType == NoWitness \in Witness
<1>1. "" \in Text
  BY TextAssumption
<1>2. <<>> \in Schedule
  BY DEF Schedule
<1>3. QED
  BY <1>1, <1>2 DEF NoWitness, Witness

LEMMA EvidenceType ==
    ASSUME NEW spec \in Spec0, NEW err \in Text, NEW schedule \in Schedule
    PROVE  /\ Evidence(spec, err, schedule) \in Witness
           /\ Evidence(spec, err, schedule).failedAt = Len(schedule)
           /\ Evidence(spec, err, schedule).schedule = schedule
<1>1. Len(schedule) \in Nat
  BY DEF Schedule
<1>2. (IF spec.name = "" THEN err ELSE spec.name) \in Text
  BY DEF Spec0
<1>3. Evidence(spec, err, schedule) \in Witness
  BY <1>1, <1>2 DEF Evidence, Witness
<1>4. /\ Evidence(spec, err, schedule).failedAt = Len(schedule)
      /\ Evidence(spec, err, schedule).schedule = schedule
  BY DEF Evidence
<1>5. QED
  BY <1>3, <1>4

\* A failed check returns a witness that is not NoWitness.
LEMMA CheckFails ==
    ASSUME NEW sc \in Scene, NEW s \in State(sc), NEW schedule \in Schedule,
           Violates(sc, s), schedule # <<>>
    PROVE  /\ Check(sc, s, schedule) \in Witness \ {NoWitness}
           /\ Check(sc, s, schedule).schedule = schedule
           /\ Check(sc, s, schedule).failedAt = Len(schedule)
<1> DEFINE i == CHOOSE m \in Failing(sc, s) : \A n \in Failing(sc, s) : m <= n
<1>1. Failing(sc, s) \in SUBSET Nat /\ Failing(sc, s) # {}
  BY DEF Failing, Violates
<1>2. i \in Failing(sc, s)
  BY <1>1, LeastNumber
<1>3. FirstFailing(sc, s) = Specs(sc)[i]
  BY DEF FirstFailing
<1> HIDE DEF i
<1>4. i \in 1..Len(Specs(sc)) /\ Specs(sc)[i].hold # "nil"
  BY <1>2 DEF Failing
<1>5. /\ FirstFailing(sc, s) \in Spec0
      /\ Err(sc, FirstFailing(sc, s).hold, s) \in Text
  BY <1>3, <1>4, SpecsAssumption
<1>6. Check(sc, s, schedule) =
         Evidence(FirstFailing(sc, s), Err(sc, FirstFailing(sc, s).hold, s),
                  schedule)
  BY DEF Check
<1>7. Check(sc, s, schedule) \in Witness
  BY <1>5, <1>6, EvidenceType
<1>8. Check(sc, s, schedule).failedAt # NoWitness.failedAt
  <2>1. Len(schedule) # 0
    BY EmptySeq DEF Schedule
  <2>2. Check(sc, s, schedule).failedAt = Len(schedule)
    BY <1>5, <1>6, EvidenceType
  <2>3. NoWitness.failedAt = 0
    BY DEF NoWitness
  <2>4. QED
    BY <2>1, <2>2, <2>3
<1>9. /\ Check(sc, s, schedule).schedule = schedule
      /\ Check(sc, s, schedule).failedAt = Len(schedule)
  BY <1>5, <1>6, EvidenceType
<1>10. QED
  BY <1>7, <1>8, <1>9

\* Where failures have names, so has the witness of one.
LEMMA CheckNamed ==
    ASSUME NEW sc \in Scene, Named(sc), NEW s \in State(sc), NEW schedule,
           Violates(sc, s)
    PROVE  Check(sc, s, schedule).invariant # ""
<1> DEFINE i == CHOOSE m \in Failing(sc, s) : \A n \in Failing(sc, s) : m <= n
<1>1. Failing(sc, s) \in SUBSET Nat /\ Failing(sc, s) # {}
  BY DEF Failing, Violates
<1>2. i \in Failing(sc, s)
  BY <1>1, LeastNumber
<1>3. FirstFailing(sc, s) = Specs(sc)[i]
  BY DEF FirstFailing
<1> HIDE DEF i
<1>4. \/ FirstFailing(sc, s).name # ""
      \/ Err(sc, FirstFailing(sc, s).hold, s) # ""
  BY <1>2, <1>3, Zenon DEF Named
<1> DEFINE spec == FirstFailing(sc, s)
           err == Err(sc, FirstFailing(sc, s).hold, s)
<1>5. Check(sc, s, schedule) = Evidence(spec, err, schedule)
  BY DEF Check
<1> HIDE DEF spec, err
<1>6. Evidence(spec, err, schedule).invariant =
         IF spec.name = "" THEN err ELSE spec.name
  BY Zenon DEF Evidence
<1>7. QED
  BY <1>4, <1>5, <1>6, Zenon DEF spec, err

-----------------------------------------------------------------------------
(* Executions. *)

\* A clean execution, one transition further.
LEMMA ExecutionGrows ==
    ASSUME NEW sc \in Scene, NEW schedule \in Schedule,
           NEW path \in Seq(State(sc)), IsRun(sc, path, schedule),
           CleanUpTo(sc, path, Len(path)),
           NEW t \in Enabled(sc, path[Len(path)])
    PROVE  LET s == Apply(sc, path[Len(path)], t)
               longer == Append(schedule, t)
               further == Append(path, s)
           IN  /\ IsRun(sc, further, longer)
               /\ further[Len(further)] = s
               /\ CleanUpTo(sc, further, Len(further) - 1)
               /\ ~Violates(sc, s) => CleanUpTo(sc, further, Len(further))
<1> PICK s, longer, further : /\ s = Apply(sc, path[Len(path)], t)
                              /\ longer = Append(schedule, t)
                              /\ further = Append(path, s)
  OBVIOUS
<1> DEFINE n == Len(schedule)
<1>1. /\ path[Len(path)] \in State(sc)
      /\ schedule \in Seq(Transition)
      /\ path \in Seq(State(sc))
      /\ t \in Transition
      /\ s \in State(sc)
  BY SceneAssumption DEF IsRun, Schedule
<1>2. /\ n \in Nat
      /\ Len(path) = n + 1
      /\ path[1] = Initial(sc)
      /\ \A i \in 1..n : /\ schedule[i] \in Enabled(sc, path[i])
                         /\ path[i+1] = Apply(sc, path[i], schedule[i])
      /\ path[n+1] = path[Len(path)]
      /\ \A i \in 2..n+1 : ~Violates(sc, path[i])
  BY <1>1 DEF IsRun, CleanUpTo
<1>3. /\ Len(longer) = n + 1
      /\ Len(further) = n + 2
      /\ \A i \in 1..n : longer[i] = schedule[i]
      /\ longer[n+1] = t
      /\ \A i \in 1..n+1 : further[i] = path[i]
      /\ further[n+2] = s
  BY <1>1, <1>2
<1> HIDE DEF n
<1>4. IsRun(sc, further, longer)
  <2>1. ASSUME NEW i \in 1..n+1
        PROVE  /\ longer[i] \in Enabled(sc, further[i])
               /\ further[i+1] = Apply(sc, further[i], longer[i])
    <3>1. CASE i = n + 1
      <4>1. n + 1 \in 1..n+1 /\ (n + 1) + 1 = n + 2
        BY <1>2
      <4>2. further[n+1] = path[Len(path)] /\ further[(n+1)+1] = s
        BY <1>2, <1>3, <4>1
      <4>3. QED
        BY <1>3, <3>1, <4>2
    <3>2. CASE i \in 1..n
      <4>1. /\ i \in 1..n+1 /\ i + 1 \in 1..n+1
        BY <1>2, <3>2
      <4>2. /\ further[i] = path[i]
            /\ further[i+1] = path[i+1]
            /\ longer[i] = schedule[i]
        BY <1>3, <3>2, <4>1
      <4>3. /\ schedule[i] \in Enabled(sc, path[i])
            /\ path[i+1] = Apply(sc, path[i], schedule[i])
        BY <1>2, <3>2
      <4>4. QED
        BY <4>2, <4>3
    <3>3. n \in Nat
      BY <1>2
    <3>4. i = n + 1 \/ i \in 1..n
      BY <3>3
    <3>5. QED
      BY <3>1, <3>2, <3>4
  <2>2. further[1] = Initial(sc)
    BY <1>2, <1>3
  <2>3. QED
    BY <1>2, <1>3, <2>1, <2>2 DEF IsRun
<1>5. CleanUpTo(sc, further, Len(further) - 1)
  BY <1>2, <1>3 DEF CleanUpTo
<1>6. ASSUME ~Violates(sc, s) PROVE CleanUpTo(sc, further, Len(further))
  <2>1. ASSUME NEW i \in 2..n+2 PROVE ~Violates(sc, further[i])
    <3>1. CASE i = n + 2
      BY <1>3, <1>6, <3>1
    <3>2. CASE i \in 2..n+1
      BY <1>2, <1>3, <3>2
    <3>3. QED
      BY <1>2, <3>1, <3>2
  <2>2. QED
    BY <1>3, <2>1 DEF CleanUpTo
<1>7. QED
  BY <1>2, <1>3, <1>4, <1>5, <1>6

\* Scenes are deterministic: two executions whose schedules agree up to m go
\* through the same states up to there.
LEMMA RunsAgree ==
    ASSUME NEW sc \in Scene,
           NEW a \in Schedule, NEW p \in Seq(State(sc)), IsRun(sc, p, a),
           NEW b \in Schedule, NEW q \in Seq(State(sc)), IsRun(sc, q, b),
           NEW m \in Nat, m <= Len(a), m <= Len(b),
           \A i \in 1..m : a[i] = b[i]
    PROVE  \A i \in 1..m+1 : p[i] = q[i]
<1> DEFINE Apart == {i \in 1..m+1 : p[i] # q[i]}
<1>1. p[1] = q[1]
  BY DEF IsRun
<1>2. ASSUME NEW i \in 1..m, p[i] = q[i]
      PROVE  p[i+1] = q[i+1]
  <2>1. /\ i \in 1..Len(a) /\ i \in 1..Len(b)
        /\ a[i] = b[i]
    BY DEF Schedule
  <2>2. /\ p[i+1] = Apply(sc, p[i], a[i])
        /\ q[i+1] = Apply(sc, q[i], b[i])
    BY <2>1 DEF IsRun
  <2>3. QED
    BY <1>2, <2>1, <2>2
<1>3. ASSUME Apart # {} PROVE FALSE
  <2>0. Apart \in SUBSET Nat
    OBVIOUS
  <2>1. PICK i \in Apart : \A j \in Apart : i <= j
    BY <1>3, <2>0, LeastNumber
  <2>2. i \in 1..m+1 /\ p[i] # q[i] /\ i # 1
    BY <1>1
  <2>3. i - 1 \in 1..m /\ i - 1 \in 1..m+1 /\ (i - 1) + 1 = i /\ ~(i <= i - 1)
    BY <2>2
  <2>4. p[i - 1] = q[i - 1]
    BY <2>1, <2>3
  <2>5. p[(i - 1) + 1] = q[(i - 1) + 1]
    BY <1>2, <2>3, <2>4
  <2>6. QED
    BY <2>2, <2>3, <2>5
<1>4. QED
  BY <1>3

-----------------------------------------------------------------------------
(* Recursive definitions. *)

\* The successors of the states of S.
Successors(sc, S) == UNION {{Apply(sc, s, t) : t \in Enabled(sc, s)} : s \in S}

\* The layers of a scene, one by one.
LEMMA LayerDef ==
    ASSUME NEW sc \in Scene
    PROVE  /\ Layer(sc)[0] = {Initial(sc)}
           /\ \A n \in Nat : /\ Layer(sc)[n] \in SUBSET State(sc)
                             /\ Layer(sc)[n+1] = Successors(sc, Layer(sc)[n])
<1> DEFINE D == SUBSET State(sc)
           step == [n \in Nat |-> [S \in D |-> Successors(sc, S)]]
           Equation(L) == L = [n \in Nat |-> IF n = 0 THEN {Initial(sc)}
                                             ELSE Successors(sc, L[n-1])]
<1>1. step \in [Nat -> [D -> D]] /\ {Initial(sc)} \in D
  BY SceneAssumption DEF Successors
<1> HIDE DEF D, step
<1>2. PICK f \in [Nat -> D] : Follows(f, {Initial(sc)}, step)
  BY <1>1, Recursion
<1>3. \A n \in Nat : f[n+1] = Successors(sc, f[n])
  <2>1. ASSUME NEW n \in Nat PROVE f[n] \in D /\ n + 1 \in Nat
    OBVIOUS
  <2>2. QED
    BY <1>2, <2>1 DEF step, Follows
<1>4. Equation(f)
  <2>1. \A n \in Nat : n # 0 => n - 1 \in Nat /\ f[n] = Successors(sc, f[n-1])
    <3>1. ASSUME NEW n \in Nat, n # 0 PROVE n - 1 \in Nat /\ (n - 1) + 1 = n
      BY <3>1
    <3>2. QED
      BY <1>3, <3>1
  <2>2. QED
    BY <1>2, <2>1 DEF Follows
<1>5. Layer(sc) = CHOOSE L : Equation(L)
  BY DEF Layer, Successors
<1>6. Equation(Layer(sc))
  <2> HIDE DEF Equation
  <2>1. QED
    BY <1>4, <1>5
<1>7. ASSUME NEW L, Equation(L), NEW n \in Nat
      PROVE  L[0] = {Initial(sc)} /\ L[n+1] = Successors(sc, L[n])
  <2>1. n + 1 \in Nat /\ n + 1 # 0 /\ (n + 1) - 1 = n
    OBVIOUS
  <2>2. QED
    BY <1>7, <2>1
<1>8. \A n \in Nat : Layer(sc)[n] \in D
  <2> DEFINE N == {n \in Nat : Layer(sc)[n] \in D}
  <2>1. 0 \in N
    BY <1>1, <1>6, <1>7
  <2>2. \A n \in Nat : n \in N => n + 1 \in N
    BY <1>6, <1>7, SceneAssumption DEF Successors, D
  <2>3. Nat \subseteq N
    <3> HIDE DEF N
    <3>1. QED
      BY <2>1, <2>2, AllNumbers
  <2>4. QED
    BY <2>3
<1>9. QED
  BY <1>6, <1>7, <1>8 DEF D

-----------------------------------------------------------------------------
(* Beginnings of executions. *)

LEMMA Beginning ==
    ASSUME NEW T, NEW s \in Seq(T), NEW n \in 0..Len(s)
    PROVE  /\ SubSeq(s, 1, n) \in Seq(T)
           /\ Len(SubSeq(s, 1, n)) = n
           /\ \A i \in 1..n : SubSeq(s, 1, n)[i] = s[i]
OBVIOUS

LEMMA BeginningGrows ==
    ASSUME NEW T, NEW s \in Seq(T), NEW n \in Nat, n < Len(s)
    PROVE  SubSeq(s, 1, n+1) = Append(SubSeq(s, 1, n), s[n+1])
BY SubSeqRecursiveSecond

\* The beginning of an execution is one.
LEMMA RunBegins ==
    ASSUME NEW sc \in Scene, NEW p \in Seq(State(sc)), NEW s \in Schedule,
           IsRun(sc, p, s), NEW n \in 0..Len(s)
    PROVE  IsRun(sc, SubSeq(p, 1, n+1), SubSeq(s, 1, n))
<1>1. /\ s \in Seq(Transition) /\ Len(s) \in Nat /\ n \in Nat
      /\ Len(p) = Len(s) + 1 /\ n + 1 \in 0..Len(p)
  BY DEF IsRun, Schedule
<1> DEFINE q == SubSeq(p, 1, n+1)
           a == SubSeq(s, 1, n)
<1>2. /\ Len(q) = n + 1 /\ \A i \in 1..n+1 : q[i] = p[i]
      /\ Len(a) = n /\ \A i \in 1..n : a[i] = s[i]
  BY <1>1, Beginning
<1> HIDE DEF q, a
<1>3. q[1] = Initial(sc)
  BY <1>1, <1>2 DEF IsRun
<1>4. ASSUME NEW i \in 1..n
      PROVE  a[i] \in Enabled(sc, q[i]) /\ q[i+1] = Apply(sc, q[i], a[i])
  <2>1. i \in 1..Len(s) /\ i \in 1..n+1 /\ i + 1 \in 1..n+1
    BY <1>1
  <2>2. s[i] \in Enabled(sc, p[i]) /\ p[i+1] = Apply(sc, p[i], s[i])
    BY <2>1 DEF IsRun
  <2>3. QED
    BY <1>2, <2>1, <2>2
<1>5. IsRun(sc, q, a)
  BY <1>2, <1>3, <1>4 DEF IsRun
<1>6. QED
  BY <1>5 DEF q, a

\* The first n transitions of schedule take sc to s, and violate nothing
\* before that.
Reaches(sc, schedule, n, s) ==
    \E p \in Seq(State(sc)) :
        /\ IsRun(sc, p, SubSeq(schedule, 1, n))
        /\ CleanUpTo(sc, p, n)
        /\ p[n+1] = s

LEMMA ReachesStart ==
    ASSUME NEW sc \in Scene, NEW schedule \in Schedule
    PROVE  \A s : Reaches(sc, schedule, 0, s) <=> s = Initial(sc)
<1>1. SubSeq(schedule, 1, 0) = <<>>
  BY DEF Schedule
<1>2. Initial(sc) \in State(sc)
  BY SceneAssumption
<1>3. Reaches(sc, schedule, 0, Initial(sc))
  <2> DEFINE p == <<Initial(sc)>>
  <2>1. p \in Seq(State(sc)) /\ IsRun(sc, p, <<>>) /\ CleanUpTo(sc, p, 0) /\ p[0+1] = Initial(sc)
    BY <1>2 DEF IsRun, CleanUpTo
  <2>2. QED
    BY <1>1, <2>1 DEF Reaches
<1>4. ASSUME NEW s, Reaches(sc, schedule, 0, s) PROVE s = Initial(sc)
  BY <1>4 DEF Reaches, IsRun
<1>5. QED
  BY <1>3, <1>4

\* One transition further.
LEMMA ReachesNext ==
    ASSUME NEW sc \in Scene, NEW schedule \in Schedule,
           NEW n \in Nat, n < Len(schedule), NEW s
    PROVE  Reaches(sc, schedule, n+1, s) <=>
              \E r \in State(sc) : /\ Reaches(sc, schedule, n, r)
                                   /\ schedule[n+1] \in Enabled(sc, r)
                                   /\ n # 0 => ~Violates(sc, r)
                                   /\ s = Apply(sc, r, schedule[n+1])
<1>1. /\ schedule \in Seq(Transition) /\ Len(schedule) \in Nat
      /\ n \in 0..Len(schedule) /\ n + 1 \in 0..Len(schedule)
  BY DEF Schedule
<1> DEFINE a == SubSeq(schedule, 1, n)
           b == SubSeq(schedule, 1, n+1)
           t == schedule[n+1]
<1>2. /\ a \in Schedule /\ Len(a) = n
      /\ b \in Schedule /\ Len(b) = n + 1
      /\ b = Append(a, t) /\ b[n+1] = t
  BY <1>1, Beginning, BeginningGrows DEF Schedule
<1>2a. a = SubSeq(b, 1, n)
  BY <1>1
<1> HIDE DEF a, b, t
<1>3. ASSUME Reaches(sc, schedule, n+1, s)
      PROVE  \E r \in State(sc) : /\ Reaches(sc, schedule, n, r)
                                  /\ t \in Enabled(sc, r)
                                  /\ n # 0 => ~Violates(sc, r)
                                  /\ s = Apply(sc, r, t)
  <2>1. PICK p \in Seq(State(sc)) : /\ IsRun(sc, p, b)
                                    /\ CleanUpTo(sc, p, n+1)
                                    /\ p[(n+1)+1] = s
    BY <1>3 DEF Reaches, b
  <2> DEFINE q == SubSeq(p, 1, n+1)
  <2>2. IsRun(sc, q, a)
    <3>1. n \in 0..Len(b)
      BY <1>2
    <3>2. IsRun(sc, SubSeq(p, 1, n+1), SubSeq(b, 1, n))
      BY <1>2, <2>1, <3>1, RunBegins
    <3>3. QED
      BY <1>2a, <3>2
  <2>3. Len(p) = n + 2
    BY <1>2, <2>1 DEF IsRun
  <2>4. /\ q \in Seq(State(sc)) /\ Len(q) = n + 1
        /\ \A i \in 1..n+1 : q[i] = p[i]
    BY <2>3, Beginning
  <2> HIDE DEF q
  <2>5. CleanUpTo(sc, q, n) /\ p[n+1] = q[n+1] /\ p[n+1] \in State(sc)
    BY <2>1, <2>3, <2>4 DEF CleanUpTo
  <2>6. Reaches(sc, schedule, n, p[n+1])
    BY <2>2, <2>4, <2>5 DEF Reaches, a
  <2>7. n # 0 => ~Violates(sc, p[n+1])
    BY <2>1 DEF CleanUpTo
  <2>8. t \in Enabled(sc, p[n+1]) /\ p[(n+1)+1] = Apply(sc, p[n+1], t)
    BY <1>2, <2>1 DEF IsRun
  <2>9. QED
    BY <2>1, <2>5, <2>6, <2>7, <2>8
<1>4. ASSUME NEW r \in State(sc), Reaches(sc, schedule, n, r),
             t \in Enabled(sc, r), n # 0 => ~Violates(sc, r),
             s = Apply(sc, r, t)
      PROVE  Reaches(sc, schedule, n+1, s)
  <2>1. PICK p \in Seq(State(sc)) : /\ IsRun(sc, p, a)
                                    /\ CleanUpTo(sc, p, n)
                                    /\ p[n+1] = r
    BY <1>4 DEF Reaches, a
  <2>2. Len(p) = n + 1
    BY <1>2, <2>1 DEF IsRun
  <2>3. CleanUpTo(sc, p, Len(p))
    BY <1>4, <2>1, <2>2 DEF CleanUpTo
  <2> DEFINE q == Append(p, s)
  <2>4. /\ IsRun(sc, q, b)
        /\ CleanUpTo(sc, q, Len(q) - 1)
    <3>1. p[Len(p)] = r
      BY <2>1, <2>2
    <3>2. t \in Enabled(sc, p[Len(p)]) /\ s = Apply(sc, p[Len(p)], t)
      BY <1>4, <3>1
    <3> HIDE DEF q
    <3>3. /\ IsRun(sc, Append(p, s), Append(a, t))
          /\ CleanUpTo(sc, Append(p, s), Len(Append(p, s)) - 1)
      BY <1>2, <2>1, <2>3, <3>2, ExecutionGrows
    <3>4. QED
      BY <1>2, <3>3 DEF q
  <2>5. s \in State(sc)
    BY <1>4, SceneAssumption
  <2>6. q \in Seq(State(sc)) /\ Len(q) = n + 2 /\ q[(n+1)+1] = s
    BY <2>2, <2>5
  <2> HIDE DEF q
  <2>7. CleanUpTo(sc, q, n+1)
    BY <2>4, <2>6
  <2>8. QED
    BY <2>4, <2>6, <2>7 DEF Reaches, b
<1>5. QED
  BY <1>3, <1>4 DEF t

\* Scenes are deterministic.
LEMMA ReachesOne ==
    ASSUME NEW sc \in Scene, NEW schedule \in Schedule,
           NEW m \in 0..Len(schedule), NEW n \in 0..m, NEW r, NEW s,
           Reaches(sc, schedule, n, r), Reaches(sc, schedule, m, s)
    PROVE  /\ n = m => r = s
           /\ n # 0 /\ n < m => ~Violates(sc, r)
<1>1. /\ schedule \in Seq(Transition) /\ Len(schedule) \in Nat
      /\ n \in 0..Len(schedule) /\ n \in Nat /\ m \in Nat /\ n <= m
  BY DEF Schedule
<1> DEFINE a == SubSeq(schedule, 1, n)
           b == SubSeq(schedule, 1, m)
<1>2. /\ a \in Schedule /\ Len(a) = n
      /\ b \in Schedule /\ Len(b) = m
      /\ \A i \in 1..n : a[i] = b[i]
  BY <1>1, Beginning DEF Schedule
<1> HIDE DEF a, b
<1>3. PICK p \in Seq(State(sc)) : IsRun(sc, p, a) /\ p[n+1] = r
  BY DEF Reaches, a
<1>4. PICK q \in Seq(State(sc)) :
         IsRun(sc, q, b) /\ CleanUpTo(sc, q, m) /\ q[m+1] = s
  BY DEF Reaches, b
<1>5. \A i \in 1..n+1 : p[i] = q[i]
  BY <1>1, <1>2, <1>3, <1>4, RunsAgree
<1>6. r = q[n+1]
  BY <1>1, <1>3, <1>5
<1>7. QED
  BY <1>1, <1>4, <1>6 DEF CleanUpTo

\* The states the first n transitions of schedule may lead to: Stage(.., X)
\* takes those of X one transition further.
Stage(sc, schedule, n, X) ==
    {Apply(sc, s, schedule[n]) :
        s \in {r \in X : /\ schedule[n] \in Enabled(sc, r)
                         /\ n > 1 => ~Violates(sc, r)}}

Stages(sc, schedule, run) ==
    run = [n \in 0..Len(schedule) |->
              IF n = 0 THEN {Initial(sc)} ELSE Stage(sc, schedule, n, run[n-1])]

LEMMA StagesExist ==
    ASSUME NEW sc \in Scene, NEW schedule \in Schedule
    PROVE  \E run : Stages(sc, schedule, run)
<1> DEFINE D == SUBSET State(sc)
           k == Len(schedule)
           step == [n \in Nat |-> [X \in D |->
                       IF n \in 1..k THEN Stage(sc, schedule, n, X) ELSE {}]]
<1>1. k \in Nat
  BY DEF Schedule
<1>2. step \in [Nat -> [D -> D]] /\ {Initial(sc)} \in D
  BY SceneAssumption DEF Stage
<1> HIDE DEF D, step
<1>3. PICK f \in [Nat -> D] : Follows(f, {Initial(sc)}, step)
  BY <1>2, Recursion
<1> DEFINE run == [n \in 0..k |-> f[n]]
<1>4. ASSUME NEW n \in 0..k, n # 0
      PROVE  run[n] = Stage(sc, schedule, n, run[n-1])
  <2>1. /\ n \in Nat /\ n - 1 \in Nat /\ n - 1 \in 0..k /\ (n - 1) + 1 = n
        /\ n \in 1..k
    BY <1>1, <1>4
  <2>2. f[n-1] \in D /\ f[n] = step[n][f[n-1]]
    BY <1>3, <2>1 DEF Follows
  <2>3. step[n][f[n-1]] = Stage(sc, schedule, n, f[n-1])
    BY <2>1, <2>2 DEF step
  <2>4. run[n] = f[n] /\ run[n-1] = f[n-1]
    BY <2>1
  <2> HIDE DEF run
  <2>5. QED
    BY <2>2, <2>3, <2>4
<1>5. 0 \in 0..k /\ run[0] = {Initial(sc)}
  BY <1>1, <1>3 DEF Follows
<1>6. run = [n \in 0..k |-> run[n]]
  OBVIOUS
<1> HIDE DEF run
<1>7. run = [n \in 0..k |-> IF n = 0 THEN {Initial(sc)}
                            ELSE Stage(sc, schedule, n, run[n-1])]
  BY <1>4, <1>5, <1>6
<1>8. QED
  BY <1>7 DEF Stages

\* They are the states reached.
LEMMA StagesReach ==
    ASSUME NEW sc \in Scene, NEW schedule \in Schedule, NEW run,
           Stages(sc, schedule, run)
    PROVE  \A n \in 0..Len(schedule) : \A s :
              s \in run[n] <=> Reaches(sc, schedule, n, s)
<1> DEFINE k == Len(schedule)
           N == {n \in Nat : n \in 0..k =>
                    \A s : s \in run[n] <=> Reaches(sc, schedule, n, s)}
<1>1. k \in Nat
  BY DEF Schedule
<1>2. /\ run[0] = {Initial(sc)}
      /\ \A n \in 0..k : n # 0 => run[n] = Stage(sc, schedule, n, run[n-1])
  <2>1. run = [n \in 0..k |-> IF n = 0 THEN {Initial(sc)}
                              ELSE Stage(sc, schedule, n, run[n-1])]
    BY DEF Stages
  <2>2. 0 \in 0..k
    BY <1>1
  <2> HIDE DEF k
  <2>3. QED
    BY <2>1, <2>2
<1>3. 0 \in N
  BY <1>2, ReachesStart
<1>4. ASSUME NEW n \in Nat, n \in N PROVE n + 1 \in N
  <2>1. CASE n + 1 \in 0..k
    <3>1. /\ n \in 0..k /\ n < k /\ n + 1 # 0 /\ (n + 1) - 1 = n
          /\ n + 1 > 1 <=> n # 0
      BY <1>1, <2>1
    <3>2. \A s : s \in run[n] <=> Reaches(sc, schedule, n, s)
      BY <1>4, <3>1
    <3>3. run[n+1] = Stage(sc, schedule, n+1, run[n])
      BY <1>2, <2>1, <3>1
    <3>4. ASSUME NEW r, Reaches(sc, schedule, n, r) PROVE r \in State(sc)
      <4>1. PICK p \in Seq(State(sc)) :
               IsRun(sc, p, SubSeq(schedule, 1, n)) /\ p[n+1] = r
        BY <3>4 DEF Reaches
      <4>2. Len(SubSeq(schedule, 1, n)) = n
        BY <3>1, Beginning DEF Schedule
      <4>3. n + 1 \in 1..Len(p)
        BY <4>1, <4>2 DEF IsRun
      <4>4. QED
        BY <4>1, <4>3
    <3>5. ASSUME NEW s
          PROVE  s \in run[n+1] <=> Reaches(sc, schedule, n+1, s)
      <4>1. s \in run[n+1] <=>
               \E r \in run[n] : /\ schedule[n+1] \in Enabled(sc, r)
                                 /\ n + 1 > 1 => ~Violates(sc, r)
                                 /\ s = Apply(sc, r, schedule[n+1])
        BY <3>3 DEF Stage
      <4>2. Reaches(sc, schedule, n+1, s) <=>
               \E r \in State(sc) : /\ Reaches(sc, schedule, n, r)
                                    /\ schedule[n+1] \in Enabled(sc, r)
                                    /\ n # 0 => ~Violates(sc, r)
                                    /\ s = Apply(sc, r, schedule[n+1])
        BY <3>1, ReachesNext
      <4>3. QED
        BY <3>1, <3>2, <3>4, <4>1, <4>2
    <3>6. QED
      BY <3>5
  <2>2. QED
    BY <2>1
<1>5. Nat \subseteq N
  <2> HIDE DEF N
  <2>1. QED
    BY <1>3, <1>4, AllNumbers
<1>6. QED
  BY <1>1, <1>5

\* WitnessOf is the evidence of the violation that is reached, if one is.
LEMMA WitnessOfReached ==
    ASSUME NEW sc \in Scene, NEW schedule \in Schedule
    PROVE  /\ \A n \in 1..Len(schedule) : \A s :
                 Reaches(sc, schedule, n, s) /\ Violates(sc, s) =>
                    WitnessOf(sc, schedule) = Check(sc, s, SubSeq(schedule, 1, n))
           /\ (\A n \in 1..Len(schedule) : \A s :
                 Reaches(sc, schedule, n, s) => ~Violates(sc, s)) =>
                    WitnessOf(sc, schedule) = NoWitness
<1> DEFINE run == CHOOSE run : Stages(sc, schedule, run)
           failed == {n \in 1..Len(schedule) : \E s \in run[n] : Violates(sc, s)}
           last == CHOOSE n \in failed : TRUE
           there == CHOOSE s \in run[last] : TRUE
<1>1. WitnessOf(sc, schedule) =
         IF failed = {} THEN NoWitness
         ELSE Check(sc, there, SubSeq(schedule, 1, last))
  BY DEF WitnessOf, Stages, Stage
<1>2. Stages(sc, schedule, run)
  BY StagesExist
<1> HIDE DEF run
<1>3. \A n \in 1..Len(schedule) : \A s :
         s \in run[n] <=> Reaches(sc, schedule, n, s)
  BY <1>2, StagesReach DEF Schedule
<1>4. ASSUME NEW n \in 1..Len(schedule), NEW s,
             Reaches(sc, schedule, n, s), Violates(sc, s)
      PROVE  failed # {} /\ last = n /\ there = s
  <2>1. n \in failed
    BY <1>3, <1>4
  <2>2. last \in failed
    BY <2>1
  <2> HIDE DEF last
  <2>3. PICK r \in run[last] : Violates(sc, r)
    BY <2>2
  <2>4. last \in 1..Len(schedule) /\ Reaches(sc, schedule, last, r)
    BY <1>3, <2>2, <2>3
  <2>5. Len(schedule) \in Nat
    BY DEF Schedule
  <2>6. ~(last < n)
    <3>1. ASSUME last < n PROVE FALSE
      <4>1. n \in 0..Len(schedule) /\ last \in 0..n /\ last # 0
        BY <2>4, <2>5, <3>1
      <4>2. QED
        BY <1>4, <2>3, <2>4, <3>1, <4>1, ReachesOne
    <3>2. QED
      BY <3>1
  <2>7. ~(n < last)
    <3>1. ASSUME n < last PROVE FALSE
      <4>1. last \in 0..Len(schedule) /\ n \in 0..last /\ n # 0
        BY <2>4, <2>5, <3>1
      <4>2. QED
        BY <1>4, <2>4, <3>1, <4>1, ReachesOne
    <3>2. QED
      BY <3>1
  <2>8. last = n
    BY <2>4, <2>5, <2>6, <2>7
  <2>9. \A e \in run[n] : e = s
    <3>1. n \in 0..Len(schedule) /\ n \in 0..n
      BY <2>5
    <3>2. QED
      BY <1>3, <1>4, <3>1, ReachesOne
  <2>10. s \in run[n]
    BY <1>3, <1>4
  <2>11. QED
    BY <2>1, <2>8, <2>9, <2>10
<1>5. (\A n \in 1..Len(schedule) : \A s :
         Reaches(sc, schedule, n, s) => ~Violates(sc, s)) => failed = {}
  BY <1>3
<1> HIDE DEF failed, last, there
<1>6. QED
  BY <1>1, <1>4, <1>5

-----------------------------------------------------------------------------
(* Walks: executions on which a violation is the end. *)

\* schedule takes sc to s, and violates nothing before that.
WalksTo(sc, schedule, s) ==
    \E p \in Seq(State(sc)) :
        /\ IsRun(sc, p, schedule)
        /\ p[Len(p)] = s
        /\ CleanUpTo(sc, p, Len(p) - 1)

\* Nothing was violated: the initial state is not looked at.
GoesOn(sc, schedule, s) == schedule = <<>> \/ ~Violates(sc, s)

LEMMA WalkStarts ==
    ASSUME NEW sc \in Scene
    PROVE  WalksTo(sc, <<>>, Initial(sc)) /\ <<>> \in Schedule
<1> DEFINE p == <<Initial(sc)>>
<1>1. Initial(sc) \in State(sc)
  BY SceneAssumption
<1>2. p \in Seq(State(sc)) /\ Len(p) = 1 /\ p[1] = Initial(sc)
  BY <1>1
<1>3. IsRun(sc, p, <<>>) /\ CleanUpTo(sc, p, Len(p) - 1)
  BY DEF IsRun, CleanUpTo
<1>4. p[Len(p)] = Initial(sc) /\ <<>> \in Schedule
  BY <1>2 DEF Schedule
<1> HIDE DEF p
<1>5. QED
  BY <1>2, <1>3, <1>4 DEF WalksTo

\* A walk that goes on is clean to its end.
LEMMA WalkIsClean ==
    ASSUME NEW sc \in Scene, NEW schedule \in Schedule, NEW s,
           WalksTo(sc, schedule, s), GoesOn(sc, schedule, s)
    PROVE  \E p \in Seq(State(sc)) :
              IsRun(sc, p, schedule) /\ p[Len(p)] = s /\ CleanUpTo(sc, p, Len(p))
<1>1. PICK p \in Seq(State(sc)) :
        /\ IsRun(sc, p, schedule)
        /\ p[Len(p)] = s
        /\ CleanUpTo(sc, p, Len(p) - 1)
  BY DEF WalksTo
<1>2. Len(p) = Len(schedule) + 1 /\ Len(schedule) \in Nat
  BY <1>1 DEF IsRun, Schedule
<1>3. Len(schedule) = 0 \/ ~Violates(sc, p[Len(p)])
  BY <1>1 DEF GoesOn
<1>4. CleanUpTo(sc, p, Len(p))
  BY <1>1, <1>2, <1>3 DEF CleanUpTo
<1>5. QED
  BY <1>1, <1>4

\* One transition further.
LEMMA WalkGrows ==
    ASSUME NEW sc \in Scene, NEW schedule \in Schedule, NEW s,
           WalksTo(sc, schedule, s), GoesOn(sc, schedule, s),
           NEW t \in Enabled(sc, s)
    PROVE  /\ WalksTo(sc, Append(schedule, t), Apply(sc, s, t))
           /\ Append(schedule, t) \in Schedule
           /\ Append(schedule, t) # <<>>
           /\ Apply(sc, s, t) \in State(sc)
<1>1. PICK p \in Seq(State(sc)) :
        IsRun(sc, p, schedule) /\ p[Len(p)] = s /\ CleanUpTo(sc, p, Len(p))
  BY WalkIsClean
<1>2. p[Len(p)] \in State(sc)
  BY <1>1 DEF IsRun, Schedule
<1>3. t \in Enabled(sc, p[Len(p)]) /\ t \in Transition /\ Apply(sc, s, t) \in State(sc)
  BY <1>1, <1>2, SceneAssumption
<1>4. Append(schedule, t) \in Schedule /\ Append(schedule, t) # <<>>
  BY <1>3 DEF Schedule
<1> DEFINE further == Append(p, Apply(sc, s, t))
<1>5. /\ IsRun(sc, further, Append(schedule, t))
      /\ further[Len(further)] = Apply(sc, s, t)
      /\ CleanUpTo(sc, further, Len(further) - 1)
  BY <1>1, <1>3, ExecutionGrows
<1>6. further \in Seq(State(sc))
  BY <1>3
<1> HIDE DEF further
<1>7. QED
  BY <1>3, <1>4, <1>5, <1>6 DEF WalksTo

\* Replaying a schedule that was walked without a violation shows none.
LEMMA CleanWalk ==
    ASSUME NEW sc \in Scene, NEW schedule \in Schedule, NEW s,
           WalksTo(sc, schedule, s), GoesOn(sc, schedule, s)
    PROVE  WitnessOf(sc, schedule) = NoWitness
<1>1. PICK p \in Seq(State(sc)) :
        IsRun(sc, p, schedule) /\ CleanUpTo(sc, p, Len(p))
  BY WalkIsClean
<1>2. schedule \in Seq(Transition) /\ Len(schedule) \in Nat
  BY DEF Schedule
<1>3. Len(p) = Len(schedule) + 1
  BY <1>1 DEF IsRun
<1>4. ASSUME NEW n \in 1..Len(schedule), NEW r, Reaches(sc, schedule, n, r)
      PROVE  ~Violates(sc, r)
  <2>1. PICK q \in Seq(State(sc)) :
          IsRun(sc, q, SubSeq(schedule, 1, n)) /\ q[n+1] = r
    BY <1>4 DEF Reaches
  <2>2. n \in 0..Len(schedule) /\ n \in Nat
    BY <1>2
  <2>3. /\ SubSeq(schedule, 1, n) \in Schedule
        /\ Len(SubSeq(schedule, 1, n)) = n
        /\ \A i \in 1..n : SubSeq(schedule, 1, n)[i] = schedule[i]
    BY <1>2, <2>2, Beginning DEF Schedule
  <2> DEFINE a == SubSeq(schedule, 1, n)
  <2>4. /\ a \in Schedule /\ Len(a) = n /\ IsRun(sc, q, a)
        /\ \A i \in 1..n : a[i] = schedule[i]
    BY <2>1, <2>3
  <2> HIDE DEF a
  <2>5. n <= Len(a) /\ n <= Len(schedule)
    BY <1>2, <2>2, <2>4
  <2>6. \A i \in 1..n+1 : q[i] = p[i]
    BY <1>1, <2>2, <2>4, <2>5, RunsAgree
  <2>7. n + 1 \in 2..Len(p) /\ q[n+1] = p[n+1]
    BY <1>2, <1>3, <2>2, <2>5, <2>6
  <2>8. QED
    BY <1>1, <2>1, <2>7 DEF CleanUpTo
<1>5. QED
  BY <1>4, WitnessOfReached

LEMMA ReachesWalks ==
    ASSUME NEW sc \in Scene, NEW schedule \in Schedule,
           NEW n \in 0..Len(schedule), NEW s
    PROVE  Reaches(sc, schedule, n, s) <=> WalksTo(sc, SubSeq(schedule, 1, n), s)
<1>1. Len(SubSeq(schedule, 1, n)) = n /\ n \in Nat
  BY Beginning DEF Schedule
<1>2. ASSUME NEW p \in Seq(State(sc)), IsRun(sc, p, SubSeq(schedule, 1, n))
      PROVE  Len(p) = n + 1 /\ Len(p) - 1 = n
  BY <1>1, <1>2 DEF IsRun
<1>3. QED
  BY <1>2 DEF Reaches, WalksTo

LEMMA WalkInState ==
    ASSUME NEW sc \in Scene, NEW schedule \in Schedule, NEW s,
           WalksTo(sc, schedule, s)
    PROVE  s \in State(sc)
<1>1. PICK p \in Seq(State(sc)) : IsRun(sc, p, schedule) /\ p[Len(p)] = s
  BY DEF WalksTo
<1>2. Len(p) \in 1..Len(p)
  BY <1>1 DEF IsRun, Schedule
<1>3. QED
  BY <1>1, <1>2

\* Replaying a walk into a violation shows it.
LEMMA WalkWitness ==
    ASSUME NEW sc \in Scene, NEW schedule \in Schedule, schedule # <<>>, NEW s,
           WalksTo(sc, schedule, s), Violates(sc, s)
    PROVE  WitnessOf(sc, schedule) = Check(sc, s, schedule)
<1> DEFINE n == Len(schedule)
<1>1. n \in 1..Len(schedule) /\ n \in 0..Len(schedule)
      /\ SubSeq(schedule, 1, n) = schedule
  BY SubSeqFull DEF Schedule
<1> HIDE DEF n
<1>2. Reaches(sc, schedule, n, s)
  BY <1>1, ReachesWalks
<1>3. QED
  BY <1>1, <1>2, WitnessOfReached

\* What a replay shows is shown by a replay of its schedule.
LEMMA WitnessFixed ==
    ASSUME NEW sc \in Scene, NEW schedule \in Schedule
    PROVE  /\ WitnessOf(sc, schedule) \in Witness
           /\ WitnessOf(sc, WitnessOf(sc, schedule).schedule) =
                 WitnessOf(sc, schedule)
<1>1. CASE \A n \in 1..Len(schedule) : \A s :
              Reaches(sc, schedule, n, s) => ~Violates(sc, s)
  <2>1. WitnessOf(sc, schedule) = NoWitness
    BY <1>1, WitnessOfReached
  <2>2. NoWitness.schedule = <<>>
    BY Zenon DEF NoWitness
  <2>3. <<>> \in Schedule /\ 1..Len(<<>>) = {}
    BY DEF Schedule
  <2>4. WitnessOf(sc, <<>>) = NoWitness
    BY <2>3, WitnessOfReached
  <2>5. QED
    BY <2>1, <2>2, <2>4, NoWitnessType
<1>2. CASE \E n \in 1..Len(schedule) : \E s :
              Reaches(sc, schedule, n, s) /\ Violates(sc, s)
  <2>1. PICK n \in 1..Len(schedule) :
           \E s : Reaches(sc, schedule, n, s) /\ Violates(sc, s)
    BY <1>2
  <2> PICK s : Reaches(sc, schedule, n, s) /\ Violates(sc, s)
    BY <2>1
  <2> DEFINE a == SubSeq(schedule, 1, n)
  <2>2. n \in 0..Len(schedule) /\ a \in Schedule /\ Len(a) = n /\ n # 0
    BY Beginning DEF Schedule
  <2>3. WalksTo(sc, a, s) /\ WitnessOf(sc, schedule) = Check(sc, s, a)
    BY <2>2, ReachesWalks, WitnessOfReached
  <2> HIDE DEF a
  <2>4. s \in State(sc) /\ a # <<>>
    BY <2>2, <2>3, WalkInState
  <2>5. Check(sc, s, a) \in Witness /\ Check(sc, s, a).schedule = a
    BY <2>2, <2>4, CheckFails
  <2>6. WitnessOf(sc, a) = Check(sc, s, a)
    BY <2>2, <2>3, <2>4, WalkWitness
  <2>7. QED
    BY <2>3, <2>5, <2>6
<1>3. QED
  BY <1>1, <1>2

\* The walks of n transitions, and those of X taken one transition further.
Walks(sc, n) ==
    {r \in [sched : Schedule, end : State(sc)] :
        Len(r.sched) = n /\ WalksTo(sc, r.sched, r.end)}

Further(sc, n, X) ==
    UNION {{[sched |-> Append(r.sched, t), end |-> Apply(sc, r.end, t)] :
               t \in Enabled(sc, r.end)} :
           r \in {q \in X : n > 1 => ~Violates(sc, q.end)}}

LEMMA WalksStart ==
    ASSUME NEW sc \in Scene
    PROVE  Walks(sc, 0) = {[sched |-> <<>>, end |-> Initial(sc)]}
<1>1. Initial(sc) \in State(sc)
  BY SceneAssumption
<1>2. ASSUME NEW r \in Walks(sc, 0)
      PROVE  r = [sched |-> <<>>, end |-> Initial(sc)]
  <2>1. r \in [sched : Schedule, end : State(sc)] /\ r.sched = <<>>
        /\ WalksTo(sc, r.sched, r.end)
    BY <1>2, EmptySeq DEF Walks, Schedule
  <2>2. r.end = Initial(sc)
    BY <2>1 DEF WalksTo, IsRun
  <2>3. QED
    BY <2>1, <2>2
<1>3. [sched |-> <<>>, end |-> Initial(sc)] \in Walks(sc, 0)
  BY <1>1, WalkStarts DEF Walks
<1>4. QED
  BY <1>2, <1>3

\* The last transition of a walk.
LEMMA WalkEnds ==
    ASSUME NEW sc \in Scene, NEW schedule \in Schedule, NEW s,
           WalksTo(sc, schedule, s), NEW n \in Nat, Len(schedule) = n + 1
    PROVE  LET a == SubSeq(schedule, 1, n)
               t == schedule[n+1]
           IN  /\ a \in Schedule /\ Len(a) = n /\ schedule = Append(a, t)
               /\ \E r \in State(sc) :
                     /\ WalksTo(sc, a, r)
                     /\ n # 0 => ~Violates(sc, r)
                     /\ t \in Enabled(sc, r)
                     /\ s = Apply(sc, r, t)
<1> DEFINE a == SubSeq(schedule, 1, n)
           t == schedule[n+1]
<1>1. n \in 0..Len(schedule) /\ n + 1 \in 0..Len(schedule) /\ n < Len(schedule)
      /\ schedule \in Seq(Transition)
  BY DEF Schedule
<1>2. a \in Schedule /\ Len(a) = n
  BY <1>1, Beginning DEF Schedule
<1>3. schedule = Append(a, t) /\ SubSeq(schedule, 1, n+1) = schedule
  BY <1>1, BeginningGrows, SubSeqFull
<1>4. Reaches(sc, schedule, n+1, s)
  BY <1>1, <1>3, ReachesWalks
<1>5. PICK r \in State(sc) : /\ Reaches(sc, schedule, n, r)
                             /\ t \in Enabled(sc, r)
                             /\ n # 0 => ~Violates(sc, r)
                             /\ s = Apply(sc, r, t)
  BY <1>1, <1>4, ReachesNext
<1>6. WalksTo(sc, a, r)
  BY <1>1, <1>5, ReachesWalks
<1> HIDE DEF a, t
<1>7. QED
  BY <1>2, <1>3, <1>5, <1>6 DEF a, t

LEMMA WalksNext ==
    ASSUME NEW sc \in Scene, NEW n \in Nat
    PROVE  Walks(sc, n+1) = Further(sc, n+1, Walks(sc, n))
<1>0. n + 1 > 1 <=> n # 0
  OBVIOUS
<1>1. ASSUME NEW x \in Further(sc, n+1, Walks(sc, n))
      PROVE  x \in Walks(sc, n+1)
  <2>1. PICK r \in Walks(sc, n) :
           /\ n # 0 => ~Violates(sc, r.end)
           /\ \E t \in Enabled(sc, r.end) :
                 x = [sched |-> Append(r.sched, t), end |-> Apply(sc, r.end, t)]
    BY <1>0, <1>1 DEF Further
  <2>2. PICK t \in Enabled(sc, r.end) :
           x = [sched |-> Append(r.sched, t), end |-> Apply(sc, r.end, t)]
    BY <2>1
  <2>3. /\ r.sched \in Schedule /\ Len(r.sched) = n
        /\ WalksTo(sc, r.sched, r.end)
    BY DEF Walks
  <2>4. GoesOn(sc, r.sched, r.end)
    BY <2>1, <2>3, EmptySeq DEF GoesOn, Schedule
  <2>5. /\ WalksTo(sc, Append(r.sched, t), Apply(sc, r.end, t))
        /\ Append(r.sched, t) \in Schedule
        /\ Apply(sc, r.end, t) \in State(sc)
    BY <2>3, <2>4, WalkGrows
  <2>6. Len(Append(r.sched, t)) = n + 1
    BY <2>3 DEF Schedule
  <2>7. QED
    BY <2>2, <2>5, <2>6 DEF Walks
<1>2. ASSUME NEW x \in Walks(sc, n+1)
      PROVE  x \in Further(sc, n+1, Walks(sc, n))
  <2>1. /\ x \in [sched : Schedule, end : State(sc)]
        /\ Len(x.sched) = n + 1 /\ WalksTo(sc, x.sched, x.end)
    BY DEF Walks
  <2> DEFINE a == SubSeq(x.sched, 1, n)
             t == x.sched[n+1]
  <2>2. /\ a \in Schedule /\ Len(a) = n /\ x.sched = Append(a, t)
        /\ \E r \in State(sc) : /\ WalksTo(sc, a, r)
                                /\ n # 0 => ~Violates(sc, r)
                                /\ t \in Enabled(sc, r)
                                /\ x.end = Apply(sc, r, t)
    BY <2>1, WalkEnds
  <2> HIDE DEF a, t
  <2>3. PICK r \in State(sc) : /\ WalksTo(sc, a, r)
                               /\ n # 0 => ~Violates(sc, r)
                               /\ t \in Enabled(sc, r)
                               /\ x.end = Apply(sc, r, t)
    BY <2>2
  <2> DEFINE q == [sched |-> a, end |-> r]
  <2>4. q \in Walks(sc, n) /\ q.sched = a /\ q.end = r
    BY <2>2, <2>3 DEF Walks
  <2> HIDE DEF q
  <2>5. x = [sched |-> Append(q.sched, t), end |-> Apply(sc, q.end, t)]
    BY <2>1, <2>2, <2>3, <2>4
  <2>6. q \in {p \in Walks(sc, n) : n + 1 > 1 => ~Violates(sc, p.end)}
    BY <1>0, <2>3, <2>4
  <2>7. x \in {[sched |-> Append(q.sched, u), end |-> Apply(sc, q.end, u)] :
                  u \in Enabled(sc, q.end)}
    BY <2>3, <2>4, <2>5
  <2>8. QED
    BY <2>6, <2>7 DEF Further
<1>3. QED
  BY <1>1, <1>2

\* Functions that collect the walks, as modules Artifacts and GateSearch define
\* them, up to any length.
Collects(sc, N, R) ==
    R = [n \in N |-> IF n = 0 THEN {[sched |-> <<>>, end |-> Initial(sc)]}
                     ELSE Further(sc, n, R[n-1])]

LEMMA WalksCollected ==
    ASSUME NEW sc \in Scene, NEW N \in SUBSET Nat, 0 \in N,
           \A n \in Nat : n + 1 \in N => n \in N
    PROVE  /\ \E R : Collects(sc, N, R)
           /\ \A R : Collects(sc, N, R) => \A n \in N : R[n] = Walks(sc, n)
<1>1. ASSUME NEW n \in N, n # 0
      PROVE  /\ n - 1 \in N /\ n - 1 \in Nat /\ (n - 1) + 1 = n
             /\ Walks(sc, n) = Further(sc, n, Walks(sc, n-1))
  <2>1. n \in Nat /\ n - 1 \in Nat /\ (n - 1) + 1 = n
    BY <1>1
  <2>2. n - 1 \in N
    BY <2>1
  <2>3. Walks(sc, (n - 1) + 1) = Further(sc, (n - 1) + 1, Walks(sc, n - 1))
    BY <2>1, WalksNext
  <2>4. QED
    BY <2>1, <2>2, <2>3
<1>2. Collects(sc, N, [n \in N |-> Walks(sc, n)])
  <2> DEFINE R == [n \in N |-> Walks(sc, n)]
  <2>1. ASSUME NEW n \in N
        PROVE  R[n] = IF n = 0 THEN {[sched |-> <<>>, end |-> Initial(sc)]}
                      ELSE Further(sc, n, R[n-1])
    <3>1. CASE n = 0
      BY <3>1, WalksStart
    <3>2. CASE n # 0
      BY <1>1, <3>2
    <3>3. QED
      BY <3>1, <3>2
  <2>2. R = [n \in N |-> R[n]]
    OBVIOUS
  <2> HIDE DEF R
  <2>3. Collects(sc, N, R)
    BY <2>1, <2>2 DEF Collects
  <2>4. QED
    BY <2>3 DEF R
<1>3. ASSUME NEW R, Collects(sc, N, R), NEW n \in N PROVE R[n] = Walks(sc, n)
  <2> DEFINE Same == {k \in Nat : k \in N => R[k] = Walks(sc, k)}
  <2>1. \A k \in N : R[k] = IF k = 0 THEN {[sched |-> <<>>, end |-> Initial(sc)]}
                            ELSE Further(sc, k, R[k-1])
    BY <1>3 DEF Collects
  <2>2. 0 \in Same
    BY <2>1, WalksStart
  <2>3. ASSUME NEW k \in Nat, k \in Same PROVE k + 1 \in Same
    <3>1. CASE k + 1 \in N
      <4>1. k \in N /\ R[k] = Walks(sc, k) /\ k + 1 # 0 /\ (k + 1) - 1 = k
        BY <2>3, <3>1
      <4>2. R[k+1] = Further(sc, k+1, R[k])
        BY <2>1, <3>1, <4>1
      <4>3. QED
        BY <4>1, <4>2, WalksNext
    <3>2. QED
      BY <3>1
  <2>4. Nat \subseteq Same
    <3> HIDE DEF Same
    <3>1. QED
      BY <2>2, <2>3, AllNumbers
  <2>5. QED
    BY <2>4
<1>4. QED
  BY <1>2, <1>3

\* A walk goes through every schedule it continues, and violates nothing there.
LEMMA WalkOn ==
    ASSUME NEW sc \in Scene, NEW b \in Schedule, NEW e, WalksTo(sc, b, e),
           NEW n \in Nat, n < Len(b)
    PROVE  \E s \in State(sc) : /\ WalksTo(sc, SubSeq(b, 1, n), s)
                                /\ GoesOn(sc, SubSeq(b, 1, n), s)
                                /\ b[n+1] \in Enabled(sc, s)
<1> DEFINE a == SubSeq(b, 1, n)
<1>1. /\ b \in Seq(Transition) /\ Len(b) \in Nat
      /\ n \in 0..Len(b) /\ n + 1 \in 1..Len(b)
  BY DEF Schedule
<1>2. a \in Schedule /\ Len(a) = n
  BY <1>1, Beginning DEF Schedule
<1>3. PICK p \in Seq(State(sc)) :
        IsRun(sc, p, b) /\ p[Len(p)] = e /\ CleanUpTo(sc, p, Len(p) - 1)
  BY DEF WalksTo
<1>4. Len(p) = Len(b) + 1 /\ n + 1 \in 0..Len(p) /\ n + 1 \in 1..Len(p)
      /\ b[n+1] \in Enabled(sc, p[n+1])
  BY <1>1, <1>3 DEF IsRun
<1> DEFINE q == SubSeq(p, 1, n+1)
<1>5. /\ q \in Seq(State(sc)) /\ Len(q) = n + 1
      /\ \A i \in 1..n+1 : q[i] = p[i]
  BY <1>4, Beginning
<1>6. IsRun(sc, q, a)
  BY <1>1, <1>3, RunBegins
<1> HIDE DEF q, a
<1>7. \A i \in 2..n+1 : ~Violates(sc, q[i])
  BY <1>1, <1>3, <1>4, <1>5 DEF CleanUpTo
<1>8. CleanUpTo(sc, q, Len(q) - 1) /\ q[Len(q)] = p[n+1]
  BY <1>5, <1>7 DEF CleanUpTo
<1>9. p[n+1] \in State(sc) /\ WalksTo(sc, a, p[n+1])
  BY <1>4, <1>5, <1>6, <1>8 DEF WalksTo
<1>10. GoesOn(sc, a, p[n+1])
  <2>1. CASE n = 0
    BY <1>2, <2>1, EmptySeq DEF GoesOn, Schedule
  <2>2. CASE n # 0
    BY <1>5, <1>7, <2>2 DEF GoesOn
  <2>3. QED
    BY <2>1, <2>2
<1>11. QED
  BY <1>4, <1>9, <1>10 DEF a

\* A schedule leads to one state.
LEMMA WalkOne ==
    ASSUME NEW sc \in Scene, NEW schedule \in Schedule, NEW r, NEW s,
           WalksTo(sc, schedule, r), WalksTo(sc, schedule, s)
    PROVE  r = s
<1> DEFINE n == Len(schedule)
<1>1. n \in 0..Len(schedule) /\ n \in 0..n /\ SubSeq(schedule, 1, n) = schedule
  BY SubSeqFull DEF Schedule
<1> HIDE DEF n
<1>2. Reaches(sc, schedule, n, r) /\ Reaches(sc, schedule, n, s)
  BY <1>1, ReachesWalks
<1>3. QED
  BY <1>1, <1>2, ReachesOne
=============================================================================
