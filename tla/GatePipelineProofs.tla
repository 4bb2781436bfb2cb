------------------------- MODULE GatePipelineProofs -------------------------
(* Theorems about the search on live programs and what follows it, for every *)
(* program.                                                                  *)
EXTENDS GatePipeline, MinimizeProofs, FiniteSetTheorems

-----------------------------------------------------------------------------
(* The gates of a program, and the steps that a schedule has taken. *)

Gates(p) == [worker : Workers(p), step : 0..Steps(p)-1]

\* No schedule can open more gates than there are.
Most(p) == Cardinality(Workers(p)) * Steps(p)

LEMMA GatesCounted ==
    ASSUME NEW p \in Scene
    PROVE  /\ IsFiniteSet(Gates(p))
           /\ Cardinality(Gates(p)) <= Most(p)
           /\ Cardinality(Gates(p)) \in Nat
           /\ Most(p) \in Nat
<1> DEFINE S == 0..Steps(p)-1
           pairs == Workers(p) \X S
           f == [x \in pairs |-> [worker |-> x[1], step |-> x[2]]]
<1>1. /\ IsFiniteSet(Workers(p)) /\ Cardinality(Workers(p)) \in Nat
      /\ Steps(p) \in Nat \ {0}
  BY ProgramAssumption, FS_CardinalityType
<1>2. IsFiniteSet(S) /\ Cardinality(S) = Steps(p)
  <2>1. 0 \in Int /\ Steps(p) - 1 \in Int /\ ~(0 > Steps(p) - 1)
        /\ Steps(p) - 1 - 0 + 1 = Steps(p)
    BY <1>1
  <2>2. IsFiniteSet(S) /\ Cardinality(S) = Steps(p) - 1 - 0 + 1
    BY <2>1, FS_Interval
  <2>3. QED
    BY <2>1, <2>2
<1>3. IsFiniteSet(pairs) /\ Cardinality(pairs) = Most(p)
  <2> HIDE DEF S
  <2>1. QED
    BY <1>1, <1>2, FS_Product DEF Most
<1>4. f \in Surjection(pairs, Gates(p))
  <2>1. f \in [pairs -> Gates(p)]
    <3>1. ASSUME NEW x \in pairs PROVE f[x] \in Gates(p)
      <4>1. f[x] = [worker |-> x[1], step |-> x[2]]
        OBVIOUS
      <4>2. x[1] \in Workers(p) /\ x[2] \in S
        OBVIOUS
      <4>3. QED
        BY <4>1, <4>2 DEF Gates
    <3>2. QED
      BY <3>1
  <2>2. ASSUME NEW t \in Gates(p) PROVE \E x \in pairs : f[x] = t
    <3>1. t.worker \in Workers(p) /\ t.step \in S
          /\ t = [worker |-> t.worker, step |-> t.step]
      BY DEF Gates
    <3>2. <<t.worker, t.step>> \in pairs
          /\ f[<<t.worker, t.step>>] = [worker |-> t.worker, step |-> t.step]
      BY <3>1
    <3>3. QED
      BY <3>1, <3>2
  <2> HIDE DEF f, pairs
  <2>3. QED
    BY <2>1, <2>2 DEF Surjection
<1>5. Most(p) \in Nat
  BY <1>1 DEF Most
<1> HIDE DEF f, pairs
<1>6. IsFiniteSet(Gates(p)) /\ Cardinality(Gates(p)) <= Cardinality(pairs)
  BY <1>3, <1>4, FS_Surjection
<1>7. QED
  BY <1>3, <1>5, <1>6, FS_CardinalityType

\* The steps of w in a schedule, before position n.
Own(schedule, w, n) == {j \in 1..n : schedule[j].worker = w}

LEMMA OwnFinite ==
    ASSUME NEW schedule, NEW w, NEW n \in Nat
    PROVE  IsFiniteSet(Own(schedule, w, n)) /\ Cardinality(Own(schedule, w, n)) \in Nat
<1>1. IsFiniteSet(1..n)
  BY FS_Interval
<1>2. Own(schedule, w, n) \in SUBSET (1..n)
  BY DEF Own
<1>3. QED
  BY <1>1, <1>2, FS_Subset, FS_CardinalityType

LEMMA CountsOwn ==
    ASSUME NEW p \in Scene, NEW schedule \in Schedule, NEW n \in 0..Len(schedule)
    PROVE  Counts(p, SubSeq(schedule, 1, n)) =
              [w \in Workers(p) |-> Cardinality(Own(schedule, w, n))]
<1> DEFINE a == SubSeq(schedule, 1, n)
<1>1. Len(a) = n /\ a \in Seq(Transition) /\ \A i \in 1..n : a[i] = schedule[i]
  BY Beginning DEF Schedule
<1> HIDE DEF a
<1>2. DOMAIN a = 1..n
  BY <1>1
<1>3. \A w : {j \in DOMAIN a : a[j].worker = w} = Own(schedule, w, n)
  BY <1>1, <1>2 DEF Own
<1>4. QED
  BY <1>3 DEF Counts, a

LEMMA CountsType ==
    ASSUME NEW p \in Scene, NEW schedule \in Schedule
    PROVE  Counts(p, schedule) \in [Workers(p) -> Nat]
<1>1. Len(schedule) \in 0..Len(schedule) /\ Len(schedule) \in Nat
      /\ SubSeq(schedule, 1, Len(schedule)) = schedule
  BY SubSeqFull DEF Schedule
<1>2. Counts(p, schedule) =
         [w \in Workers(p) |-> Cardinality(Own(schedule, w, Len(schedule)))]
  BY <1>1, CountsOwn
<1>3. \A w : Cardinality(Own(schedule, w, Len(schedule))) \in Nat
  BY <1>1, OwnFinite
<1>4. QED
  BY <1>2, <1>3

LEMMA CountsStart ==
    ASSUME NEW p \in Scene
    PROVE  Counts(p, <<>>) = [w \in Workers(p) |-> 0]
<1>1. \A w : {j \in DOMAIN <<>> : <<>>[j].worker = w} = {}
  OBVIOUS
<1>2. Cardinality({}) = 0
  BY FS_EmptySet
<1>3. QED
  BY <1>1, <1>2 DEF Counts

\* copyNext, counted up.
LEMMA CountsGrow ==
    ASSUME NEW p \in Scene, NEW schedule \in Schedule, NEW t \in Gates(p)
    PROVE  Counts(p, Append(schedule, t)) =
              [Counts(p, schedule) EXCEPT ![t.worker] = @ + 1]
<1> DEFINE b == Append(schedule, t)
           n == Len(schedule)
<1>1. t \in Transition /\ t.worker \in Workers(p)
  BY ProgramAssumption DEF Gates
<1>2. /\ n \in Nat /\ b \in Schedule /\ Len(b) = n + 1
      /\ \A i \in 1..n : b[i] = schedule[i]
      /\ b[n+1] = t
      /\ SubSeq(b, 1, n+1) = b /\ SubSeq(schedule, 1, n) = schedule
  BY <1>1, SubSeqFull DEF Schedule
<1> HIDE DEF b
<1>3. /\ Counts(p, b) = [w \in Workers(p) |-> Cardinality(Own(b, w, n+1))]
      /\ Counts(p, schedule) = [w \in Workers(p) |-> Cardinality(Own(schedule, w, n))]
  <2>1. n + 1 \in 0..Len(b) /\ n \in 0..Len(schedule)
    BY <1>2
  <2>2. Counts(p, SubSeq(b, 1, n+1)) = [w \in Workers(p) |-> Cardinality(Own(b, w, n+1))]
    BY <1>2, <2>1, CountsOwn
  <2>3. Counts(p, SubSeq(schedule, 1, n)) = [w \in Workers(p) |-> Cardinality(Own(schedule, w, n))]
    BY <2>1, CountsOwn
  <2>4. QED
    BY <1>2, <2>2, <2>3
<1> HIDE DEF n
<1>4. ASSUME NEW w \in Workers(p)
      PROVE  Cardinality(Own(b, w, n+1)) =
                IF w = t.worker THEN Cardinality(Own(schedule, w, n)) + 1
                ELSE Cardinality(Own(schedule, w, n))
  <2>1. CASE w = t.worker
    <3>1. Own(b, w, n+1) = Own(schedule, w, n) \cup {n+1} /\ n + 1 \notin Own(schedule, w, n)
      BY <1>2, <2>1 DEF Own
    <3>2. QED
      BY <1>2, <2>1, <3>1, OwnFinite, FS_AddElement
  <2>2. CASE w # t.worker
    <3>1. Own(b, w, n+1) = Own(schedule, w, n)
      BY <1>2, <2>2 DEF Own
    <3>2. QED
      BY <2>2, <3>1
  <2>3. QED
    BY <2>1, <2>2
<1>5. QED
  BY <1>1, <1>3, <1>4 DEF b

\* What is offered are gates.
LEMMA OfferType ==
    ASSUME NEW p \in Scene, NEW schedule \in Schedule
    PROVE  Offer(p, Counts(p, schedule)) \subseteq Gates(p)
<1>1. Counts(p, schedule) \in [Workers(p) -> Nat] /\ Steps(p) \in Nat
  BY CountsType, ProgramAssumption
<1>2. \A w \in Workers(p) : Counts(p, schedule)[w] < Steps(p) =>
         Counts(p, schedule)[w] \in 0..Steps(p)-1
  BY <1>1
<1>3. QED
  BY <1>2 DEF Offer, Gates

-----------------------------------------------------------------------------
(* The executions of a program. *)

\* Runs collects the walks that are no longer than there are gates.
LEMMA RunsAreWalks ==
    ASSUME NEW p \in Scene
    PROVE  \A r : r \in Runs(p) <=>
              /\ r \in [sched : Schedule, end : State(p)]
              /\ WalksTo(p, r.sched, r.end)
              /\ Len(r.sched) <= Most(p)
<1> DEFINE Equation(R) == Collects(p, Nat, R)
           R == CHOOSE R : Equation(R)
<1>1. Runs(p) = UNION {R[n] : n \in 0..Most(p)}
  BY DEF Runs, Collects, Further, Most
<1>2. /\ \E S : Equation(S)
      /\ \A S : Equation(S) => \A n \in Nat : S[n] = Walks(p, n)
  <2>1. Nat \in SUBSET Nat /\ 0 \in Nat /\ \A n \in Nat : n + 1 \in Nat => n \in Nat
    OBVIOUS
  <2>2. QED
    BY <2>1, WalksCollected
<1>3. Equation(R)
  <2> HIDE DEF Equation
  <2>1. QED
    BY <1>2
<1> HIDE DEF R
<1>4. \A n \in Nat : R[n] = Walks(p, n)
  BY <1>2, <1>3
<1>5. Most(p) \in Nat
  BY GatesCounted
<1>6. \A r : r \in Runs(p) <=> \E n \in 0..Most(p) : r \in Walks(p, n)
  BY <1>1, <1>4, <1>5
<1>7. \A r \in [sched : Schedule, end : State(p)] : Len(r.sched) \in Nat
  BY DEF Schedule
<1>8. QED
  BY <1>5, <1>6, <1>7 DEF Walks

\* In a walk every transition is the next step of its worker.
LEMMA WalkIsOrderly ==
    ASSUME NEW p \in Scene, NEW schedule \in Schedule, NEW s,
           WalksTo(p, schedule, s), NEW n \in Nat, n < Len(schedule), n <= Most(p)
    PROVE  schedule[n+1] \in Offer(p, Counts(p, SubSeq(schedule, 1, n)))
<1> DEFINE a == SubSeq(schedule, 1, n)
<1>1. n \in 0..Len(schedule)
  BY DEF Schedule
<1>2. a \in Schedule /\ Len(a) = n
  BY <1>1, Beginning DEF Schedule
<1>3. PICK r \in State(p) : WalksTo(p, a, r) /\ schedule[n+1] \in Enabled(p, r)
  BY WalkOn
<1> HIDE DEF a
<1>4. [sched |-> a, end |-> r] \in Runs(p)
  BY <1>2, <1>3, RunsAreWalks
<1>5. Enabled(p, r) \subseteq Offer(p, Counts(p, a))
  BY <1>4, OfferAssumption
<1>6. QED
  BY <1>3, <1>5 DEF a

\* Of two steps of a worker the earlier one has the smaller number.
LEMMA NoGateTwice ==
    ASSUME NEW p \in Scene, NEW schedule \in Schedule,
           NEW i \in 1..Len(schedule), NEW k \in 1..Len(schedule), i < k,
           schedule[i] \in Offer(p, Counts(p, SubSeq(schedule, 1, i-1))),
           schedule[k] \in Offer(p, Counts(p, SubSeq(schedule, 1, k-1)))
    PROVE  schedule[i] # schedule[k]
<1> SUFFICES ASSUME schedule[i] = schedule[k] PROVE FALSE
  OBVIOUS
<1>1. /\ Len(schedule) \in Nat /\ i \in Nat /\ k \in Nat
      /\ i - 1 \in 0..Len(schedule) /\ k - 1 \in 0..Len(schedule)
      /\ i - 1 \in Nat /\ k - 1 \in Nat
  BY DEF Schedule
<1>2. PICK w \in Workers(p) :
         schedule[i] = [worker |-> w, step |-> Counts(p, SubSeq(schedule, 1, i-1))[w]]
  BY DEF Offer
<1>3. PICK v \in Workers(p) :
         schedule[k] = [worker |-> v, step |-> Counts(p, SubSeq(schedule, 1, k-1))[v]]
  BY DEF Offer
<1>4. /\ schedule[i].worker = w
      /\ schedule[i].step = Counts(p, SubSeq(schedule, 1, i-1))[w]
  BY ONLY <1>2
<1>5. /\ schedule[k].worker = v
      /\ schedule[k].step = Counts(p, SubSeq(schedule, 1, k-1))[v]
  BY ONLY <1>3
<1>6. Counts(p, SubSeq(schedule, 1, i-1))[w] = Counts(p, SubSeq(schedule, 1, k-1))[w]
  BY <1>4, <1>5
<1> DEFINE A == Own(schedule, w, i-1)
           B == Own(schedule, w, k-1)
<1>7. Cardinality(A) = Cardinality(B)
  <2>1. Counts(p, SubSeq(schedule, 1, i-1)) =
           [u \in Workers(p) |-> Cardinality(Own(schedule, u, i-1))]
    BY <1>1, CountsOwn
  <2>2. Counts(p, SubSeq(schedule, 1, k-1)) =
           [u \in Workers(p) |-> Cardinality(Own(schedule, u, k-1))]
    BY <1>1, CountsOwn
  <2>3. QED
    BY <1>6, <2>1, <2>2
<1>8. A \in SUBSET B /\ i \in B /\ i \notin A
  BY <1>1, <1>4 DEF Own
<1>9. IsFiniteSet(B)
  BY <1>1, OwnFinite
<1> HIDE DEF A, B
<1>10. QED
  BY <1>7, <1>8, <1>9, FS_Subset

\* Hence a walk ends when all gates are open.
LEMMA WalksAreBounded ==
    ASSUME NEW p \in Scene, NEW schedule \in Schedule, NEW s,
           WalksTo(p, schedule, s)
    PROVE  Len(schedule) <= Most(p)
<1> SUFFICES ASSUME ~(Len(schedule) <= Most(p)) PROVE FALSE
  OBVIOUS
<1> DEFINE S == 1..Most(p)+1
           f == [i \in S |-> schedule[i]]
<1>1. /\ IsFiniteSet(Gates(p)) /\ Cardinality(Gates(p)) <= Most(p)
      /\ Cardinality(Gates(p)) \in Nat /\ Most(p) \in Nat
      /\ Len(schedule) \in Nat
  BY GatesCounted DEF Schedule
<1>2. ASSUME NEW i \in S
      PROVE  /\ i \in 1..Len(schedule)
             /\ schedule[i] \in Offer(p, Counts(p, SubSeq(schedule, 1, i-1)))
             /\ schedule[i] \in Gates(p)
  <2>1. i \in 1..Len(schedule) /\ i - 1 \in Nat /\ i - 1 < Len(schedule)
        /\ i - 1 <= Most(p) /\ (i - 1) + 1 = i
    BY <1>1
  <2>2. schedule[(i - 1) + 1] \in Offer(p, Counts(p, SubSeq(schedule, 1, i-1)))
    BY <2>1, WalkIsOrderly
  <2>3. SubSeq(schedule, 1, i-1) \in Schedule
    BY <2>1, Beginning DEF Schedule
  <2>4. QED
    BY <2>1, <2>2, <2>3, OfferType
<1>3. IsFiniteSet(S) /\ Cardinality(S) = Most(p) + 1
  <2>1. 1 \in Int /\ Most(p) + 1 \in Int /\ ~(1 > Most(p) + 1)
        /\ Most(p) + 1 - 1 + 1 = Most(p) + 1
    BY <1>1
  <2>2. IsFiniteSet(S) /\ Cardinality(S) = Most(p) + 1 - 1 + 1
    BY <2>1, FS_Interval
  <2>3. QED
    BY <2>1, <2>2
<1>4. f \in [S -> Gates(p)] /\ \A i \in S : f[i] = schedule[i]
  BY <1>2
<1>5. S \subseteq Nat
  BY <1>1
<1> HIDE DEF S, f
<1>6. Cardinality(Gates(p)) < Cardinality(S)
  BY <1>1, <1>3
<1>7. PICK i \in S, k \in S : i # k /\ f[i] = f[k]
  BY <1>1, <1>3, <1>4, <1>6, FS_PigeonHole
<1>8. ASSUME NEW m \in S, NEW n \in S, m < n PROVE f[m] # f[n]
  <2>1. m \in 1..Len(schedule) /\ n \in 1..Len(schedule)
    BY <1>2
  <2>2. /\ schedule[m] \in Offer(p, Counts(p, SubSeq(schedule, 1, m-1)))
        /\ schedule[n] \in Offer(p, Counts(p, SubSeq(schedule, 1, n-1)))
    BY <1>2
  <2>3. schedule[m] # schedule[n]
    BY <1>8, <2>1, <2>2, NoGateTwice
  <2>4. QED
    BY <1>4, <2>3
<1>9. i < k \/ k < i
  BY <1>5, <1>7
<1>10. QED
  BY <1>7, <1>8, <1>9

\* Every walk is one of the runs.
LEMMA WalkIsRun ==
    ASSUME NEW p \in Scene, NEW schedule \in Schedule, NEW s,
           WalksTo(p, schedule, s)
    PROVE  [sched |-> schedule, end |-> s] \in Runs(p)
<1>1. s \in State(p)
  BY WalkInState
<1>2. QED
  BY <1>1, WalksAreBounded, RunsAreWalks

-----------------------------------------------------------------------------
(* The calls of search under way, as a sequence of records, and the schedule *)
(* they are at: that of the latest call, or the candidate it executes.       *)

Frame(p) == [sched : Schedule, next : [Workers(p) -> Nat], rest : SUBSET Gates(p)]

\* execute has carried out schedule, and found no violation.
Clean(p, schedule) ==
    \E s : WalksTo(p, schedule, s) /\ GoesOn(p, schedule, s)

After(t, u) == u # t /\ Precedes(t, u)

\* The calls continue each other's schedules, which are clean; each has its own
\* count of the steps and transitions of these that it has yet to try, all of
\* which come after the one that it is trying.
Nested(p, calls, line) ==
    /\ calls \in Seq(Frame(p))
    /\ line \in Schedule
    /\ \A i \in 1..Len(calls) :
          /\ calls[i].sched = SubSeq(line, 1, i-1)
          /\ calls[i].next = Counts(p, calls[i].sched)
          /\ calls[i].rest \subseteq Offer(p, calls[i].next)
          /\ Clean(p, calls[i].sched)
    /\ \A i \in 1..Len(calls) :
          i <= Len(line) => \A u \in calls[i].rest : After(line[i], u)

\* One of the calls will come to schedule b.
Awaited(calls, b) ==
    \E i \in 1..Len(calls) : /\ i <= Len(b)
                             /\ SubSeq(b, 1, i-1) = calls[i].sched
                             /\ b[i] \in calls[i].rest

\* b is the candidate line, or continues it.
Continues(b, line) == Len(line) <= Len(b) /\ SubSeq(b, 1, Len(line)) = line

LEMMA BeginningOf ==
    ASSUME NEW s \in Schedule, NEW m \in 0..Len(s), NEW n \in 0..m
    PROVE  SubSeq(SubSeq(s, 1, m), 1, n) = SubSeq(s, 1, n)
<1>1. s \in Seq(Transition) /\ Len(s) \in Nat /\ n \in 0..Len(s)
  BY DEF Schedule
<1>2. SubSeq(s, 1, m) \in Seq(Transition) /\ Len(SubSeq(s, 1, m)) = m
      /\ \A i \in 1..m : SubSeq(s, 1, m)[i] = s[i]
  BY <1>1, Beginning
<1> DEFINE a == SubSeq(s, 1, m)
<1>3. SubSeq(a, 1, n) \in Seq(Transition) /\ Len(SubSeq(a, 1, n)) = n
      /\ \A i \in 1..n : SubSeq(a, 1, n)[i] = a[i]
  BY <1>2, Beginning
<1>4. SubSeq(s, 1, n) \in Seq(Transition) /\ Len(SubSeq(s, 1, n)) = n
      /\ \A i \in 1..n : SubSeq(s, 1, n)[i] = s[i]
  BY <1>1, Beginning
<1> HIDE DEF a
<1>5. \A i \in 1..n : SubSeq(a, 1, n)[i] = SubSeq(s, 1, n)[i]
  BY <1>2, <1>3, <1>4 DEF a
<1>6. SubSeq(a, 1, n) = SubSeq(s, 1, n)
  BY <1>3, <1>4, <1>5
<1>7. QED
  BY <1>6 DEF a

\* A schedule with one more transition begins with those of the schedule.
LEMMA AppendBegins ==
    ASSUME NEW s \in Schedule, NEW t \in Transition
    PROVE  /\ Append(s, t) \in Schedule
           /\ Len(Append(s, t)) = Len(s) + 1
           /\ Append(s, t)[Len(s) + 1] = t
           /\ \A i \in 1..Len(s) : Append(s, t)[i] = s[i]
           /\ \A n \in 0..Len(s) : SubSeq(Append(s, t), 1, n) = SubSeq(s, 1, n)
<1> DEFINE a == Append(s, t)
           l == Len(s)
<1>1. /\ a \in Schedule /\ Len(a) = l + 1 /\ a[l+1] = t /\ l \in Nat
      /\ \A i \in 1..l : a[i] = s[i]
  BY DEF Schedule
<1>2. SubSeq(a, 1, l) = s
  <2>1. l \in 0..Len(a) /\ a \in Seq(Transition)
    BY <1>1 DEF Schedule
  <2>2. SubSeq(a, 1, l) \in Seq(Transition) /\ Len(SubSeq(a, 1, l)) = l
        /\ \A i \in 1..l : SubSeq(a, 1, l)[i] = a[i]
    BY <2>1, Beginning
  <2> HIDE DEF a
  <2>3. s \in Seq(Transition) /\ \A i \in 1..l : SubSeq(a, 1, l)[i] = s[i]
    BY <1>1, <2>2 DEF Schedule
  <2>4. QED
    BY <2>2, <2>3
<1>3. ASSUME NEW n \in 0..l PROVE SubSeq(a, 1, n) = SubSeq(s, 1, n)
  <2>1. l \in 0..Len(a)
    BY <1>1
  <2> HIDE DEF a, l
  <2>2. SubSeq(SubSeq(a, 1, l), 1, n) = SubSeq(a, 1, n)
    BY <1>1, <2>1, BeginningOf
  <2>3. QED
    BY <1>2, <2>2
<1>4. QED
  BY <1>1, <1>3

\* The candidate: t is the first of the transitions left.
LEMMA Tried ==
    ASSUME NEW p \in Scene, NEW calls, NEW line, Nested(p, calls, line),
           NEW n \in Nat \ {0}, Len(calls) = n, Len(line) = n - 1,
           NEW t \in calls[n].rest, \A u \in calls[n].rest \ {t} : Precedes(t, u)
    PROVE  LET new == [calls EXCEPT ![n].rest = @ \ {t}]
               candidate == Append(line, t)
           IN  /\ Nested(p, new, candidate) /\ Len(new) = n
               /\ Len(candidate) = n /\ candidate[n] = t
               /\ t \in Offer(p, new[n].next)
               /\ \A i \in 1..n : new[i].sched = calls[i].sched
               /\ \A b \in Schedule :
                     Awaited(calls, b) <=> Awaited(new, b) \/ Continues(b, candidate)
<1> DEFINE new == [calls EXCEPT ![n].rest = @ \ {t}]
           candidate == Append(line, t)
<1>1. /\ calls \in Seq(Frame(p)) /\ line \in Schedule
      /\ n \in 1..Len(calls) /\ calls[n] \in Frame(p)
  BY DEF Nested
<1>2. t \in Gates(p) /\ t \in Transition
  BY <1>1, ProgramAssumption DEF Frame, Gates
<1>3. /\ candidate \in Schedule /\ Len(candidate) = n /\ candidate[n] = t
      /\ \A i \in 1..n-1 : candidate[i] = line[i]
      /\ \A i \in 1..n : SubSeq(candidate, 1, i-1) = SubSeq(line, 1, i-1)
  <2>1. \A i \in 1..n : i - 1 \in 0..Len(line)
    OBVIOUS
  <2>2. Len(line) + 1 = n
    OBVIOUS
  <2>3. QED
    BY <1>1, <1>2, <2>1, <2>2, AppendBegins
<1>4. /\ new \in Seq(Frame(p)) /\ Len(new) = n
      /\ \A i \in 1..n-1 : new[i] = calls[i]
      /\ new[n] = [calls[n] EXCEPT !.rest = @ \ {t}]
  <2>1. [calls[n] EXCEPT !.rest = @ \ {t}] \in Frame(p)
    BY <1>1 DEF Frame
  <2>2. QED
    BY <1>1, <2>1
<1>5. \A i \in 1..n : /\ new[i].sched = calls[i].sched
                      /\ new[i].next = calls[i].next
                      /\ new[i].rest \subseteq calls[i].rest
                      /\ i # n => new[i].rest = calls[i].rest
  <2>1. new[n].sched = calls[n].sched /\ new[n].next = calls[n].next
        /\ new[n].rest = calls[n].rest \ {t}
    BY <1>1, <1>4 DEF Frame
  <2>2. QED
    BY <1>4, <2>1
<1>6. new[n].rest = calls[n].rest \ {t}
  BY <1>1, <1>4 DEF Frame
<1> HIDE DEF new, candidate
<1>7. ASSUME NEW i \in 1..n
      PROVE  /\ new[i].sched = SubSeq(candidate, 1, i-1)
             /\ new[i].next = Counts(p, new[i].sched)
             /\ new[i].rest \subseteq Offer(p, new[i].next)
             /\ Clean(p, new[i].sched)
             /\ \A u \in new[i].rest : After(candidate[i], u)
  <2>1. /\ calls[i].sched = SubSeq(line, 1, i-1)
        /\ calls[i].next = Counts(p, calls[i].sched)
        /\ calls[i].rest \subseteq Offer(p, calls[i].next)
        /\ Clean(p, calls[i].sched)
    BY <1>1 DEF Nested
  <2>2. \A u \in new[i].rest : After(candidate[i], u)
    <3>1. CASE i = n
      BY <1>3, <1>6, <3>1 DEF After
    <3>2. CASE i # n
      <4>1. i <= Len(line) /\ candidate[i] = line[i] /\ new[i].rest = calls[i].rest
        BY <1>3, <1>5, <3>2
      <4>2. QED
        BY <4>1 DEF Nested
    <3>3. QED
      BY <3>1, <3>2
  <2>3. QED
    BY <1>3, <1>5, <2>1, <2>2
<1>8. Nested(p, new, candidate)
  BY <1>3, <1>4, <1>7 DEF Nested
<1>9. t \in Offer(p, new[n].next)
  BY <1>1, <1>5 DEF Nested
<1>10. ASSUME NEW b \in Schedule, Awaited(calls, b)
       PROVE  Awaited(new, b) \/ Continues(b, candidate)
  <2>1. PICK i \in 1..n : /\ i <= Len(b)
                          /\ SubSeq(b, 1, i-1) = calls[i].sched
                          /\ b[i] \in calls[i].rest
    BY <1>10 DEF Awaited
  <2>2. CASE i # n \/ b[i] # t
    <3>1. b[i] \in new[i].rest
      BY <1>5, <1>6, <2>1, <2>2
    <3>2. QED
      BY <1>4, <1>5, <2>1, <3>1 DEF Awaited
  <2>3. CASE i = n /\ b[i] = t
    <3>1. b \in Seq(Transition) /\ Len(b) \in Nat /\ n - 1 \in Nat /\ n - 1 < Len(b)
          /\ (n - 1) + 1 = n
      BY <2>1, <2>3 DEF Schedule
    <3>2. SubSeq(b, 1, (n - 1) + 1) = Append(SubSeq(b, 1, n - 1), b[(n - 1) + 1])
      BY <3>1, BeginningGrows
    <3>3. calls[n].sched = SubSeq(line, 1, n - 1)
      BY <1>1 DEF Nested
    <3>4. SubSeq(line, 1, n - 1) = line
      BY <1>1, SubSeqFull DEF Schedule
    <3>5. SubSeq(b, 1, n) = candidate
      BY <2>1, <2>3, <3>1, <3>2, <3>3, <3>4 DEF candidate
    <3>6. QED
      BY <1>3, <2>1, <2>3, <3>5 DEF Continues
  <2>4. QED
    BY <2>2, <2>3
<1>11. ASSUME NEW b \in Schedule, Awaited(new, b)
       PROVE  Awaited(calls, b)
  <2>1. PICK i \in 1..n : /\ i <= Len(b)
                          /\ SubSeq(b, 1, i-1) = new[i].sched
                          /\ b[i] \in new[i].rest
    BY <1>4, <1>11 DEF Awaited
  <2>2. b[i] \in calls[i].rest /\ SubSeq(b, 1, i-1) = calls[i].sched
    BY <1>5, <2>1
  <2>3. QED
    BY <2>1, <2>2 DEF Awaited
<1>12. ASSUME NEW b \in Schedule, Continues(b, candidate)
       PROVE  Awaited(calls, b)
  <2>1. /\ n <= Len(b) /\ SubSeq(b, 1, n) = candidate /\ Len(b) \in Nat
        /\ n \in 0..Len(b) /\ n - 1 \in 0..n /\ b \in Seq(Transition)
    BY <1>3, <1>12 DEF Continues, Schedule
  <2>2. SubSeq(b, 1, n - 1) = SubSeq(candidate, 1, n - 1)
    BY <2>1, BeginningOf
  <2>3. SubSeq(candidate, 1, n - 1) = SubSeq(line, 1, n - 1)
    BY <1>1, <1>3
  <2>4. b[n] = t
    <3>1. \A i \in 1..n : SubSeq(b, 1, n)[i] = b[i]
      BY <2>1, Beginning
    <3>2. QED
      BY <1>1, <1>3, <2>1, <3>1
  <2>5. calls[n].sched = SubSeq(line, 1, n - 1)
    BY <1>1 DEF Nested
  <2>6. QED
    BY <1>1, <2>1, <2>2, <2>3, <2>4, <2>5 DEF Awaited
<1>13. QED
  BY <1>3, <1>4, <1>5, <1>8, <1>9, <1>10, <1>11, <1>12 DEF new, candidate

\* The candidate is passed over.
LEMMA PassedOver ==
    ASSUME NEW p \in Scene, NEW calls, NEW line, Nested(p, calls, line),
           NEW n \in Nat \ {0}, Len(calls) = n, Len(line) = n
    PROVE  Nested(p, calls, calls[n].sched) /\ Len(calls[n].sched) = n - 1
<1> DEFINE a == calls[n].sched
<1>1. /\ calls \in Seq(Frame(p)) /\ line \in Schedule /\ n \in 1..Len(calls)
      /\ a = SubSeq(line, 1, n-1) /\ n - 1 \in 0..Len(line)
  BY DEF Nested
<1>2. a \in Schedule /\ Len(a) = n - 1 /\ \A i \in 1..n-1 : a[i] = line[i]
  BY <1>1, Beginning DEF Schedule
<1>3. \A i \in 1..n : SubSeq(a, 1, i-1) = SubSeq(line, 1, i-1)
  <2>1. \A i \in 1..n : i - 1 \in 0..n-1
    OBVIOUS
  <2>2. QED
    BY <1>1, <2>1, BeginningOf
<1> HIDE DEF a
<1>4. Nested(p, calls, a)
  <2>1. ASSUME NEW i \in 1..n
        PROVE  /\ calls[i].sched = SubSeq(a, 1, i-1)
               /\ calls[i].next = Counts(p, calls[i].sched)
               /\ calls[i].rest \subseteq Offer(p, calls[i].next)
               /\ Clean(p, calls[i].sched)
    BY <1>1, <1>3 DEF Nested
  <2>2. ASSUME NEW i \in 1..n, i <= Len(a), NEW u \in calls[i].rest
        PROVE  After(a[i], u)
    <3>1. i \in 1..n-1 /\ i <= Len(line)
      BY <1>2, <2>2
    <3>2. After(line[i], u)
      BY <1>1, <3>1, <2>2 DEF Nested
    <3>3. QED
      BY <1>2, <3>1, <3>2
  <2>3. QED
    BY <1>1, <1>2, <2>1, <2>2 DEF Nested
<1>5. QED
  BY <1>2, <1>4 DEF a

\* A call that has tried everything returns.
LEMMA Returned ==
    ASSUME NEW p \in Scene, NEW calls, NEW line, Nested(p, calls, line),
           NEW n \in Nat \ {0}, Len(calls) = n, Len(line) = n - 1,
           calls[n].rest = {}
    PROVE  LET callers == SubSeq(calls, 1, n - 1)
           IN  /\ callers \in Seq(Frame(p)) /\ Len(callers) = n - 1
               /\ n # 1 => /\ Nested(p, callers, callers[n-1].sched)
                           /\ Len(callers[n-1].sched) = n - 2
               /\ \A i \in 1..n-1 : callers[i] = calls[i]
               /\ \A b : Awaited(calls, b) <=> Awaited(callers, b)
<1> DEFINE callers == SubSeq(calls, 1, n - 1)
<1>1. /\ calls \in Seq(Frame(p)) /\ line \in Schedule
      /\ n - 1 \in 0..Len(calls)
  BY DEF Nested
<1>2. /\ callers \in Seq(Frame(p)) /\ Len(callers) = n - 1
      /\ \A i \in 1..n-1 : callers[i] = calls[i]
  BY <1>1, Beginning
<1> HIDE DEF callers
<1>3. Nested(p, callers, line)
  <2>1. ASSUME NEW i \in 1..n-1
        PROVE  /\ callers[i].sched = SubSeq(line, 1, i-1)
               /\ callers[i].next = Counts(p, callers[i].sched)
               /\ callers[i].rest \subseteq Offer(p, callers[i].next)
               /\ Clean(p, callers[i].sched)
               /\ i <= Len(line) => \A u \in callers[i].rest : After(line[i], u)
    <3>1. i \in 1..Len(calls) /\ callers[i] = calls[i]
      BY <1>2
    <3>2. QED
      BY <3>1 DEF Nested
  <2>2. QED
    BY <1>1, <1>2, <2>1 DEF Nested
<1>4. n # 1 => /\ Nested(p, callers, callers[n-1].sched)
               /\ Len(callers[n-1].sched) = n - 2
  <2>1. PICK m : m = n - 1
    OBVIOUS
  <2>2. n # 1 => m \in Nat \ {0} /\ m - 1 = n - 2
    BY <2>1
  <2>3. Len(callers) = m /\ Len(line) = m
    BY <1>2, <2>1
  <2>4. n # 1 => Nested(p, callers, callers[m].sched) /\ Len(callers[m].sched) = m - 1
    BY <1>3, <2>2, <2>3, PassedOver
  <2>5. QED
    BY <2>1, <2>2, <2>4
<1>5. ASSUME NEW b, Awaited(calls, b) PROVE Awaited(callers, b)
  <2>1. PICK i \in 1..n : /\ i <= Len(b)
                          /\ SubSeq(b, 1, i-1) = calls[i].sched
                          /\ b[i] \in calls[i].rest
    BY <1>5 DEF Awaited
  <2>2. i \in 1..n-1
    BY <2>1
  <2>3. QED
    BY <1>2, <2>1, <2>2 DEF Awaited
<1>6. ASSUME NEW b, Awaited(callers, b) PROVE Awaited(calls, b)
  <2>1. PICK i \in 1..n-1 : /\ i <= Len(b)
                            /\ SubSeq(b, 1, i-1) = callers[i].sched
                            /\ b[i] \in callers[i].rest
    BY <1>2, <1>6 DEF Awaited
  <2>2. i \in 1..Len(calls) /\ callers[i] = calls[i]
    BY <1>2, <2>1
  <2>3. QED
    BY <2>1, <2>2 DEF Awaited
<1>7. QED
  BY <1>2, <1>4, <1>5, <1>6 DEF callers

\* The candidate violates nothing: search is called on it.
LEMMA Descended ==
    ASSUME NEW p \in Scene, NEW calls, NEW line, Nested(p, calls, line),
           NEW n \in Nat, Len(calls) = n, Len(line) = n, Clean(p, line)
    PROVE  LET next == Counts(p, line)
               new == Append(calls, [sched |-> line, next |-> next,
                                     rest |-> Offer(p, next)])
           IN  /\ Nested(p, new, line) /\ Len(new) = n + 1
               /\ new[n+1].sched = line
               /\ \A i \in 1..n : new[i] = calls[i]
               /\ \A b \in Schedule : \A e : WalksTo(p, b, e) =>
                     (Awaited(new, b) <=>
                         Awaited(calls, b) \/ (Continues(b, line) /\ b # line))
<1> DEFINE next == Counts(p, line)
           call == [sched |-> line, next |-> next, rest |-> Offer(p, next)]
           new == Append(calls, call)
<1>1. calls \in Seq(Frame(p)) /\ line \in Schedule
  BY DEF Nested
<1>2. call \in Frame(p)
  BY <1>1, CountsType, OfferType DEF Frame
<1>3. /\ call.sched = line /\ call.next = next /\ call.rest = Offer(p, next)
  OBVIOUS
<1> HIDE DEF call
<1>4. /\ new \in Seq(Frame(p)) /\ Len(new) = n + 1 /\ new[n+1] = call
      /\ \A i \in 1..n : new[i] = calls[i]
  BY <1>1, <1>2
<1> HIDE DEF new, next
<1>5. SubSeq(line, 1, n) = line
  BY <1>1, SubSeqFull DEF Schedule
<1>6. Nested(p, new, line)
  <2>1. ASSUME NEW i \in 1..n+1
        PROVE  /\ new[i].sched = SubSeq(line, 1, i-1)
               /\ new[i].next = Counts(p, new[i].sched)
               /\ new[i].rest \subseteq Offer(p, new[i].next)
               /\ Clean(p, new[i].sched)
               /\ i <= Len(line) => \A u \in new[i].rest : After(line[i], u)
    <3>1. CASE i = n + 1
      <4>1. i - 1 = n /\ ~(i <= Len(line))
        BY <3>1
      <4>2. QED
        BY <1>3, <1>4, <1>5, <3>1, <4>1 DEF next
    <3>2. CASE i # n + 1
      <4>1. i \in 1..Len(calls) /\ new[i] = calls[i]
        BY <1>4, <3>2
      <4>2. QED
        BY <4>1 DEF Nested
    <3>3. QED
      BY <3>1, <3>2
  <2>2. QED
    BY <1>1, <1>4, <2>1 DEF Nested
<1>7. ASSUME NEW b, Awaited(calls, b) PROVE Awaited(new, b)
  <2>1. PICK i \in 1..n : /\ i <= Len(b)
                          /\ SubSeq(b, 1, i-1) = calls[i].sched
                          /\ b[i] \in calls[i].rest
    BY <1>7 DEF Awaited
  <2>2. i \in 1..Len(new) /\ new[i] = calls[i]
    BY <1>4
  <2>3. QED
    BY <2>1, <2>2 DEF Awaited
<1>8. ASSUME NEW b \in Schedule, NEW e, Continues(b, line), WalksTo(p, b, e),
             b # line
      PROVE  Awaited(new, b)
  <2>2. Len(b) \in Nat /\ n <= Len(b) /\ SubSeq(b, 1, n) = line
    BY <1>8 DEF Continues, Schedule
  <2>3. n # Len(b)
    BY <1>8, <2>2, SubSeqFull DEF Schedule
  <2>4. PICK r \in State(p) :
           WalksTo(p, SubSeq(b, 1, n), r) /\ b[n+1] \in Enabled(p, r)
    BY <1>8, <2>2, <2>3, WalkOn
  <2>5. [sched |-> line, end |-> r] \in Runs(p)
    BY <1>1, <2>2, <2>4, WalkIsRun
  <2>6. Enabled(p, r) \subseteq Offer(p, Counts(p, line))
    BY <2>5, OfferAssumption
  <2>7. b[n+1] \in new[n+1].rest
    BY <1>3, <1>4, <2>4, <2>6 DEF next
  <2>8. n + 1 \in 1..Len(new) /\ n + 1 <= Len(b) /\ (n + 1) - 1 = n
    BY <1>4, <2>2, <2>3
  <2>9. SubSeq(b, 1, (n + 1) - 1) = new[n+1].sched
    BY <1>3, <1>4, <2>2, <2>8
  <2>10. QED
    BY <2>7, <2>8, <2>9 DEF Awaited
<1>9. ASSUME NEW b \in Schedule, Awaited(new, b)
      PROVE  Awaited(calls, b) \/ (Continues(b, line) /\ b # line)
  <2>1. PICK i \in 1..n+1 : /\ i <= Len(b)
                            /\ SubSeq(b, 1, i-1) = new[i].sched
                            /\ b[i] \in new[i].rest
    BY <1>4, <1>9 DEF Awaited
  <2>2. CASE i = n + 1
    <3>1. n + 1 <= Len(b) /\ Len(b) \in Nat /\ SubSeq(b, 1, n) = line
      BY <1>3, <1>4, <2>1, <2>2 DEF Schedule
    <3>2. n <= Len(b) /\ Len(b) # n
      BY <3>1
    <3>3. QED
      BY <3>1, <3>2 DEF Continues
  <2>3. CASE i # n + 1
    <3>1. i \in 1..Len(calls) /\ new[i] = calls[i]
      BY <1>4, <2>3
    <3>2. QED
      BY <2>1, <3>1 DEF Awaited
  <2>4. QED
    BY <2>2, <2>3
<1>10. QED
  BY <1>3, <1>4, <1>6, <1>7, <1>8, <1>9 DEF new, call, next

\* Failing runs are walks into a violation.
LEMMA FailingWalks ==
    ASSUME NEW p \in Scene, NEW q \in FailingRuns(p)
    PROVE  /\ q.sched \in Schedule /\ q.sched # <<>> /\ q.end \in State(p)
           /\ WalksTo(p, q.sched, q.end) /\ Violates(p, q.end)
BY RunsAreWalks DEF FailingRuns

\* A schedule that fails is not one that was executed without a violation.
LEMMA FailingIsNotClean ==
    ASSUME NEW p \in Scene, NEW q \in FailingRuns(p), NEW line, Clean(p, line)
    PROVE  q.sched # line
<1>1. /\ q.sched \in Schedule /\ q.sched # <<>>
      /\ WalksTo(p, q.sched, q.end) /\ Violates(p, q.end)
  BY FailingWalks
<1>2. QED
  BY <1>1, WalkOne DEF Clean, GoesOn

\* The line itself is not awaited.
LEMMA LineIsTried ==
    ASSUME NEW p \in Scene, NEW calls, NEW line, Nested(p, calls, line)
    PROVE  ~Awaited(calls, line)
BY DEF Nested, Awaited, After

\* The schedule found comes before those still awaited.
LEMMA FoundFirst ==
    ASSUME NEW p \in Scene, NEW calls, NEW line, Nested(p, calls, line),
           Len(line) = Len(calls),
           NEW b \in Schedule, b # line,
           Awaited(calls, b) \/ Continues(b, line)
    PROVE  Before(line, b)
<1>1. /\ line \in Schedule /\ Len(line) \in Nat /\ Len(b) \in Nat
      /\ Len(calls) \in Nat
  BY DEF Nested, Schedule
<1>2. CASE Awaited(calls, b)
  <2>1. PICK i \in 1..Len(calls) : /\ i <= Len(b)
                                   /\ SubSeq(b, 1, i-1) = calls[i].sched
                                   /\ b[i] \in calls[i].rest
    BY <1>2 DEF Awaited
  <2>2. SubSeq(line, 1, i-1) = SubSeq(b, 1, i-1)
    BY <2>1 DEF Nested
  <2>3. Precedes(line[i], b[i])
    BY <1>1, <2>1 DEF Nested, After
  <2>4. i - 1 \in 0..Len(line) /\ i - 1 <= Len(b) /\ i - 1 # Len(line)
        /\ i - 1 < Len(b) /\ (i - 1) + 1 = i
    BY <1>1, <2>1
  <2>5. QED
    BY <2>2, <2>3, <2>4 DEF Before
<1>3. CASE Continues(b, line)
  <2>1. Len(line) <= Len(b) /\ SubSeq(b, 1, Len(line)) = line
    BY <1>3 DEF Continues
  <2>2. SubSeq(b, 1, Len(b)) = b /\ SubSeq(line, 1, Len(line)) = line
    BY <1>1, SubSeqFull DEF Schedule
  <2>3. Len(line) < Len(b)
    BY <1>1, <2>1, <2>2
  <2>4. Len(line) \in 0..Len(line)
    BY <1>1
  <2>5. QED
    BY <2>1, <2>2, <2>3, <2>4 DEF Before
<1>4. QED
  BY <1>2, <1>3

-----------------------------------------------------------------------------
(* What an execution shows. *)

LEMMA TakenWalks ==
    ASSUME ReplayInv
    PROVE  /\ scene \in Scene /\ script \in Schedule /\ taken \in Schedule
           /\ Len(taken) \in 0..Len(script)
           /\ taken = SubSeq(script, 1, Len(taken))
           /\ state \in State(scene)
           /\ WalksTo(scene, taken, state)
           /\ outcome # "failed" => GoesOn(scene, taken, state)
<1>1. /\ scene \in Scene /\ script \in Schedule /\ taken \in Schedule
      /\ Len(taken) <= Len(script) /\ state \in State(scene)
      /\ path \in Seq(State(scene))
      /\ taken = SubSeq(script, 1, Len(taken))
      /\ IsRun(scene, path, taken) /\ path[Len(path)] = state
      /\ CleanUpTo(scene, path,
                   IF outcome = "failed" THEN Len(path) - 1 ELSE Len(path))
  BY DEF ReplayInv, ReplayTypeOK, ReplayIsFaithful
<1>2. /\ Len(taken) \in Nat /\ Len(script) \in Nat
      /\ Len(path) = Len(taken) + 1
  BY <1>1 DEF Schedule, IsRun
<1>3. CleanUpTo(scene, path, Len(path) - 1)
  BY <1>1, <1>2 DEF CleanUpTo
<1>4. ASSUME outcome # "failed", taken # <<>> PROVE ~Violates(scene, state)
  <2>1. Len(taken) # 0
    BY <1>1, <1>4, EmptySeq DEF Schedule
  <2>2. Len(path) \in 2..Len(path)
    BY <1>2, <2>1
  <2>3. QED
    BY <1>1, <1>4, <2>2 DEF CleanUpTo
<1>5. QED
  BY <1>1, <1>2, <1>3, <1>4 DEF WalksTo, GoesOn

LEMMA ExecutedPasses ==
    ASSUME ReplayInv, outcome = "passed"
    PROVE  Clean(scene, script)
<1>1. taken = script
  BY DEF ReplayInv, ReplayIsFaithful
<1>2. QED
  BY <1>1, TakenWalks DEF Clean

\* No execution continues a candidate that execute does not carry out.
LEMMA ExecutedNot ==
    ASSUME ReplayInv, outcome = "invalid",
           NEW b \in Schedule, NEW e, WalksTo(scene, b, e)
    PROVE  ~Continues(b, script)
<1> SUFFICES ASSUME Continues(b, script) PROVE FALSE
  OBVIOUS
<1> DEFINE k == Len(taken)
<1>1. /\ script \in Schedule /\ Len(script) \in Nat /\ k \in Nat
      /\ k < Len(script) /\ script[k+1] \notin Enabled(scene, state)
  BY TakenWalks DEF ReplayInv, ReplayIsFaithful, Remaining, NextTransition, Schedule
<1>2. Len(script) <= Len(b) /\ SubSeq(b, 1, Len(script)) = script /\ Len(b) \in Nat
  BY DEF Continues, Schedule
<1>3. SubSeq(b, 1, k) = taken
  <2>1. Len(script) \in 0..Len(b) /\ k \in 0..Len(script)
    BY <1>1, <1>2
  <2>2. SubSeq(SubSeq(b, 1, Len(script)), 1, k) = SubSeq(b, 1, k)
    BY <2>1, BeginningOf
  <2>3. QED
    BY <1>2, <2>2, TakenWalks
<1>4. b[k+1] = script[k+1]
  <2>1. Len(script) \in 0..Len(b) /\ k + 1 \in 1..Len(script) /\ b \in Seq(Transition)
    BY <1>1, <1>2 DEF Schedule
  <2>2. \A i \in 1..Len(script) : SubSeq(b, 1, Len(script))[i] = b[i]
    BY <2>1, Beginning
  <2>3. QED
    BY <1>2, <2>1, <2>2
<1>5. scene \in Scene /\ taken \in Schedule /\ WalksTo(scene, taken, state)
  BY TakenWalks
<1> HIDE DEF k
<1>6. PICK r \in State(scene) :
         WalksTo(scene, SubSeq(b, 1, k), r) /\ b[k+1] \in Enabled(scene, r)
  BY <1>1, <1>2, <1>5, WalkOn
<1>7. r = state
  BY <1>3, <1>5, <1>6, WalkOne
<1>8. QED
  BY <1>1, <1>4, <1>6, <1>7

LEMMA Below ==
    ASSUME NEW l \in Nat, l # 0, NEW k \in 0..l, k # l
    PROVE  k \in 0..l-1 /\ k \in Nat /\ (k # l - 1 => k < l - 1)
OBVIOUS

\* An execution that fails comes to its end, if all but the last transition
\* were executed before.
LEMMA ExecutedFails ==
    ASSUME ReplayInv, outcome = "failed", script # <<>>,
           Clean(scene, SubSeq(script, 1, Len(script) - 1))
    PROVE  /\ taken = script
           /\ WalksTo(scene, script, state)
           /\ Violates(scene, state)
           /\ found = Check(scene, state, script)
<1> DEFINE l == Len(script)
           a == SubSeq(script, 1, l - 1)
           k == Len(taken)
<1>1. /\ scene \in Scene /\ script \in Schedule /\ taken \in Schedule
      /\ k \in 0..l /\ taken = SubSeq(script, 1, k)
      /\ WalksTo(scene, taken, state)
  BY TakenWalks
<1>2. /\ taken # <<>> /\ Violates(scene, state)
      /\ found = Check(scene, state, taken)
  BY DEF ReplayInv, ReplayIsFaithful
<1>3. l \in Nat \ {0} /\ l - 1 \in 0..l /\ SubSeq(script, 1, l) = script
  BY <1>1, EmptySeq, SubSeqFull DEF Schedule
<1>4. k = l
  <2>1. SUFFICES ASSUME k # l PROVE FALSE
    OBVIOUS
  <2>2. k \in 0..l-1 /\ k \in Nat /\ (k # l - 1 => k < l - 1)
    <3>1. l \in Nat /\ l # 0 /\ k \in 0..l
      BY <1>1, <1>3
    <3> HIDE DEF l, k
    <3>2. QED
      BY <2>1, <3>1, Below
  <2>3. a \in Schedule /\ Len(a) = l - 1
    BY <1>1, <1>3, Beginning DEF Schedule
  <2>4. SubSeq(a, 1, k) = taken
    BY <1>1, <1>3, <2>2, BeginningOf
  <2>5. PICK s : WalksTo(scene, a, s) /\ GoesOn(scene, a, s)
    BY DEF Clean
  <2> HIDE DEF a, k
  <2>6. CASE k = l - 1
    <3>1. taken = a
      BY <2>3, <2>4, <2>6, SubSeqFull DEF Schedule
    <3>2. QED
      BY <1>1, <1>2, <2>5, <3>1, WalkOne DEF GoesOn
  <2>7. CASE k # l - 1
    <3>1. k < Len(a)
      BY <2>2, <2>3, <2>7
    <3>2. PICK r \in State(scene) :
             WalksTo(scene, SubSeq(a, 1, k), r) /\ GoesOn(scene, SubSeq(a, 1, k), r)
      BY <1>1, <2>2, <2>3, <2>5, <3>1, WalkOn
    <3>3. QED
      BY <1>1, <1>2, <2>4, <3>2, WalkOne DEF GoesOn
  <2>8. QED
    BY <2>6, <2>7
<1>5. taken = script
  BY <1>1, <1>3, <1>4
<1>6. QED
  BY <1>1, <1>2, <1>5

-----------------------------------------------------------------------------
(* The search. *)

\* One of the calls will come to b, or is at it.
Ahead(b) == \/ Awaited(frames, b)
            \/ phase = "execute" /\ Continues(b, script)

\* No failing schedule is left behind, until one is reported.
NothingIsMissed ==
    \A q \in FailingRuns(scene) : phase # "over" => Ahead(q.sched)

SearchInv ==
    /\ scene \in Scene
    /\ phase \in {"search", "execute", "over"}
    /\ frames \in Seq(Frame(scene))
    /\ phase = "search" /\ frames # <<>> =>
          /\ Nested(scene, frames, Top.sched)
          /\ Len(Top.sched) = Len(frames) - 1
    /\ phase = "execute" =>
          /\ frames # <<>>
          /\ Nested(scene, frames, script)
          /\ Len(script) = Len(frames)
          /\ script[Len(script)] \in Offer(scene, Top.next)
    /\ NothingIsMissed
    /\ phase # "over" => result = NoWitness
    /\ phase = "over" => /\ FindsTheFirst
                         /\ result \in Witness
                         /\ result # NoWitness => Reproduces(scene, result)

\* The first call of search has every walk ahead.
LEMMA FirstCall ==
    ASSUME scene \in Scene, SearchBegin
    PROVE  /\ Nested(scene, frames, <<>>) /\ Len(frames) = 1
           /\ frames[1].sched = <<>>
           /\ \A b \in Schedule : \A e :
                 WalksTo(scene, b, e) /\ b # <<>> => Awaited(frames, b)
<1> DEFINE next == Counts(scene, <<>>)
           call == [sched |-> <<>>, next |-> next, rest |-> Offer(scene, next)]
<1>1. frames = Append(<<>>, call) /\ phase = "search" /\ result = NoWitness
  BY CountsStart DEF SearchBegin, Call
<1>2. Nested(scene, <<>>, <<>>)
  BY DEF Nested, Schedule
<1>3. Clean(scene, <<>>) /\ <<>> \in Schedule /\ Len(<<>>) = 0
  BY WalkStarts DEF Clean, GoesOn
<1>4. /\ Nested(scene, frames, <<>>) /\ Len(frames) = 1 /\ frames[1].sched = <<>>
      /\ \A b \in Schedule : \A e :
            WalksTo(scene, b, e) /\ Continues(b, <<>>) /\ b # <<>> =>
               Awaited(frames, b)
  <2>1. PICK calls, line, n : calls = <<>> /\ line = <<>> /\ n = 0
    OBVIOUS
  <2>2. /\ Nested(scene, calls, line) /\ n \in Nat /\ Len(calls) = n
        /\ Len(line) = n /\ Clean(scene, line)
    BY <1>2, <1>3, <2>1
  <2> DEFINE new == Append(calls, [sched |-> line, next |-> Counts(scene, line),
                                   rest |-> Offer(scene, Counts(scene, line))])
  <2>3. frames = new
    BY <1>1, <2>1
  <2>4. /\ Nested(scene, new, line) /\ Len(new) = n + 1
        /\ new[n+1].sched = line
        /\ \A b \in Schedule : \A e :
              WalksTo(scene, b, e) /\ Continues(b, line) /\ b # line =>
                 Awaited(new, b)
    BY <2>2, Descended
  <2> HIDE DEF new
  <2>5. QED
    BY <2>1, <2>3, <2>4
<1>5. \A b \in Schedule : Continues(b, <<>>)
  <2>1. \A b \in Schedule : Len(b) \in Nat /\ SubSeq(b, 1, 0) = <<>>
    BY DEF Schedule
  <2>2. QED
    BY <2>1, <1>3 DEF Continues
<1>6. ASSUME NEW b \in Schedule, NEW e, WalksTo(scene, b, e), b # <<>>
      PROVE  Awaited(frames, b)
  BY <1>4, <1>5, <1>6
<1>7. QED
  BY <1>4, <1>6

LEMMA SearchBegins == scene \in Scene /\ SearchBegin => SearchInv
<1> SUFFICES ASSUME scene \in Scene, SearchBegin PROVE SearchInv
  OBVIOUS
<1>1. phase = "search" /\ result = NoWitness
  BY DEF SearchBegin
<1>2. /\ Nested(scene, frames, <<>>) /\ Len(frames) = 1
      /\ frames[1].sched = <<>>
      /\ \A b \in Schedule : \A e :
            WalksTo(scene, b, e) /\ b # <<>> => Awaited(frames, b)
  BY FirstCall
<1>3. Top.sched = <<>> /\ frames \in Seq(Frame(scene)) /\ frames # <<>>
  <2>1. Top.sched = <<>> /\ frames \in Seq(Frame(scene))
    BY <1>2 DEF Top, Nested
  <2>2. Len(frames) # 0
    BY <1>2
  <2>3. QED
    BY <2>1, <2>2, EmptySeq
<1>4. NothingIsMissed
  BY <1>2, FailingWalks DEF NothingIsMissed, Ahead
<1>5. Len(<<>>) = 0
  OBVIOUS
<1>6. QED
  BY <1>1, <1>2, <1>3, <1>4, <1>5 DEF SearchInv

\* What is known when a call of search goes on with its loop.
LEMMA CallGoesOn ==
    ASSUME SearchInv, Searching
    PROVE  LET n == Len(frames)
           IN  /\ scene \in Scene /\ phase = "search" /\ result = NoWitness
               /\ n \in Nat \ {0} /\ n \in 1..n
               /\ Nested(scene, frames, Top.sched)
               /\ Len(Top.sched) = n - 1
               /\ Top = frames[n]
               /\ Top \in Frame(scene)
               /\ Top.next = Counts(scene, Top.sched)
               /\ Top.rest \subseteq Offer(scene, Top.next)
<1>1. /\ scene \in Scene /\ phase = "search" /\ result = NoWitness
      /\ frames # <<>> /\ frames \in Seq(Frame(scene))
      /\ Nested(scene, frames, Top.sched) /\ Len(Top.sched) = Len(frames) - 1
      /\ Top = frames[Len(frames)]
  BY DEF SearchInv, Searching, Top
<1>2. Len(frames) \in Nat \ {0} /\ Len(frames) \in 1..Len(frames)
  BY <1>1, EmptySeq
<1>3. frames[Len(frames)] \in Frame(scene)
  BY <1>1, <1>2
<1>4. QED
  BY <1>1, <1>2, <1>3 DEF Nested

\* A call returns nothing: by Leaf or by Back.
LEMMA CallReturned ==
    ASSUME SearchInv, Searching, Top.rest = {}
    PROVE  LET n == Len(frames)
           IN  /\ Callers \in Seq(Frame(scene)) /\ Len(Callers) = n - 1
               /\ n # 1 => /\ Nested(scene, Callers, Callers[n-1].sched)
                           /\ Len(Callers[n-1].sched) = n - 2
               /\ \A i \in 1..n-1 : Callers[i] = frames[i]
               /\ \A b : Awaited(frames, b) <=> Awaited(Callers, b)
<1>1. /\ scene \in Scene
      /\ Len(frames) \in Nat \ {0}
      /\ Nested(scene, frames, Top.sched) /\ Len(Top.sched) = Len(frames) - 1
      /\ frames[Len(frames)].rest = {}
  BY CallGoesOn
<1>2. QED
  BY <1>1, Returned DEF Callers

LEMMA ReturningOK ==
    ASSUME SearchInv, Searching, Top.rest = {},
           frames' = Callers, UNCHANGED <<scene, phase, result>>
    PROVE  SearchInv'
<1> DEFINE n == Len(frames)
<1>1. /\ scene \in Scene /\ phase = "search" /\ result = NoWitness
      /\ n \in Nat \ {0}
  BY CallGoesOn
<1>2. /\ Callers \in Seq(Frame(scene)) /\ Len(Callers) = n - 1
      /\ n # 1 => /\ Nested(scene, Callers, Callers[n-1].sched)
                  /\ Len(Callers[n-1].sched) = n - 2
      /\ \A b : Awaited(frames, b) <=> Awaited(Callers, b)
  BY CallReturned
<1> HIDE DEF n
<1>3. frames' # <<>> => /\ n # 1 /\ Top' = Callers[n-1]
                        /\ n - 2 = Len(Callers) - 1
  <2>1. ASSUME frames' # <<>> PROVE n # 1
    BY <1>2, <2>1, EmptySeq
  <2>2. Len(frames') = n - 1 /\ n - 2 = Len(Callers) - 1
    BY <1>1, <1>2
  <2>3. QED
    BY <2>1, <2>2 DEF Top
<1>4. NothingIsMissed'
  BY <1>1, <1>2 DEF SearchInv, NothingIsMissed, Ahead
<1>5. QED
  BY <1>1, <1>2, <1>3, <1>4 DEF SearchInv

\* The candidate that a call chooses.
LEMMA CandidateChosen ==
    ASSUME SearchInv, TryNext
    PROVE  LET n == Len(frames)
           IN  /\ Nested(scene, frames', script') /\ Len(frames') = n
               /\ Len(script') = n
               /\ script'[n] \in Offer(scene, frames'[n].next)
               /\ \A i \in 1..n : frames'[i].sched = frames[i].sched
               /\ \A b \in Schedule : Awaited(frames, b) <=>
                     Awaited(frames', b) \/ Continues(b, script')
<1> DEFINE n == Len(frames)
           t == First(Top.rest)
           candidate == Append(Top.sched, t)
           new == [frames EXCEPT ![n].rest = @ \ {t}]
<1>1. /\ scene \in Scene /\ n \in Nat \ {0}
      /\ Nested(scene, frames, Top.sched) /\ Len(Top.sched) = n - 1
      /\ Top = frames[n] /\ Top \in Frame(scene)
  BY CallGoesOn DEF TryNext
<1>2. Top.rest # {} /\ BeginReplay(candidate) /\ frames' = new
  BY DEF TryNext
<1>3. t \in Top.rest /\ \A u \in Top.rest \ {t} : Precedes(t, u)
  <2>1. Top.rest \in SUBSET [worker : Workers(scene), step : 0..Steps(scene)-1]
    BY <1>1 DEF Frame, Gates
  <2>2. \E x \in Top.rest : \A u \in Top.rest \ {x} : Precedes(x, u)
    BY <1>1, <1>2, <2>1, SortAssumption
  <2>3. QED
    BY <2>2 DEF First
<1> HIDE DEF t
<1>4. /\ Nested(scene, new, candidate) /\ Len(new) = n
      /\ Len(candidate) = n /\ candidate[n] = t
      /\ t \in Offer(scene, new[n].next)
      /\ \A i \in 1..n : new[i].sched = frames[i].sched
      /\ \A b \in Schedule :
            Awaited(frames, b) <=> Awaited(new, b) \/ Continues(b, candidate)
  BY <1>1, <1>3, Tried
<1>5. script' = candidate
  BY <1>2 DEF BeginReplay
<1> HIDE DEF new, candidate, n
<1>6. QED
  BY <1>2, <1>4, <1>5 DEF n

LEMMA TryNextOK ==
    ASSUME SearchInv, TryNext
    PROVE  SearchInv' /\ (ReplayInv => ReplayInv')
<1> DEFINE n == Len(frames)
<1>1. /\ scene \in Scene /\ phase = "search" /\ result = NoWitness
      /\ n \in Nat \ {0} /\ n \in 1..n
  BY CallGoesOn DEF TryNext
<1>2. /\ phase' = "execute" /\ UNCHANGED <<scene, result>>
      /\ BeginReplay(Append(Top.sched, First(Top.rest)))
  BY DEF TryNext
<1>3. /\ Nested(scene, frames', script') /\ Len(frames') = n
      /\ Len(script') = n
      /\ script'[n] \in Offer(scene, frames'[n].next)
      /\ \A b \in Schedule :
            Awaited(frames, b) <=> Awaited(frames', b) \/ Continues(b, script')
  BY CandidateChosen
<1>4. script' \in Schedule /\ frames' \in Seq(Frame(scene))
  BY <1>3 DEF Nested
<1>5. ReplayInv => ReplayInv'
  BY <1>1, <1>2, <1>4, BeginReplayOK DEF BeginReplay
<1>6. Top' = frames'[n] /\ frames' # <<>>
  BY <1>1, <1>3 DEF Top
<1>7. NothingIsMissed'
  BY <1>1, <1>2, <1>3, FailingWalks DEF SearchInv, NothingIsMissed, Ahead
<1>8. SearchInv'
  BY <1>1, <1>2, <1>3, <1>4, <1>6, <1>7 DEF SearchInv
<1>9. QED
  BY <1>5, <1>8

\* What is known when an execution is under way or over.
LEMMA CandidateKnown ==
    ASSUME SearchInv, phase = "execute"
    PROVE  LET n == Len(frames)
           IN  /\ scene \in Scene /\ result = NoWitness
               /\ n \in Nat \ {0} /\ n \in 1..n
               /\ Nested(scene, frames, script)
               /\ Len(script) = n /\ script \in Schedule /\ script # <<>>
               /\ Top = frames[n] /\ Top \in Frame(scene)
               /\ Top.sched = SubSeq(script, 1, n - 1)
               /\ Top.sched \in Schedule
               /\ Top.next = Counts(scene, Top.sched)
               /\ Clean(scene, Top.sched)
               /\ script[n] \in Gates(scene)
               /\ script = Append(Top.sched, script[n])
<1> DEFINE n == Len(frames)
<1>1. /\ scene \in Scene /\ result = NoWitness
      /\ frames # <<>> /\ frames \in Seq(Frame(scene))
      /\ Nested(scene, frames, script) /\ Len(script) = n
      /\ script[Len(script)] \in Offer(scene, Top.next)
      /\ Top = frames[n]
  BY DEF SearchInv, Top
<1>2. n \in Nat \ {0} /\ n \in 1..n
  BY <1>1, EmptySeq
<1>3. script \in Schedule /\ script # <<>>
  BY <1>1, <1>2, EmptySeq DEF Nested
<1>4. /\ Top \in Frame(scene) /\ Top.sched = SubSeq(script, 1, n - 1)
      /\ Top.next = Counts(scene, Top.sched) /\ Clean(scene, Top.sched)
  BY <1>1, <1>2 DEF Nested
<1>5. Top.sched \in Schedule
  BY <1>4 DEF Frame
<1>6. script[n] \in Gates(scene)
  BY <1>1, <1>4, <1>5, OfferType
<1>7. script = Append(Top.sched, script[n])
  <2>1. script \in Seq(Transition) /\ n - 1 \in Nat /\ n - 1 < Len(script)
        /\ (n - 1) + 1 = n
    BY <1>1, <1>2, <1>3 DEF Schedule
  <2>2. SubSeq(script, 1, (n - 1) + 1) = Append(SubSeq(script, 1, n - 1), script[(n - 1) + 1])
    BY <2>1, BeginningGrows
  <2>3. SubSeq(script, 1, n) = script
    BY <1>1, <1>3, SubSeqFull DEF Schedule
  <2>4. QED
    BY <1>4, <2>1, <2>2, <2>3
<1>8. QED
  BY <1>1, <1>2, <1>3, <1>4, <1>5, <1>6, <1>7

LEMMA ExecutingOK ==
    ASSUME SearchInv, ReplayInv, Executing
    PROVE  SearchInv' /\ ReplayInv'
<1>1. /\ phase = "execute" /\ ReplayStep
      /\ UNCHANGED <<scene, frames, explored, phase, result>>
  BY DEF Executing, searching
<1>2. ReplayInv' /\ script' = script
  BY <1>1, ReplayStepOK
<1>3. NothingIsMissed'
  BY <1>1, <1>2 DEF SearchInv, NothingIsMissed, Ahead
<1>4. Top' = Top
  BY <1>1 DEF Top
<1>5. QED
  BY <1>1, <1>2, <1>3, <1>4 DEF SearchInv

LEMMA SkipOK ==
    ASSUME SearchInv, ReplayInv, Skip
    PROVE  SearchInv'
<1> DEFINE n == Len(frames)
<1>1. /\ phase = "execute" /\ outcome = "invalid" /\ phase' = "search"
      /\ UNCHANGED <<scene, frames, script, result>>
  BY DEF Skip, Executed, replaying
<1>2. /\ scene \in Scene /\ result = NoWitness /\ n \in Nat \ {0}
      /\ Nested(scene, frames, script) /\ Len(script) = n
      /\ Top = frames[n]
  BY <1>1, CandidateKnown
<1>3. Nested(scene, frames, Top.sched) /\ Len(Top.sched) = n - 1
  BY <1>2, PassedOver
<1>4. Top' = Top
  BY <1>1 DEF Top
<1>5. NothingIsMissed'
  <2>1. ASSUME NEW q \in FailingRuns(scene) PROVE Awaited(frames, q.sched)
    <3>1. ~Continues(q.sched, script)
      BY <1>1, <1>2, FailingWalks, ExecutedNot
    <3>2. QED
      BY <1>1, <3>1 DEF SearchInv, NothingIsMissed, Ahead
  <2>2. QED
    BY <1>1, <2>1 DEF NothingIsMissed, Ahead
<1>6. QED
  BY <1>1, <1>2, <1>3, <1>4, <1>5 DEF SearchInv

\* The call that search makes on the candidate.
LEMMA CallMade ==
    ASSUME SearchInv, ReplayInv, Descend
    PROVE  LET n == Len(frames)
           IN  /\ Nested(scene, frames', script) /\ Len(frames') = n + 1
               /\ frames'[n+1].sched = script
               /\ \A i \in 1..n : frames'[i] = frames[i]
               /\ \A b \in Schedule : \A e : WalksTo(scene, b, e) =>
                     (Awaited(frames', b) <=>
                         Awaited(frames, b) \/ (Continues(b, script) /\ b # script))
<1> DEFINE n == Len(frames)
           next == Counts(scene, script)
           call == [sched |-> script, next |-> next, rest |-> Offer(scene, next)]
           new == Append(frames, call)
<1>1. /\ phase = "execute" /\ outcome = "passed"
      /\ frames' = Append(frames,
                          Call(script, [Top.next EXCEPT ![LastWorker] = @ + 1]))
  BY DEF Descend, Executed
<1>2. /\ scene \in Scene /\ n \in Nat \ {0}
      /\ Nested(scene, frames, script) /\ Len(script) = n
      /\ Top.sched \in Schedule /\ Top.next = Counts(scene, Top.sched)
      /\ script[n] \in Gates(scene) /\ script = Append(Top.sched, script[n])
  BY <1>1, CandidateKnown
<1>3. next = [Top.next EXCEPT ![LastWorker] = @ + 1]
  <2>1. PICK a, t : a = Top.sched /\ t = script[n]
    OBVIOUS
  <2>2. Counts(scene, Append(a, t)) = [Counts(scene, a) EXCEPT ![t.worker] = @ + 1]
    BY <1>2, <2>1, CountsGrow
  <2>3. LastWorker = t.worker
    BY <1>2, <2>1 DEF LastWorker
  <2>4. QED
    BY <1>2, <2>1, <2>2, <2>3
<1>4. frames' = new
  BY <1>1, <1>3 DEF Call
<1>5. Clean(scene, script)
  BY <1>1, ExecutedPasses
<1>6. /\ Nested(scene, new, script) /\ Len(new) = n + 1
      /\ new[n+1].sched = script
      /\ \A i \in 1..n : new[i] = frames[i]
      /\ \A b \in Schedule : \A e : WalksTo(scene, b, e) =>
            (Awaited(new, b) <=>
                Awaited(frames, b) \/ (Continues(b, script) /\ b # script))
  BY <1>2, <1>5, Descended
<1> HIDE DEF new, n
<1>7. QED
  BY <1>4, <1>6 DEF n

LEMMA DescendOK ==
    ASSUME SearchInv, ReplayInv, Descend
    PROVE  SearchInv'
<1> DEFINE n == Len(frames)
<1>1. /\ phase = "execute" /\ outcome = "passed" /\ phase' = "search"
      /\ UNCHANGED <<scene, script, result>>
  BY DEF Descend, Executed, replaying
<1>2. /\ scene \in Scene /\ result = NoWitness /\ n \in Nat \ {0}
      /\ Len(script) = n
  BY <1>1, CandidateKnown
<1>3. /\ Nested(scene, frames', script) /\ Len(frames') = n + 1
      /\ frames'[n+1].sched = script
      /\ \A b \in Schedule : \A e : WalksTo(scene, b, e) =>
            (Awaited(frames', b) <=>
                Awaited(frames, b) \/ (Continues(b, script) /\ b # script))
  BY CallMade
<1> HIDE DEF n
<1>4. /\ Top' = frames'[n+1] /\ frames' \in Seq(Frame(scene))
      /\ Len(script) = Len(frames') - 1 /\ Len(frames') # 0
  BY <1>2, <1>3 DEF Top, Nested
<1>5. frames' # <<>>
  BY <1>4, EmptySeq
<1>6. Clean(scene, script)
  BY <1>1, ExecutedPasses
<1>7. NothingIsMissed'
  <2>1. ASSUME NEW q \in FailingRuns(scene) PROVE Awaited(frames', q.sched)
    <3>1. Awaited(frames, q.sched) \/ Continues(q.sched, script)
      BY <1>1 DEF SearchInv, NothingIsMissed, Ahead
    <3>2. QED
      BY <1>2, <1>3, <1>6, <3>1, FailingWalks, FailingIsNotClean
  <2>2. QED
    BY <1>1, <2>1 DEF NothingIsMissed, Ahead
<1>8. QED
  BY <1>1, <1>2, <1>3, <1>4, <1>5, <1>7 DEF SearchInv

\* The candidate reported is the first.
LEMMA ReportOK ==
    ASSUME SearchInv, ReplayInv, Report
    PROVE  SearchInv' /\ FindsTheFirst'
<1> DEFINE n == Len(frames)
           r == [sched |-> script, end |-> state]
<1>1. /\ phase = "execute" /\ outcome = "failed" /\ phase' = "over"
      /\ result' = found /\ frames' = <<>> /\ UNCHANGED <<scene, script, state>>
  BY DEF Report, Executed, replaying
<1>2. /\ scene \in Scene /\ n \in Nat
      /\ Nested(scene, frames, script) /\ Len(script) = n
      /\ script \in Schedule /\ script # <<>>
      /\ Clean(scene, SubSeq(script, 1, n - 1))
  BY <1>1, CandidateKnown
<1>3. /\ WalksTo(scene, script, state) /\ Violates(scene, state)
      /\ found = Check(scene, state, script)
  BY <1>1, <1>2, ExecutedFails
<1>4. found \in Witness /\ Reproduces(scene, found)
  BY <1>1, FoundReproduces
<1>5. r \in FailingRuns(scene)
  BY <1>2, <1>3, WalkIsRun DEF FailingRuns
<1>6. ASSUME NEW q \in FailingRuns(scene), q.sched # script
      PROVE  Before(script, q.sched)
  <2>1. Awaited(frames, q.sched) \/ Continues(q.sched, script)
    BY <1>1 DEF SearchInv, NothingIsMissed, Ahead
  <2>2. q.sched \in Schedule
    BY <1>2, FailingWalks
  <2>3. QED
    BY <1>2, <1>6, <2>1, <2>2, FoundFirst
<1>7. found # NoWitness
  BY <1>2, <1>3, CheckFails, WalkInState
<1>8. r.sched = script /\ r.end = state
  OBVIOUS
<1> HIDE DEF r
<1>9. FindsTheFirst'
  BY <1>1, <1>3, <1>5, <1>6, <1>7, <1>8 DEF FindsTheFirst
<1>10. NothingIsMissed' /\ frames' \in Seq(Frame(scene))
  BY <1>1 DEF NothingIsMissed
<1>11. SearchInv'
  BY <1>1, <1>2, <1>4, <1>9, <1>10 DEF SearchInv
<1>12. QED
  BY <1>9, <1>11

\* The search passes when nothing is left that could fail.
LEMMA PassedOK ==
    ASSUME SearchInv, Passed
    PROVE  SearchInv'
<1>1. /\ phase = "search" /\ frames = <<>> /\ phase' = "over"
      /\ UNCHANGED <<scene, frames, result>>
  BY DEF Passed
<1>2. FailingRuns(scene) = {}
  BY <1>1 DEF SearchInv, NothingIsMissed, Ahead, Awaited
<1>3. result' = NoWitness /\ NoWitness \in Witness /\ scene \in Scene
  BY <1>1, NoWitnessType DEF SearchInv
<1>4. FindsTheFirst'
  BY <1>1, <1>2, <1>3 DEF FindsTheFirst
<1>5. NothingIsMissed'
  BY <1>1 DEF NothingIsMissed
<1>6. QED
  BY <1>1, <1>3, <1>4, <1>5 DEF SearchInv

LEMMA SearchOK ==
    ASSUME SearchInv, ReplayInv, Search
    PROVE  SearchInv' /\ ReplayInv' /\ scene' = scene
<1>1. CASE Leaf
  <2>1. /\ Searching /\ Offer(scene, Top.next) = {} /\ frames' = Callers
        /\ UNCHANGED <<scene, replaying, phase, result>>
    BY <1>1 DEF Leaf
  <2>2. Top.rest = {}
    BY <2>1, CallGoesOn
  <2>3. QED
    BY <2>1, <2>2, ReturningOK, ReplayRests
<1>2. CASE TryNext
  BY <1>2, TryNextOK DEF TryNext
<1>3. CASE Executing
  BY <1>3, ExecutingOK DEF Executing
<1>4. CASE Skip
  BY <1>4, SkipOK, ReplayRests DEF Skip
<1>5. CASE Report
  BY <1>5, ReportOK, ReplayRests DEF Report
<1>6. CASE Descend
  BY <1>6, DescendOK, ReplayRests DEF Descend
<1>7. CASE Back
  BY <1>7, ReturningOK, ReplayRests DEF Back
<1>8. CASE Passed
  BY <1>8, PassedOK, ReplayRests DEF Passed
<1>9. QED
  BY <1>1, <1>2, <1>3, <1>4, <1>5, <1>6, <1>7, <1>8 DEF Search

-----------------------------------------------------------------------------
(* What the search counts. *)

\* What Explored is when Explore passes (explore.go:48, 53), where witness.go:39
\* has "schedules fully explored": the complete schedules, and on top of them
\* every execution, those of the prefixes and of the complete ones alike.
ExploredOvercounts ==
    phase = "over" /\ result = NoWitness /\ Honest =>
        explored = Cardinality({r \in Runs(scene) : Enabled(scene, r.end) = {}})
                   + Cardinality(Runs(scene)) - 1

\* One of the calls is at schedule b.
Open(b) == \E i \in 1..Len(frames) : frames[i].sched = b

\* The runs that were executed, the one that is empty aside.
Behind == {r \in Runs(scene) : r.sched # <<>> /\ ~Ahead(r.sched)}

\* The complete runs that were counted by the call they were handed to.
Completed ==
    {r \in Runs(scene) :
        Enabled(scene, r.end) = {} /\ ~Ahead(r.sched) /\ ~Open(r.sched)}

CountInv ==
    /\ phase # "over" /\ Honest =>
          /\ IsFiniteSet(Behind) /\ IsFiniteSet(Completed)
          /\ explored = Cardinality(Behind) + Cardinality(Completed)
    /\ phase = "over" => ExploredOvercounts

\* Two runs of one schedule are the same.
LEMMA RunsDiffer ==
    ASSUME NEW p \in Scene, NEW q \in Runs(p), NEW r \in Runs(p),
           q.sched = r.sched
    PROVE  q = r
<1>1. /\ q \in [sched : Schedule, end : State(p)]
      /\ r \in [sched : Schedule, end : State(p)]
      /\ WalksTo(p, q.sched, q.end) /\ WalksTo(p, r.sched, r.end)
  BY RunsAreWalks
<1>2. q.end = r.end
  BY <1>1, WalkOne
<1>3. QED
  BY <1>1, <1>2

\* What is ahead and what is open decides what is counted.
LEMMA SameCount ==
    ASSUME CountInv, phase # "over", phase' # "over",
           UNCHANGED <<scene, explored>>,
           \A r \in Runs(scene) : Ahead(r.sched)' <=> Ahead(r.sched),
           \A r \in Runs(scene) : Honest /\ Enabled(scene, r.end) = {} =>
              (Open(r.sched)' <=> Open(r.sched))
    PROVE  CountInv'
<1>1. SUFFICES ASSUME Honest'
               PROVE  /\ IsFiniteSet(Behind') /\ IsFiniteSet(Completed')
                      /\ explored' = Cardinality(Behind') + Cardinality(Completed')
  BY DEF CountInv
<1>2. Honest
  BY <1>1 DEF Honest
<1>3. Behind' = Behind
  BY DEF Behind
<1>4. Completed' = Completed
  BY <1>2 DEF Completed
<1>5. QED
  BY <1>2, <1>3, <1>4 DEF CountInv

\* A run is handed over with the count that includes it.
LEMMA OneMore ==
    ASSUME NEW S, NEW x, IsFiniteSet(S), x \notin S
    PROVE  /\ IsFiniteSet(S \cup {x})
           /\ Cardinality(S) \in Nat
           /\ Cardinality(S \cup {x}) = Cardinality(S) + 1
BY FS_AddElement, FS_CardinalityType

LEMMA CountBegins == scene \in Scene /\ SearchBegin => CountInv
<1> SUFFICES ASSUME scene \in Scene, SearchBegin PROVE CountInv
  OBVIOUS
<1>1. /\ Len(frames) = 1 /\ frames[1].sched = <<>> /\ phase = "search"
      /\ explored = 0
  BY DEF SearchBegin, Call
<1>2. \A r \in Runs(scene) : r.sched # <<>> => Ahead(r.sched)
  <2>1. \A b \in Schedule : \A e : WalksTo(scene, b, e) /\ b # <<>> =>
           Awaited(frames, b)
    BY FirstCall
  <2>2. QED
    BY <2>1, RunsAreWalks DEF Ahead
<1>3. Open(<<>>)
  BY <1>1 DEF Open
<1>4. Behind = {}
  BY <1>2 DEF Behind
<1>5. Completed = {}
  BY <1>2, <1>3 DEF Completed
<1>6. IsFiniteSet({}) /\ Cardinality({}) = 0 /\ 0 = 0 + 0
  BY FS_EmptySet
<1>7. QED
  BY <1>1, <1>4, <1>5, <1>6 DEF CountInv

LEMMA TryNextCounts == SearchInv /\ CountInv /\ TryNext => CountInv'
<1> SUFFICES ASSUME SearchInv, CountInv, TryNext PROVE CountInv'
  OBVIOUS
<1>1. Searching /\ UNCHANGED <<scene, explored>> /\ phase' = "execute"
  BY DEF TryNext
<1>2. phase = "search" /\ scene \in Scene /\ Len(frames) \in Nat
  BY <1>1, CallGoesOn
<1>3. /\ Len(frames') = Len(frames)
      /\ \A i \in 1..Len(frames) : frames'[i].sched = frames[i].sched
      /\ \A b \in Schedule :
            Awaited(frames, b) <=> Awaited(frames', b) \/ Continues(b, script')
  BY CandidateChosen
<1>4. \A r \in Runs(scene) : Ahead(r.sched)' <=> Ahead(r.sched)
  BY <1>1, <1>2, <1>3, RunsAreWalks DEF Ahead
<1>5. \A b : Open(b)' <=> Open(b)
  BY <1>3 DEF Open
<1>6. QED
  BY <1>1, <1>2, <1>4, <1>5, SameCount

LEMMA ExecutingCounts == SearchInv /\ CountInv /\ ReplayInv /\ Executing => CountInv'
<1> SUFFICES ASSUME SearchInv, CountInv, ReplayInv, Executing PROVE CountInv'
  OBVIOUS
<1>1. /\ phase = "execute" /\ ReplayStep
      /\ UNCHANGED <<scene, frames, explored, phase>>
  BY DEF Executing, searching
<1>2. script' = script
  BY <1>1, ReplayStepOK
<1>3. \A b : Ahead(b)' <=> Ahead(b)
  BY <1>1, <1>2 DEF Ahead
<1>4. \A b : Open(b)' <=> Open(b)
  BY <1>1 DEF Open
<1>5. QED
  BY <1>1, <1>3, <1>4, SameCount

\* For a program that keeps its contract, execute carries out every candidate.
LEMMA HonestNeverSkips ==
    ASSUME SearchInv, ReplayInv, phase = "execute", outcome = "invalid", Honest
    PROVE  FALSE
<1> DEFINE n == Len(frames)
<1>1. /\ scene \in Scene /\ n \in Nat /\ Len(script) = n /\ script \in Schedule
      /\ Top.sched \in Schedule /\ Top.next = Counts(scene, Top.sched)
      /\ Clean(scene, Top.sched) /\ script[n] \in Gates(scene)
      /\ script = Append(Top.sched, script[n])
  BY CandidateKnown
<1>2. script[n] \in Offer(scene, Counts(scene, Top.sched))
  BY <1>1 DEF SearchInv
<1> HIDE DEF n
<1>3. PICK s : WalksTo(scene, Top.sched, s) /\ GoesOn(scene, Top.sched, s)
  BY <1>1 DEF Clean
<1>4. s \in State(scene) /\ [sched |-> Top.sched, end |-> s] \in Runs(scene)
  BY <1>1, <1>3, WalkIsRun, WalkInState
<1>5. script[n] \in Enabled(scene, s)
  BY <1>2, <1>4 DEF Honest
<1>6. script[n] \in Transition
  BY <1>1, ProgramAssumption DEF Gates
<1>7. \E e : WalksTo(scene, script, e)
  <2>1. PICK a, t : a = Top.sched /\ t = script[n]
    OBVIOUS
  <2>2. WalksTo(scene, Append(a, t), Apply(scene, s, t))
    BY <1>1, <1>3, <1>4, <1>5, <1>6, <2>1, WalkGrows
  <2>3. QED
    BY <1>1, <2>1, <2>2
<1>8. Continues(script, script)
  BY <1>1, SubSeqFull DEF Continues, Schedule
<1>9. QED
  BY <1>1, <1>7, <1>8, ExecutedNot

LEMMA SkipCounts == SearchInv /\ CountInv /\ ReplayInv /\ Skip => CountInv'
<1> SUFFICES ASSUME SearchInv, CountInv, ReplayInv, Skip PROVE CountInv'
  OBVIOUS
<1>1. /\ phase = "execute" /\ outcome = "invalid" /\ phase' = "search"
      /\ scene' = scene
  BY DEF Skip, Executed
<1>2. ~Honest'
  BY <1>1, HonestNeverSkips DEF Honest
<1>3. QED
  BY <1>1, <1>2 DEF CountInv

LEMMA ReportCounts == SearchInv /\ ReplayInv /\ Report => CountInv'
<1> SUFFICES ASSUME SearchInv, ReplayInv, Report PROVE CountInv'
  OBVIOUS
<1>1. /\ phase = "execute" /\ outcome = "failed" /\ phase' = "over"
      /\ result' = found
  BY DEF Report, Executed
<1> DEFINE n == Len(frames)
<1>2. /\ scene \in Scene /\ n \in Nat
      /\ Len(script) = n /\ script \in Schedule /\ script # <<>>
      /\ Clean(scene, SubSeq(script, 1, n - 1))
  BY <1>1, CandidateKnown
<1>3. /\ WalksTo(scene, script, state) /\ Violates(scene, state)
      /\ found = Check(scene, state, script)
  BY <1>1, <1>2, ExecutedFails
<1>4. found # NoWitness
  BY <1>2, <1>3, CheckFails, WalkInState
<1>5. QED
  BY <1>1, <1>4 DEF CountInv, ExploredOvercounts

\* A candidate that passes is one more schedule executed.
LEMMA DescendCounts == SearchInv /\ CountInv /\ ReplayInv /\ Descend => CountInv'
<1> SUFFICES ASSUME SearchInv, CountInv, ReplayInv, Descend PROVE CountInv'
  OBVIOUS
<1> SUFFICES ASSUME Honest
             PROVE  /\ IsFiniteSet(Behind') /\ IsFiniteSet(Completed')
                    /\ explored' = Cardinality(Behind') + Cardinality(Completed')
  <2>1. phase' = "search" /\ scene' = scene
    BY DEF Descend, Executed
  <2>2. Honest' => Honest
    BY <2>1 DEF Honest
  <2>3. QED
    BY <2>1, <2>2 DEF CountInv
<1> DEFINE n == Len(frames)
<1>1. /\ phase = "execute" /\ outcome = "passed" /\ phase' = "search"
      /\ explored' = explored + 1 /\ UNCHANGED <<scene, script>>
  BY DEF Descend, Executed, replaying
<1>2. /\ scene \in Scene /\ n \in Nat \ {0} /\ Nested(scene, frames, script)
      /\ Len(script) = n /\ script \in Schedule /\ script # <<>>
  BY <1>1, CandidateKnown
<1>3. /\ Len(frames') = n + 1 /\ frames'[n+1].sched = script
      /\ \A i \in 1..n : frames'[i] = frames[i]
      /\ \A b \in Schedule : \A e : WalksTo(scene, b, e) =>
            (Awaited(frames', b) <=>
                Awaited(frames, b) \/ (Continues(b, script) /\ b # script))
  BY CallMade
<1>4. PICK s : WalksTo(scene, script, s)
  BY <1>1, ExecutedPasses DEF Clean
<1> DEFINE x == [sched |-> script, end |-> s]
<1>5. x \in Runs(scene) /\ x.sched = script
  BY <1>2, <1>4, WalkIsRun
<1>6. Continues(script, script)
  BY <1>2, SubSeqFull DEF Continues, Schedule
<1>7. Ahead(script) /\ ~Ahead(script)' /\ Open(script)'
  <2>1. ~Awaited(frames, script)
    BY <1>2, LineIsTried
  <2>2. ~Awaited(frames', script)
    BY <1>2, <1>3, <1>4, <2>1
  <2>3. n + 1 \in 1..Len(frames')
    BY <1>2, <1>3
  <2>4. QED
    BY <1>1, <1>3, <1>6, <2>2, <2>3 DEF Ahead, Open
<1>8. ASSUME NEW r \in Runs(scene), r.sched # script
      PROVE  (Ahead(r.sched)' <=> Ahead(r.sched)) /\ (Open(r.sched)' <=> Open(r.sched))
  <2>1. r.sched \in Schedule /\ WalksTo(scene, r.sched, r.end)
    BY <1>2, RunsAreWalks
  <2>2. Ahead(r.sched)' <=> Ahead(r.sched)
    BY <1>1, <1>3, <1>8, <2>1 DEF Ahead
  <2>3. ASSUME NEW i \in 1..n PROVE i \in 1..Len(frames')
    BY <1>2, <1>3
  <2>4. ASSUME NEW i \in 1..Len(frames'), frames'[i].sched = r.sched
        PROVE  i \in 1..n
    BY <1>2, <1>3, <1>8, <2>4
  <2>5. Open(r.sched)' <=> Open(r.sched)
    BY <1>3, <2>3, <2>4 DEF Open
  <2>6. QED
    BY <2>2, <2>5
<1>9. \A r \in Runs(scene) : r.sched = script => r = x
  BY <1>2, <1>5, RunsDiffer
<1> HIDE DEF x, n
<1>10. Behind' = Behind \cup {x} /\ x \notin Behind
  BY <1>1, <1>2, <1>5, <1>7, <1>8, <1>9 DEF Behind
<1>11. Completed' = Completed
  BY <1>1, <1>7, <1>8 DEF Completed
<1>12. /\ IsFiniteSet(Behind) /\ IsFiniteSet(Completed)
       /\ explored = Cardinality(Behind) + Cardinality(Completed)
  BY <1>1 DEF CountInv
<1>13. /\ IsFiniteSet(Behind') /\ Cardinality(Behind) \in Nat
       /\ Cardinality(Behind') = Cardinality(Behind) + 1
  BY <1>10, <1>12, OneMore
<1>14. Cardinality(Completed) \in Nat
  BY <1>12, FS_CardinalityType
<1>15. QED
  BY <1>1, <1>11, <1>12, <1>13, <1>14

\* What a call leaves behind when it returns.
LEMMA ReturnLeaves ==
    ASSUME SearchInv, Searching, Top.rest = {},
           frames' = Callers, UNCHANGED <<scene, phase>>
    PROVE  /\ \A b : Ahead(b)' <=> Ahead(b)
           /\ \A b : Open(b)' <=> Open(b) /\ b # Top.sched
           /\ Open(Top.sched) /\ ~Ahead(Top.sched)
<1> DEFINE n == Len(frames)
<1>1. /\ scene \in Scene /\ phase = "search" /\ n \in Nat \ {0}
      /\ Nested(scene, frames, Top.sched) /\ Len(Top.sched) = n - 1
      /\ Top = frames[n] /\ Top \in Frame(scene)
  BY CallGoesOn
<1>2. /\ Len(Callers) = n - 1
      /\ \A i \in 1..n-1 : Callers[i] = frames[i]
      /\ \A b : Awaited(frames, b) <=> Awaited(Callers, b)
  BY CallReturned
<1>3. \A b : Ahead(b)' <=> Ahead(b)
  BY <1>1, <1>2 DEF Ahead
<1>4. ~Ahead(Top.sched)
  BY <1>1, LineIsTried DEF Ahead
<1>5. Open(Top.sched)
  BY <1>1 DEF Open
<1>6. \A i \in 1..n-1 : frames[i].sched # Top.sched
  <2>1. SUFFICES ASSUME NEW i \in 1..n-1 PROVE frames[i].sched # Top.sched
    OBVIOUS
  <2>2. frames[i].sched = SubSeq(Top.sched, 1, i - 1)
    BY <1>1 DEF Nested
  <2>3. Len(SubSeq(Top.sched, 1, i - 1)) = i - 1
    <3>1. Top.sched \in Seq(Transition) /\ i - 1 \in 0..Len(Top.sched)
      BY <1>1 DEF Frame, Schedule
    <3>2. QED
      BY <3>1, Beginning
  <2>4. QED
    BY <1>1, <2>2, <2>3
<1>7. ASSUME NEW b PROVE Open(b)' <=> Open(b) /\ b # Top.sched
  <2>1. \A i \in 1..n : i # n => i \in 1..n-1
    BY <1>1
  <2>2. \A i \in 1..n-1 : i \in 1..n
    BY <1>1
  <2>3. Open(b)' <=> \E i \in 1..n-1 : frames[i].sched = b
    BY <1>2 DEF Open
  <2>4. Open(b) <=> \E i \in 1..n : frames[i].sched = b
    BY DEF Open
  <2> HIDE DEF n
  <2>5. QED
    BY <1>1, <1>6, <2>1, <2>2, <2>3, <2>4
<1>8. QED
  BY <1>3, <1>4, <1>5, <1>7

\* The run that a call is at, and what follows it when the contract is kept.
LEMMA CallIsRun ==
    ASSUME SearchInv, Searching
    PROVE  \E x \in Runs(scene) :
              /\ x.sched = Top.sched
              /\ Honest => Enabled(scene, x.end) = Offer(scene, Top.next)
<1> DEFINE n == Len(frames)
<1>1. /\ scene \in Scene /\ n \in 1..n
      /\ Nested(scene, frames, Top.sched) /\ Top = frames[n]
      /\ Top.next = Counts(scene, Top.sched)
  BY CallGoesOn
<1>2. Clean(scene, Top.sched) /\ Top.sched \in Schedule
  BY <1>1 DEF Nested
<1>3. PICK s : WalksTo(scene, Top.sched, s)
  BY <1>2 DEF Clean
<1>4. [sched |-> Top.sched, end |-> s] \in Runs(scene)
  BY <1>1, <1>2, <1>3, WalkIsRun
<1>5. Honest => Enabled(scene, s) = Offer(scene, Top.next)
  BY <1>1, <1>4 DEF Honest
<1>6. QED
  BY <1>4, <1>5

\* A complete schedule is counted once more.
LEMMA LeafCounts == SearchInv /\ CountInv /\ Leaf => CountInv'
<1> SUFFICES ASSUME SearchInv, CountInv, Leaf PROVE CountInv'
  OBVIOUS
<1> SUFFICES ASSUME Honest
             PROVE  /\ IsFiniteSet(Behind') /\ IsFiniteSet(Completed')
                    /\ explored' = Cardinality(Behind') + Cardinality(Completed')
  <2>1. phase' = "search" /\ scene' = scene
    BY DEF Leaf, Searching
  <2>2. Honest' => Honest
    BY <2>1 DEF Honest
  <2>3. QED
    BY <2>1, <2>2 DEF CountInv
<1>1. /\ Searching /\ Offer(scene, Top.next) = {} /\ frames' = Callers
      /\ explored' = explored + 1 /\ UNCHANGED <<scene, phase>>
  BY DEF Leaf
<1>2. Top.rest = {} /\ phase = "search" /\ scene \in Scene
  BY <1>1, CallGoesOn
<1>3. /\ \A b : Ahead(b)' <=> Ahead(b)
      /\ \A b : Open(b)' <=> Open(b) /\ b # Top.sched
      /\ Open(Top.sched) /\ ~Ahead(Top.sched)
  BY <1>1, <1>2, ReturnLeaves
<1>4. PICK x \in Runs(scene) : x.sched = Top.sched /\ Enabled(scene, x.end) = {}
  BY <1>1, CallIsRun
<1>5. \A r \in Runs(scene) : r.sched = Top.sched => r = x
  BY <1>2, <1>4, RunsDiffer
<1>6. Behind' = Behind
  BY <1>1, <1>3 DEF Behind
<1>7. Completed' = Completed \cup {x} /\ x \notin Completed
  BY <1>1, <1>3, <1>4, <1>5 DEF Completed
<1>8. /\ IsFiniteSet(Behind) /\ IsFiniteSet(Completed)
      /\ explored = Cardinality(Behind) + Cardinality(Completed)
  BY <1>2 DEF CountInv
<1>9. /\ IsFiniteSet(Completed') /\ Cardinality(Completed) \in Nat
      /\ Cardinality(Completed') = Cardinality(Completed) + 1
  BY <1>7, <1>8, OneMore
<1>10. Cardinality(Behind) \in Nat
  BY <1>8, FS_CardinalityType
<1>11. QED
  BY <1>1, <1>6, <1>8, <1>9, <1>10

LEMMA BackCounts == SearchInv /\ CountInv /\ Back => CountInv'
<1> SUFFICES ASSUME SearchInv, CountInv, Back PROVE CountInv'
  OBVIOUS
<1>1. /\ Searching /\ Top.rest = {} /\ Offer(scene, Top.next) # {}
      /\ frames' = Callers /\ UNCHANGED <<scene, phase, explored>>
  BY DEF Back
<1>2. phase = "search" /\ scene \in Scene
  BY <1>1, CallGoesOn
<1>3. /\ \A b : Ahead(b)' <=> Ahead(b)
      /\ \A b : Open(b)' <=> Open(b) /\ b # Top.sched
  BY <1>1, ReturnLeaves
<1>4. PICK x \in Runs(scene) :
         x.sched = Top.sched /\ (Honest => Enabled(scene, x.end) # {})
  BY <1>1, CallIsRun
<1>5. \A r \in Runs(scene) : r.sched = Top.sched => r = x
  BY <1>2, <1>4, RunsDiffer
<1>6. \A r \in Runs(scene) : Honest /\ Enabled(scene, r.end) = {} =>
         (Open(r.sched)' <=> Open(r.sched))
  BY <1>3, <1>4, <1>5
<1>7. QED
  BY <1>1, <1>2, <1>3, <1>6, SameCount

LEMMA PassedCounts == SearchInv /\ CountInv /\ Passed => CountInv'
<1> SUFFICES ASSUME SearchInv, CountInv, Passed PROVE CountInv'
  OBVIOUS
<1> SUFFICES ASSUME Honest
             PROVE  explored =
                       Cardinality({r \in Runs(scene) : Enabled(scene, r.end) = {}})
                       + Cardinality(Runs(scene)) - 1
  <2>1. phase' = "over" /\ UNCHANGED <<scene, explored>>
    BY DEF Passed
  <2>2. Honest' => Honest
    BY <2>1 DEF Honest
  <2>3. QED
    BY <2>1, <2>2 DEF CountInv, ExploredOvercounts
<1>1. phase = "search" /\ frames = <<>> /\ scene \in Scene
  BY DEF Passed, SearchInv
<1>2. \A b : ~Ahead(b) /\ ~Open(b)
  BY <1>1 DEF Ahead, Awaited, Open
<1>3. Completed = {r \in Runs(scene) : Enabled(scene, r.end) = {}}
  BY <1>2 DEF Completed
<1> DEFINE x == [sched |-> <<>>, end |-> Initial(scene)]
<1>4. x \in Runs(scene) /\ x.sched = <<>>
  <2>1. <<>> \in Schedule
    BY DEF Schedule
  <2>2. QED
    BY <1>1, <2>1, WalkStarts, WalkIsRun
<1>5. \A r \in Runs(scene) : r.sched = <<>> => r = x
  BY <1>1, <1>4, RunsDiffer
<1> HIDE DEF x
<1>6. Runs(scene) = Behind \cup {x} /\ x \notin Behind
  BY <1>2, <1>4, <1>5 DEF Behind
<1>7. /\ IsFiniteSet(Behind) /\ IsFiniteSet(Completed)
      /\ explored = Cardinality(Behind) + Cardinality(Completed)
  BY <1>1 DEF CountInv
<1>8. Cardinality(Completed) \in Nat
  BY <1>7, FS_CardinalityType
<1>9. /\ Cardinality(Behind) \in Nat
      /\ Cardinality(Runs(scene)) = Cardinality(Behind) + 1
  BY <1>6, <1>7, OneMore
<1>10. QED
  BY <1>3, <1>7, <1>8, <1>9

LEMMA SearchCounts == SearchInv /\ CountInv /\ ReplayInv /\ Search => CountInv'
<1> SUFFICES ASSUME SearchInv, CountInv, ReplayInv, Search PROVE CountInv'
  OBVIOUS
<1>1. QED
  BY LeafCounts, TryNextCounts, ExecutingCounts, SkipCounts, ReportCounts,
     DescendCounts, BackCounts, PassedCounts DEF Search

-----------------------------------------------------------------------------
(* The pipeline. *)

\* The search and Minimize have their invariants throughout, also while they
\* have not been called and after they returned; the witness given to Minimize,
\* and the artifact replayed, are evidence; the process ends at a transition
\* that is offered and not carried out.
GatePipelineInv ==
    /\ SearchInv
    /\ IInv
    /\ stage \in {"search", "minimize", "replay", "over", "crashed"}
    /\ stage \in {"search", "over"} => NotCalled
    /\ stage # "search" => phase = "over"
    /\ stage \in {"minimize", "replay", "crashed"} => Reproduces(scene, original)
    /\ stage = "replay" =>
          /\ pc = "done"
          /\ artifact \in Witness
          /\ script = artifact.schedule
          /\ Reproduces(scene, artifact)
    /\ stage = "crashed" => OfferedInVain

LEMMA GateInitOK == GateInit => GatePipelineInv
<1> SUFFICES ASSUME GateInit PROVE GatePipelineInv
  OBVIOUS
<1>1. SearchInv
  BY SearchBegins DEF GateInit
<1>2. NotCalled /\ ReplayInv
  BY NoWitnessType, InitReplayOK DEF GateInit, SearchBegin, NotCalled
<1>3. QED
  BY <1>1, <1>2, NotCalledOK DEF GateInit, GatePipelineInv

\* The search rests when it is over, whatever Minimize and the replays do.
LEMMA SearchRests ==
    ASSUME SearchInv, phase = "over", UNCHANGED <<scene, searching>>
    PROVE  SearchInv' /\ phase' = "over"
<1>1. UNCHANGED <<scene, frames, phase, result>>
  BY DEF searching
<1>2. FindsTheFirst' /\ NothingIsMissed'
  BY <1>1 DEF SearchInv, FindsTheFirst, NothingIsMissed
<1>3. QED
  BY <1>1, <1>2 DEF SearchInv

LEMMA NotCalledStays == NotCalled /\ UNCHANGED <<scene, between>> => NotCalled'
BY DEF NotCalled, between

LEMMA ExploringOK == GatePipelineInv /\ Exploring => GatePipelineInv'
<1> SUFFICES ASSUME GatePipelineInv, Exploring PROVE GatePipelineInv'
  OBVIOUS
<1>1. /\ stage = "search" /\ stage' = stage /\ Search
      /\ UNCHANGED <<between, stage, artifact>>
  BY DEF Exploring
<1>2. SearchInv' /\ ReplayInv' /\ scene' = scene
  BY <1>1, SearchOK DEF GatePipelineInv, IInv
<1>3. NotCalled'
  BY <1>1, <1>2, NotCalledStays DEF GatePipelineInv
<1>4. IInv'
  BY <1>2, <1>3, NotCalledOK, PTL
<1>5. QED
  BY <1>1, <1>2, <1>3, <1>4 DEF GatePipelineInv

LEMMA NothingFoundOK == GatePipelineInv /\ NothingFound => GatePipelineInv'
<1> SUFFICES ASSUME GatePipelineInv, NothingFound PROVE GatePipelineInv'
  OBVIOUS
<1>1. /\ stage = "search" /\ stage' = "over" /\ phase = "over"
      /\ UNCHANGED <<vars, searching, artifact>>
  BY DEF NothingFound, Goto
<1>2. SearchInv' /\ phase' = "over"
  BY <1>1, SearchRests DEF GatePipelineInv, vars
<1>3. IInv' /\ NotCalled'
  BY <1>1, StutterOK, NotCalledStays DEF GatePipelineInv, vars
<1>4. QED
  BY <1>1, <1>2, <1>3 DEF GatePipelineInv

LEMMA FoundOK == GatePipelineInv /\ Found => GatePipelineInv'
<1> SUFFICES ASSUME GatePipelineInv, Found PROVE GatePipelineInv'
  OBVIOUS
<1>1. /\ stage = "search" /\ stage' = "minimize" /\ result # NoWitness
      /\ original' = result
      /\ UNCHANGED <<scene, replaying, pc, sched, index, current, attempts,
                     trace, searching>>
  BY DEF Found, Goto
<1>2. phase = "over" /\ result \in Witness /\ Reproduces(scene, result)
  BY <1>1 DEF GatePipelineInv, SearchInv
<1>3. SearchInv' /\ phase' = "over"
  BY <1>1, <1>2, SearchRests DEF GatePipelineInv
<1>4. NotCalled' /\ ReplayInv'
  BY <1>1, <1>2, ReplayRests DEF GatePipelineInv, NotCalled, IInv
<1>5. IInv'
  BY <1>4, NotCalledOK, PTL
<1>6. QED
  BY <1>1, <1>2, <1>3, <1>5 DEF GatePipelineInv

LEMMA CrashOK == GatePipelineInv /\ Crash => GatePipelineInv'
<1> SUFFICES ASSUME GatePipelineInv, Crash PROVE GatePipelineInv'
  OBVIOUS
<1>1. /\ stage = "minimize" /\ stage' = "crashed" /\ OfferedInVain
      /\ UNCHANGED <<vars, searching, artifact>>
  BY DEF Crash, Goto
<1>2. SearchInv' /\ phase' = "over"
  BY <1>1, SearchRests DEF GatePipelineInv, vars
<1>3. IInv'
  BY <1>1, StutterOK DEF GatePipelineInv
<1>4. UNCHANGED <<scene, state, script, taken, outcome, original>>
  BY <1>1 DEF vars, replaying, between
<1>5. OfferedInVain'
  BY <1>1, <1>4 DEF OfferedInVain, NotCarriedOut, Remaining, NextTransition
<1>6. QED
  BY <1>1, <1>2, <1>3, <1>4, <1>5 DEF GatePipelineInv

LEMMA MinimizingOK == GatePipelineInv /\ Minimizing => GatePipelineInv'
<1> SUFFICES ASSUME GatePipelineInv, Minimizing PROVE GatePipelineInv'
  OBVIOUS
<1>1. /\ stage = "minimize" /\ stage' = stage /\ Next
      /\ UNCHANGED <<searching, artifact>>
  BY DEF Minimizing
<1>2. UNCHANGED <<scene, original>>
  BY <1>1, NextKeeps DEF GatePipelineInv
<1>3. SearchInv' /\ phase' = "over"
  BY <1>1, <1>2, SearchRests DEF GatePipelineInv
<1>4. IInv'
  BY <1>1, StepOK DEF GatePipelineInv
<1>5. QED
  BY <1>1, <1>2, <1>3, <1>4 DEF GatePipelineInv

LEMMA ReplayOneOK == GatePipelineInv /\ ReplayOne => GatePipelineInv'
<1> SUFFICES ASSUME GatePipelineInv, ReplayOne PROVE GatePipelineInv'
  OBVIOUS
<1>1. /\ stage = "minimize" /\ stage' = "replay" /\ pc = "done"
      /\ UNCHANGED <<scene, between, searching>>
  BY DEF ReplayOne, Goto
<1>2. PICK w \in {original, current} : artifact' = w /\ BeginReplay(w.schedule)
  BY DEF ReplayOne
<1>3. /\ scene \in Scene /\ w \in Witness /\ Reproduces(scene, w)
      /\ w.schedule \in Schedule
  BY <1>1, CurrentReproduces
     DEF GatePipelineInv, IInv, TypeOK, ReplayTypeOK, Witness
<1>4. SearchInv' /\ phase' = "over"
  BY <1>1, SearchRests DEF GatePipelineInv
<1>5. ReplayInv' /\ script' = w.schedule
  BY <1>1, <1>2, <1>3, BeginReplayOK DEF BeginReplay
<1>6. IInv'
  BY <1>1, <1>5, ReturnedRests DEF GatePipelineInv
<1>7. QED
  BY <1>1, <1>2, <1>3, <1>4, <1>5, <1>6 DEF GatePipelineInv, between

LEMMA ReplayingOneOK == GatePipelineInv /\ ReplayingOne => GatePipelineInv'
<1> SUFFICES ASSUME GatePipelineInv, ReplayingOne PROVE GatePipelineInv'
  OBVIOUS
<1>1. /\ stage = "replay" /\ stage' = stage /\ ReplayStep
      /\ UNCHANGED <<between, searching, artifact>>
  BY DEF ReplayingOne
<1>2. ReplayInv' /\ scene' = scene /\ script' = script
  BY <1>1, ReplayStepOK DEF GatePipelineInv, IInv
<1>3. SearchInv' /\ phase' = "over"
  BY <1>1, <1>2, SearchRests DEF GatePipelineInv
<1>4. IInv'
  BY <1>1, <1>2, ReturnedRests DEF GatePipelineInv
<1>5. QED
  BY <1>1, <1>2, <1>3, <1>4 DEF GatePipelineInv, between

LEMMA GateStutterOK == GatePipelineInv /\ UNCHANGED pipeline => GatePipelineInv'
<1> SUFFICES ASSUME GatePipelineInv, UNCHANGED pipeline PROVE GatePipelineInv'
  OBVIOUS
<1>1. UNCHANGED <<vars, searching, stage, artifact>>
  BY DEF pipeline
<1>2. UNCHANGED <<scene, script, state, taken, outcome, pc, original, frames,
                  phase, result>>
  BY <1>1 DEF vars, replaying, between, searching
<1>3. SearchInv'
  BY <1>2 DEF GatePipelineInv, SearchInv, FindsTheFirst, NothingIsMissed,
              Ahead, Top
<1>4. IInv' /\ (NotCalled => NotCalled')
  BY <1>1, StutterOK, NotCalledStays DEF GatePipelineInv, vars
<1>5. OfferedInVain => OfferedInVain'
  BY <1>2 DEF OfferedInVain, NotCarriedOut, Remaining, NextTransition
<1>6. QED
  BY <1>1, <1>2, <1>3, <1>4, <1>5 DEF GatePipelineInv

LEMMA GateInvariance == GateSpec => []GatePipelineInv
<1>1. GatePipelineInv /\ [GateNext]_pipeline => GatePipelineInv'
  BY ExploringOK, NothingFoundOK, FoundOK, CrashOK, MinimizingOK, ReplayOneOK,
     ReplayingOneOK, GateStutterOK DEF GateNext
<1>2. QED
  BY <1>1, GateInitOK, PTL DEF GateSpec

\* The count rests with the search.
LEMMA CountRests ==
    ASSUME CountInv, phase = "over", UNCHANGED <<scene, searching>>
    PROVE  CountInv'
<1>1. UNCHANGED <<scene, explored, phase, result>>
  BY DEF searching
<1>2. ExploredOvercounts /\ phase' = "over"
  BY <1>1 DEF CountInv
<1>3. ExploredOvercounts'
  BY <1>1, <1>2 DEF ExploredOvercounts, Honest
<1>4. QED
  BY <1>2, <1>3 DEF CountInv

LEMMA CountStutters ==
    ASSUME CountInv, UNCHANGED <<scene, script, searching>>
    PROVE  CountInv'
<1>1. UNCHANGED <<scene, script, frames, explored, phase, result>>
  BY DEF searching
<1>2. QED
  BY <1>1 DEF CountInv, ExploredOvercounts, Honest, Behind, Completed, Ahead, Open

LEMMA CountInvariance == GateSpec => []CountInv
<1>1. GateInit => CountInv
  BY CountBegins DEF GateInit
<1>2. ASSUME GatePipelineInv, CountInv, [GateNext]_pipeline PROVE CountInv'
  <2>1. CASE Exploring
    BY <1>2, <2>1, SearchCounts DEF Exploring, GatePipelineInv, IInv
  <2>2. CASE NothingFound
    BY <1>2, <2>2, CountRests DEF NothingFound, vars
  <2>3. CASE Found
    <3>1. phase = "over" /\ UNCHANGED <<scene, searching>>
      BY <1>2, <2>3 DEF Found, GatePipelineInv, SearchInv
    <3>2. QED
      BY <1>2, <3>1, CountRests
  <2>4. CASE Crash
    <3>1. phase = "over" /\ UNCHANGED <<scene, searching>>
      BY <1>2, <2>4 DEF Crash, Goto, vars, GatePipelineInv
    <3>2. QED
      BY <1>2, <3>1, CountRests
  <2>5. CASE Minimizing
    <3>1. phase = "over" /\ UNCHANGED <<scene, searching>>
      BY <1>2, <2>5, NextKeeps DEF Minimizing, GatePipelineInv
    <3>2. QED
      BY <1>2, <3>1, CountRests
  <2>6. CASE ReplayOne
    <3>1. phase = "over" /\ UNCHANGED <<scene, searching>>
      BY <1>2, <2>6 DEF ReplayOne, Goto, GatePipelineInv
    <3>2. QED
      BY <1>2, <3>1, CountRests
  <2>7. CASE ReplayingOne
    <3>1. phase = "over" /\ UNCHANGED <<scene, searching>>
      BY <1>2, <2>7, ReplayStepOK DEF ReplayingOne, GatePipelineInv, IInv
    <3>2. QED
      BY <1>2, <3>1, CountRests
  <2>8. CASE UNCHANGED pipeline
    <3>1. UNCHANGED <<scene, script, searching>>
      BY <2>8 DEF pipeline, vars, replaying
    <3>2. QED
      BY <1>2, <3>1, CountStutters
  <2>9. QED
    BY <1>2, <2>1, <2>2, <2>3, <2>4, <2>5, <2>6, <2>7, <2>8 DEF GateNext
<1>3. QED
  BY <1>1, <1>2, GateInvariance, PTL DEF GateSpec

-----------------------------------------------------------------------------

\* Explore finds the first failing schedule in the order of the search among
\* those that execute carries out, and passes only if there is none
\* (explore.go:11, 32).
THEOREM ExploreFindsTheFirst == GateSpec => []FindsTheFirst
<1>1. GatePipelineInv => FindsTheFirst
  BY DEF GatePipelineInv, SearchInv, FindsTheFirst
<1>2. QED
  BY <1>1, GateInvariance, PTL

\* witness.go:39 calls Explored "schedules fully explored (exhaustive)".  When
\* Explore passes it exceeds their number by that of all executions, for every
\* program that keeps the contract (explore.go:48, 53; the run
\* gate_pipeline_explored shows the disagreement on small programs).
THEOREM ExploreOvercounts == GateSpec => []ExploredOvercounts
<1>1. GatePipelineInv /\ CountInv => ExploredOvercounts
  BY DEF GatePipelineInv, SearchInv, CountInv, ExploredOvercounts
<1>2. QED
  BY <1>1, GateInvariance, CountInvariance, PTL

\* The adapter panics only for a program that breaks the contract of
\* Program.Start (scenario.go:45-52).
THEOREM OnlyTheBrokenCrash == GateSpec => []CrashMeansBroken
<1>1. GatePipelineInv => CrashMeansBroken
  <2> SUFFICES ASSUME GatePipelineInv, stage = "crashed", Honest PROVE FALSE
    BY DEF CrashMeansBroken
  <2>1. /\ NextTransition \notin Enabled(scene, state)
        /\ NextTransition \in Offer(scene, Counts(scene, taken))
    BY DEF GatePipelineInv, OfferedInVain, NotCarriedOut
  <2>2. [sched |-> taken, end |-> state] \in Runs(scene)
    BY TakenWalks, WalkIsRun DEF GatePipelineInv, IInv
  <2>3. Enabled(scene, state) = Offer(scene, Counts(scene, taken))
    BY <2>2 DEF Honest
  <2>4. QED
    BY <2>1, <2>3
<1>2. QED
  BY <1>1, GateInvariance, PTL

\* A witness of gate.Explore is one that Minimize accepts, and gate.Replay of
\* it, or of the minimized one, gives it back (gate_test.go:30-37, 65-68).
THEOREM GateConstitution == GateSpec => []GateReplayConfirms
<1>1. GatePipelineInv => GateReplayConfirms
  <2> SUFFICES ASSUME GatePipelineInv PROVE GateReplayConfirms
    OBVIOUS
  <2>1. scene \in Scene /\ Named(scene)
    BY NamesAssumption DEF GatePipelineInv, SearchInv
  <2>2. pc # "refused"
    BY <2>1, EvidenceAccepted DEF GatePipelineInv, NotCalled
  <2>3. ASSUME stage = "replay", outcome # "running"
        PROVE  outcome = "failed" /\ found = artifact
    BY <2>3, ReplayGivesBack DEF GatePipelineInv, IInv
  <2>4. QED
    BY <2>2, <2>3 DEF GateReplayConfirms
<1>2. QED
  BY <1>1, GateInvariance, PTL
=============================================================================
