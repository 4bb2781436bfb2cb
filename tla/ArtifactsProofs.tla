--------------------------- MODULE ArtifactsProofs ---------------------------
(* What the commands promise of their files, for any scenes, paths and       *)
(* roundings of parameters.                                                  *)
EXTENDS Artifacts, ScenarioProofs, FiniteSetTheorems

Exploring == command.kind = "explore"

\* The options of explore; a command that writes has a path to write to, and
\* only explore writes two files.
WellFormed ==
    /\ stage \in {"idle", "raw", "minimized"}
    /\ disk = [p \in Path |-> disk[p]]
    /\ Exploring => /\ command.scene \in Scene
                    /\ command.out \in Option(Path)
                    /\ command.minimized \in BOOLEAN
                    /\ command.gate \in BOOLEAN
    /\ stage # "idle" => /\ command.kind \in {"explore", "minimize"}
                         /\ command.out \in Option(Path) \ {{}}
    /\ stage = "raw" => Exploring

\* Of an explore that found something: its evidence is of its scene, and was
\* minimized if that was asked for, to one that fails the same invariant.
Paired ==
    /\ evidence.kind = "witness"
    /\ evidence.scene = command.scene
    /\ IF command.minimized
       THEN /\ derived.kind = "witness"
            /\ derived.scene = command.scene
            /\ derived.witness.invariant = evidence.witness.invariant
       ELSE derived = None

EvidencePaired ==
    Exploring => /\ stage # "idle" => evidence # None
                 /\ stage = "minimized" => command.minimized
                 /\ evidence # None => Paired

\* The raw file is there when the minimized one is due.
RawFirst == Exploring /\ stage = "minimized" => disk[Out] = evidence

\* An explore that ended without an error has written what it had to.
AllWritten ==
    Exploring /\ stage = "idle" /\ exit # 1 /\ Wanted =>
        IF command.minimized
        THEN /\ disk[MinimizedPath(Out)] = derived
             /\ Out.ext # "min.json" => disk[Out] = evidence
        ELSE disk[Out] = evidence

Invariant == WellFormed /\ EvidencePaired /\ RawFirst /\ AllWritten

-----------------------------------------------------------------------------

LEMMA OutIsPath ==
    ASSUME command.out \in Option(Path) \ {{}}
    PROVE  Out \in Path /\ command.out = {Out}
<1>1. PICK p \in Path : command.out = {p}
  BY DEF Option
<1>2. Out = p
  BY <1>1 DEF Out
<1>3. QED
  BY <1>1, <1>2

\* The two names differ, unless the one given is that of a minimized witness.
LEMMA NamesDiffer ==
    ASSUME NEW path \in Path
    PROVE  /\ MinimizedPath(path) \in Path
           /\ path.ext # "min.json" => MinimizedPath(path) # path
           /\ path.ext = "min.json" => MinimizedPath(path) = path
<1>1. /\ path = [stem |-> path.stem, ext |-> path.ext]
      /\ [path EXCEPT !.ext = "min.json"] \in Path
  BY PathAssumption
<1>2. [path EXCEPT !.ext = "min.json"] = [stem |-> path.stem, ext |-> "min.json"]
  BY <1>1
<1>3. [stem |-> path.stem, ext |-> "min.json"].ext = "min.json"
  OBVIOUS
<1>4. QED
  BY <1>1, <1>2, <1>3 DEF MinimizedPath

\* What Minimize returns fails the invariant of what it was given.
LEMMA MinimumKeepsInvariant ==
    ASSUME NEW sc \in Scene, NEW w \in Finds[sc], NEW m \in Minimum[sc][w]
    PROVE  m.invariant = w.invariant
<1>1. Minimum[sc][w] = Minima(sc, w)
  BY DEF Minimum
<1>2. QED
  BY <1>1 DEF Minima

LEMMA FileIsWitness ==
    ASSUME NEW sc, NEW w
    PROVE  /\ File(sc, w).kind = "witness"
           /\ File(sc, w).scene = sc
           /\ File(sc, w).witness = w
           /\ File(sc, w) # None
BY DEF File, None

\* A command other than explore leaves only the obligations of one that writes.
LEMMA OtherCommand ==
    ASSUME Invariant, UNCHANGED disk, ~Exploring',
           stage' \in {"idle", "minimized"},
           stage' # "idle" => /\ command'.kind = "minimize"
                              /\ command'.out \in Option(Path) \ {{}}
    PROVE  Invariant'
BY DEF Invariant, WellFormed, EvidencePaired, RawFirst, AllWritten, Exploring

-----------------------------------------------------------------------------

LEMMA InitInvariant == Init => Invariant
<1> SUFFICES ASSUME Init PROVE Invariant
  OBVIOUS
<1>1. stage = "idle" /\ ~Exploring
  BY DEF Init, Exploring, None
<1>2. disk = [p \in Path |-> disk[p]]
  BY DEF Init
<1>3. QED
  BY <1>1, <1>2 DEF Invariant, WellFormed, EvidencePaired, RawFirst, AllWritten

LEMMA ExploreKeeps ==
    ASSUME Invariant, NEW sc \in Scene, NEW out \in Option(Path),
           NEW minimized \in BOOLEAN, NEW gate \in BOOLEAN,
           Explore(sc, out, minimized, gate)
    PROVE  Invariant'
<1>1. /\ command'.kind = "explore" /\ command'.scene = sc
      /\ command'.out = out /\ command'.minimized = minimized
      /\ command'.gate = gate
      /\ disk' = disk
  BY DEF Explore, Start
<1>2. CASE Finds[sc] = {}
  <2>1. stage' = "idle" /\ evidence' = None
    BY <1>2 DEF Explore, Ends
  <2>2. QED
    BY <1>1, <2>1 DEF Invariant, WellFormed, EvidencePaired, RawFirst,
                      AllWritten, Exploring, Wanted
<1>3. CASE Finds[sc] # {}
  <2>1. PICK w \in Finds[sc] :
           /\ evidence' = File(sc, w)
           /\ IF minimized THEN \E m \in Minimum[sc][w] : derived' = File(sc, m)
              ELSE derived' = None
           /\ IF out = {} THEN Ends(GateCode(gate))
              ELSE stage' = "raw" /\ exit' = -1
    BY <1>3 DEF Explore
  <2>2. Paired'
    <3>1. evidence'.kind = "witness" /\ evidence'.scene = sc
          /\ evidence'.witness = w
      BY <2>1, FileIsWitness
    <3>2. CASE ~minimized
      BY <1>1, <2>1, <3>1, <3>2 DEF Paired, None
    <3>3. CASE minimized
      <4>1. PICK m \in Minimum[sc][w] : derived' = File(sc, m)
        BY <2>1, <3>3
      <4>2. /\ derived'.kind = "witness" /\ derived'.scene = sc
            /\ derived'.witness.invariant = w.invariant
        BY <4>1, FileIsWitness, MinimumKeepsInvariant
      <4>3. QED
        BY <1>1, <3>1, <3>3, <4>2 DEF Paired
    <3>4. QED
      BY <3>2, <3>3
  <2>3. /\ stage' \in {"idle", "raw"}
        /\ stage' = "idle" => out = {}
        /\ stage' # "idle" => out # {}
    BY <2>1 DEF Ends
  <2>4. evidence' # None
    BY <2>1, FileIsWitness
  <2>5. WellFormed'
    BY <1>1, <2>3 DEF Invariant, WellFormed, Exploring
  <2>6. EvidencePaired'
    BY <2>2, <2>3, <2>4 DEF EvidencePaired
  <2>7. RawFirst' /\ AllWritten'
    BY <1>1, <2>3 DEF RawFirst, AllWritten, Wanted
  <2>8. QED
    BY <2>5, <2>6, <2>7 DEF Invariant
<1>4. QED
  BY <1>2, <1>3

LEMMA MinimizeKeeps ==
    ASSUME Invariant, NEW path \in Path, NEW out \in Option(Path),
           MinimizeCmd(path, out)
    PROVE  Invariant'
<1> DEFINE outs == IF out = {} THEN {MinimizedPath(path)} ELSE out
<1>1. outs \in Option(Path) \ {{}}
  BY NamesDiffer DEF Option
<1>2. /\ command' = [kind |-> "minimize", path |-> path, out |-> outs]
      /\ UNCHANGED disk
  BY DEF MinimizeCmd, Unreadable, Start
<1>3. stage' \in {"idle", "minimized"}
  BY DEF MinimizeCmd, Unreadable, Ends
<1>4. command'.kind = "minimize" /\ command'.out = outs
  BY <1>2
<1>5. QED
  BY <1>1, <1>2, <1>3, <1>4, OtherCommand DEF Exploring

LEMMA ReplayKeeps ==
    ASSUME Invariant, NEW path \in Path, NEW gate \in BOOLEAN,
           Replay(path, gate)
    PROVE  Invariant'
<1>1. /\ command' = [kind |-> "replay", path |-> path, gate |-> gate]
      /\ UNCHANGED disk
  BY DEF Replay, Unreadable, Start
<1>2. stage' = "idle"
  BY DEF Replay, Unreadable, Ends
<1>3. command'.kind = "replay"
  BY <1>1
<1>4. QED
  BY <1>1, <1>2, <1>3, OtherCommand DEF Exploring

LEMMA WriteRawKeeps ==
    ASSUME Invariant, WriteRaw
    PROVE  Invariant'
<1>1. /\ stage = "raw" /\ Exploring /\ evidence # None /\ Paired
      /\ Out \in Path
      /\ UNCHANGED <<command, evidence, derived>>
  BY OutIsPath DEF WriteRaw, Invariant, WellFormed, EvidencePaired
<1>2. Out' = Out /\ Exploring' /\ Paired'
  BY <1>1 DEF Out, Exploring, Paired
<1>3. disk' = [p \in Path |-> disk'[p]]
  BY <1>1 DEF WriteRaw, WriteFails, Writes, Invariant, WellFormed
<1>4. CASE WriteFails(Out)
  <2>1. stage' = "idle" /\ exit' = 1
    BY <1>4 DEF WriteFails, Ends
  <2>2. QED
    BY <1>1, <1>2, <1>3, <2>1
       DEF Invariant, WellFormed, EvidencePaired, RawFirst, AllWritten, Exploring
<1>5. CASE Writes(Out, evidence) /\ derived = None /\ Ends(Code)
  <2>1. disk'[Out] = evidence
    BY <1>1, <1>5 DEF Writes, Invariant, WellFormed
  <2>2. ~command.minimized
    BY <1>1, <1>5 DEF Paired, None
  <2>3. stage' = "idle"
    BY <1>5 DEF Ends
  <2>4. QED
    BY <1>1, <1>2, <1>3, <2>1, <2>2, <2>3
       DEF Invariant, WellFormed, EvidencePaired, RawFirst, AllWritten, Exploring
<1>6. CASE Writes(Out, evidence) /\ derived # None /\ stage' = "minimized"
  <2>1. disk'[Out] = evidence
    BY <1>1, <1>6 DEF Writes, Invariant, WellFormed
  <2>2. command.minimized
    BY <1>1, <1>6 DEF Paired
  <2>3. QED
    BY <1>1, <1>2, <1>3, <1>6, <2>1, <2>2
       DEF Invariant, WellFormed, EvidencePaired, RawFirst, AllWritten, Exploring
<1>7. QED
  BY <1>4, <1>5, <1>6 DEF WriteRaw

LEMMA WriteMinimizedKeeps ==
    ASSUME Invariant, WriteMinimized
    PROVE  Invariant'
<1>1. /\ stage = "minimized" /\ stage' = "idle"
      /\ Out \in Path /\ Target \in Path
      /\ UNCHANGED <<command, evidence, derived>>
  BY OutIsPath, NamesDiffer
     DEF WriteMinimized, WriteFails, Ends, Target, Invariant, WellFormed
<1>2. /\ Out' = Out /\ Exploring' = Exploring /\ Paired' = Paired
      /\ Wanted' = Wanted
  BY <1>1 DEF Out, Exploring, Paired, Wanted
<1>3. disk' = [p \in Path |-> disk'[p]]
  BY <1>1 DEF WriteMinimized, WriteFails, Writes, Invariant, WellFormed
<1>4. WellFormed' /\ EvidencePaired' /\ RawFirst'
  BY <1>1, <1>2, <1>3
     DEF Invariant, WellFormed, EvidencePaired, RawFirst, Exploring
<1>5. ASSUME Exploring, exit' # 1
      PROVE  /\ command.minimized
             /\ disk'[MinimizedPath(Out)] = derived
             /\ Out.ext # "min.json" => disk'[Out] = evidence
  <2>1. Target = MinimizedPath(Out)
    BY <1>5 DEF Target, Exploring
  <2>2. disk' = [disk EXCEPT ![Target] = derived]
    BY <1>5 DEF WriteMinimized, WriteFails, Writes, Ends
  <2>3. disk[Out] = evidence /\ command.minimized
    BY <1>1, <1>5 DEF Invariant, RawFirst, EvidencePaired
  <2>4. QED
    BY <1>1, <2>1, <2>2, <2>3, NamesDiffer DEF Invariant, WellFormed
<1>6. AllWritten'
  <2>1. command' = command /\ evidence' = evidence /\ derived' = derived
    BY <1>1
  <2>2. QED
    BY <1>2, <1>5, <2>1 DEF AllWritten, Exploring
<1>7. QED
  BY <1>4, <1>6 DEF Invariant

LEMMA NextInvariant == Invariant /\ [Next]_vars => Invariant'
<1> SUFFICES ASSUME Invariant, [Next]_vars PROVE Invariant'
  OBVIOUS
<1>1. CASE UNCHANGED vars
  BY <1>1 DEF vars, Invariant, WellFormed, EvidencePaired, Paired, RawFirst,
              AllWritten, Exploring, Wanted, Out
<1>2. CASE Next
  BY <1>2, ExploreKeeps, MinimizeKeeps, ReplayKeeps, WriteRawKeeps,
     WriteMinimizedKeeps DEF Next
<1>3. QED
  BY <1>1, <1>2

LEMMA Inductive == Spec => []Invariant
BY InitInvariant, NextInvariant, PTL DEF Spec

-----------------------------------------------------------------------------

\* When the minimized witness is due the raw one is on the disk, and a write
\* that fails does not touch it (cli.go:257-264).
THEOREM RawIsKept == Spec => RawStays
<1> DEFINE Step == Exploring /\ stage = "minimized" =>
                      /\ disk[Out] = evidence
                      /\ Out.ext # "min.json" => disk'[Out] = evidence
<1>1. Invariant /\ [Next]_vars => [Step]_vars
  <2> SUFFICES ASSUME Invariant, Next, Exploring, stage = "minimized"
               PROVE  /\ disk[Out] = evidence
                      /\ Out.ext # "min.json" => disk'[Out] = evidence
    BY DEF vars
  <2>1. disk[Out] = evidence /\ Out \in Path
    BY OutIsPath DEF Invariant, RawFirst, WellFormed
  <2>2. WriteMinimized
    BY DEF Next, Explore, MinimizeCmd, Replay, Unreadable, Start, WriteRaw
  <2>3. \E file : disk' \in {disk, [disk EXCEPT ![MinimizedPath(Out)] = file]}
    BY <2>2 DEF WriteMinimized, WriteFails, Writes, Target, Exploring
  <2>4. QED
    BY <2>1, <2>3, NamesDiffer DEF Invariant, WellFormed
<1>2. QED
  BY <1>1, Inductive, PTL DEF Spec, RawStays, Exploring

\* An explore that says that an invariant fails has left the evidence at the
\* path it was given (cli.go:250-273).
THEOREM GateSpeaksTheTruth == Spec => []GateMeansEvidence
<1>1. Invariant => GateMeansEvidence
  <2> SUFFICES ASSUME Invariant, Exploring, stage = "idle", exit = 2, Wanted
               PROVE  /\ Complete(Out)
                      /\ disk[Out].scene = command.scene
                      /\ disk[Out].witness.invariant = evidence.witness.invariant
    BY DEF GateMeansEvidence, Ended, Exploring
  <2>1. Paired /\ Out \in Path
    BY OutIsPath DEF Invariant, EvidencePaired, WellFormed, Wanted
  <2>2. disk[Out] = evidence \/ (command.minimized /\ disk[Out] = derived)
    BY <2>1, NamesDiffer DEF Invariant, AllWritten
  <2>3. QED
    BY <2>1, <2>2 DEF Paired, Complete
<1>2. QED
  BY <1>1, Inductive, PTL

\* An explore --minimize that reports no error has left both files
\* (cli.go:250-269).
THEOREM PairIsThere == Spec => []PairOnExit
<1>1. Invariant => PairOnExit
  BY DEF Invariant, AllWritten, PairOnExit, Ended, Exploring, MinimizedPath
<1>2. QED
  BY <1>1, Inductive, PTL

-----------------------------------------------------------------------------
(* What the files say. *)

\* The places in kept can be numbered.
LEMMA Numbered ==
    ASSUME NEW l \in Nat, NEW kept \in SUBSET (1..l), NEW i \in 1..Cardinality(kept)
    PROVE  /\ Cardinality(kept) \in Nat
           /\ \E k \in kept : Cardinality({j \in kept : j <= k}) = i
<1> DEFINE Upto(k) == {j \in kept : j <= k}
           c(k) == Cardinality(Upto(k))
           Enough == {k \in 0..l : c(k) >= i}
<1>0. \A j \in kept : j \in Nat /\ 1 <= j /\ j <= l
  OBVIOUS
<1>1. IsFiniteSet(kept)
  <2>1. IsFiniteSet(1..l)
    BY FS_Interval
  <2>2. QED
    BY <2>1, FS_Subset
<1>2. ASSUME NEW k \in 0..l PROVE IsFiniteSet(Upto(k)) /\ c(k) \in Nat
  <2>1. Upto(k) \in SUBSET kept
    OBVIOUS
  <2> HIDE DEF Upto
  <2>2. IsFiniteSet(Upto(k))
    BY <1>1, <2>1, FS_Subset
  <2>3. QED
    BY <2>2, FS_CardinalityType
<1>3. c(l) = Cardinality(kept) /\ Cardinality(kept) \in Nat
  <2>1. Upto(l) = kept
    BY <1>0
  <2> HIDE DEF Upto
  <2>2. QED
    BY <1>1, <2>1, FS_CardinalityType
<1>4. c(0) = 0
  <2>1. \A j \in Upto(0) : FALSE
    BY <1>0
  <2> HIDE DEF Upto
  <2>2. QED
    BY <2>1, FS_EmptySet
<1>5. ASSUME NEW k \in 1..l
      PROVE  IF k \in kept THEN c(k) = c(k-1) + 1 ELSE c(k) = c(k-1)
  <2>1. IsFiniteSet(Upto(k-1)) /\ c(k-1) \in Nat
    <3>1. k - 1 \in 0..l
      OBVIOUS
    <3> HIDE DEF Upto, c
    <3>2. QED
      BY <1>2, <3>1
  <2>2. CASE k \in kept
    <3>1. /\ \A j \in Upto(k) : j \in Upto(k-1) \/ j = k
          /\ \A j \in Upto(k-1) : j \in Upto(k)
          /\ k \in Upto(k) /\ k \notin Upto(k-1)
      BY <1>0, <2>2
    <3> HIDE DEF Upto
    <3>2. Upto(k) = Upto(k-1) \cup {k}
      BY <3>1
    <3>3. Cardinality(Upto(k-1) \cup {k}) = Cardinality(Upto(k-1)) + 1
      BY <2>1, <3>1, FS_AddElement
    <3>4. QED
      BY <2>2, <3>2, <3>3
  <2>3. CASE k \notin kept
    <3>1. /\ \A j \in Upto(k) : j \in Upto(k-1)
          /\ \A j \in Upto(k-1) : j \in Upto(k)
      <4>1. \A j \in kept : j # k
        BY <2>3
      <4>2. QED
        BY <1>0, <4>1
    <3> HIDE DEF Upto
    <3>2. Upto(k) = Upto(k-1)
      BY <3>1
    <3>3. QED
      BY <2>3, <3>2
  <2>4. QED
    BY <2>2, <2>3
<1> HIDE DEF c, Upto
<1>6. l \in Enough
  BY <1>2, <1>3
<1>7. PICK k \in Enough : \A n \in Enough : k <= n
  <2>1. Enough \in SUBSET Nat /\ Enough # {}
    BY <1>6
  <2> HIDE DEF Enough
  <2>2. QED
    BY <2>1, LeastNumber
<1>8. k \in 1..l /\ c(k) >= i
  BY <1>4, <1>7
<1>9. c(k-1) < i
  <2>1. k - 1 \in 0..l /\ k - 1 \notin Enough
    BY <1>7, <1>8
  <2>2. QED
    BY <1>2, <2>1
<1>10. k \in kept /\ c(k) = i
  BY <1>2, <1>5, <1>8, <1>9
<1>11. QED
  BY <1>3, <1>10 DEF c, Upto

LEMMA KeptType ==
    ASSUME NEW s \in Schedule, NEW kept \in SUBSET DOMAIN s
    PROVE  Kept(s, kept) \in Schedule
<1> DEFINE n == Cardinality(kept)
           place(i) == CHOOSE k \in kept : Cardinality({j \in kept : j <= k}) = i
<1>1. s \in Seq(Transition) /\ Len(s) \in Nat /\ DOMAIN s = 1..Len(s)
  BY DEF Schedule
<1>2. n \in Nat
  <2>1. IsFiniteSet(1..Len(s))
    BY <1>1, FS_Interval
  <2>2. IsFiniteSet(kept)
    BY <1>1, <2>1, FS_Subset
  <2>3. QED
    BY <2>2, FS_CardinalityType
<1>3. ASSUME NEW i \in 1..n PROVE s[place(i)] \in Transition
  <2>1. \E k \in kept : Cardinality({j \in kept : j <= k}) = i
    BY <1>1, Numbered
  <2>2. place(i) \in kept
    BY <2>1
  <2> HIDE DEF place
  <2>3. QED
    BY <1>1, <2>2
<1>4. Kept(s, kept) = [i \in 1..n |-> s[place(i)]]
  BY DEF Kept
<1> HIDE DEF n, place
<1>5. [i \in 1..n |-> s[place(i)]] \in Seq(Transition)
  BY <1>2, <1>3
<1>6. QED
  BY <1>4, <1>5 DEF Schedule

\* w is what replaying its schedule in sc shows.
Shown(sc, w) ==
    /\ sc \in Scene
    /\ w \in Witness
    /\ WitnessOf(sc, w.schedule) = w

\* What an exploration finds is.
LEMMA FindsShown ==
    ASSUME NEW sc \in Scene, NEW w \in Finds[sc]
    PROVE  Shown(sc, w)
<1> DEFINE Equation(S) == Collects(sc, 0..Bound, S)
           S == CHOOSE S : Equation(S)
<1>1. Schedules(sc) = UNION {S[n] : n \in 1..Bound}
  BY DEF Schedules, Collects, Further
<1>2. /\ \E R : Equation(R)
      /\ \A R : Equation(R) => \A n \in 0..Bound : R[n] = Walks(sc, n)
  <2>1. 0..Bound \in SUBSET Nat /\ 0 \in 0..Bound
        /\ \A n \in Nat : n + 1 \in 0..Bound => n \in 0..Bound
    BY BoundAssumption
  <2>2. QED
    BY <2>1, WalksCollected
<1>3. Equation(S)
  <2> HIDE DEF Equation
  <2>1. QED
    BY <1>2
<1> HIDE DEF S
<1>4. \A n \in 0..Bound : S[n] = Walks(sc, n)
  BY <1>2, <1>3
<1>5. PICK r \in Schedules(sc) : Violates(sc, r.end) /\ w = Check(sc, r.end, r.sched)
  BY DEF Finds
<1>6. PICK n \in 1..Bound : r \in Walks(sc, n)
  <2>1. PICK n \in 1..Bound : r \in S[n]
    BY <1>1
  <2>2. QED
    BY <1>4, <2>1
<1>7. /\ r.sched \in Schedule /\ r.sched # <<>> /\ r.end \in State(sc)
      /\ WalksTo(sc, r.sched, r.end)
  BY <1>6, EmptySeq DEF Walks
<1>8. WitnessOf(sc, r.sched) = w /\ w \in Witness /\ w.schedule = r.sched
  BY <1>5, <1>7, WalkWitness, CheckFails
<1>9. QED
  BY <1>8 DEF Shown

\* And so is what Minimize makes of such a witness.
LEMMA MinimaShown ==
    ASSUME NEW sc \in Scene, NEW w, w.schedule \in Schedule, NEW m \in Minima(sc, w)
    PROVE  Shown(sc, m)
<1>1. PICK kept \in SUBSET DOMAIN w.schedule : m = WitnessOf(sc, Kept(w.schedule, kept))
  BY DEF Minima
<1>2. Kept(w.schedule, kept) \in Schedule
  BY KeptType
<1> DEFINE s == Kept(w.schedule, kept)
<1>3. s \in Schedule /\ m = WitnessOf(sc, s)
  BY <1>1, <1>2
<1> HIDE DEF s
<1>4. QED
  BY <1>3, WitnessFixed DEF Shown

\* A file that holds a witness holds one of its own scene.
Truthful(file) == file.kind = "witness" => Shown(file.scene, file.witness)

\* So do all files on the disk, and those about to be written.
AllTruthful ==
    /\ \A p \in Path : Truthful(disk[p])
    /\ stage = "raw" => Truthful(evidence) /\ Truthful(derived)
    /\ stage = "minimized" => Truthful(derived)

LEMMA FileTruthful ==
    ASSUME NEW sc, NEW w, Shown(sc, w)
    PROVE  Truthful(File(sc, w))
BY FileIsWitness DEF Truthful

LEMMA NoFileTruthful ==
    ASSUME NEW file \in {None, Absent, Torn}
    PROVE  Truthful(file)
BY DEF Truthful, None, Absent, Torn

LEMMA ExploreTruthful ==
    ASSUME AllTruthful, NEW sc \in Scene, NEW out, NEW minimized \in BOOLEAN,
           NEW gate, Explore(sc, out, minimized, gate)
    PROVE  AllTruthful'
<1>1. disk' = disk
  BY DEF Explore, Start
<1>2. CASE Finds[sc] = {}
  <2>1. stage' = "idle"
    BY <1>2 DEF Explore, Ends
  <2>2. QED
    BY <1>1, <2>1 DEF AllTruthful, Truthful
<1>3. CASE Finds[sc] # {}
  <2>1. PICK w \in Finds[sc] :
           /\ evidence' = File(sc, w)
           /\ IF minimized THEN \E m \in Minimum[sc][w] : derived' = File(sc, m)
              ELSE derived' = None
           /\ stage' \in {"idle", "raw"}
    BY <1>3 DEF Explore, Ends
  <2>2. Shown(sc, w)
    BY FindsShown
  <2>3. Truthful(evidence')
    BY <2>1, <2>2, FileTruthful
  <2>4. Truthful(derived')
    <3>1. CASE ~minimized
      BY <2>1, <3>1, NoFileTruthful
    <3>2. CASE minimized
      <4>1. PICK m \in Minima(sc, w) : derived' = File(sc, m)
        BY <2>1, <3>2 DEF Minimum
      <4>2. w.schedule \in Schedule
        BY <2>2 DEF Shown, Witness
      <4>3. QED
        BY <4>1, <4>2, MinimaShown, FileTruthful
    <3>3. QED
      BY <3>1, <3>2
  <2>5. QED
    BY <1>1, <2>1, <2>3, <2>4 DEF AllTruthful, Truthful
<1>4. QED
  BY <1>2, <1>3

LEMMA MinimizeTruthful ==
    ASSUME AllTruthful, NEW path \in Path, NEW out, MinimizeCmd(path, out)
    PROVE  AllTruthful'
<1> DEFINE sc == Decoded(disk[path].scene)
           w == disk[path].witness
<1>1. disk' = disk /\ stage' \in {"idle", "minimized"}
  BY DEF MinimizeCmd, Unreadable, Start, Ends
<1>2. CASE stage' = "idle"
  BY <1>1, <1>2 DEF AllTruthful, Truthful
<1>3. CASE stage' = "minimized"
  <2>1. disk[path].kind = "witness" /\ \E m \in Minimized(sc, w) : derived' = File(sc, m)
    BY <1>3 DEF MinimizeCmd, Unreadable, Complete, Ends
  <2>2. Shown(disk[path].scene, w)
    BY <2>1 DEF AllTruthful, Truthful
  <2>3. sc \in Scene /\ w.schedule \in Schedule
    BY <2>2, DecodedAssumption DEF Shown, Witness
  <2>4. PICK m \in Minimized(sc, w) : derived' = File(sc, m)
    BY <2>1
  <2> HIDE DEF sc, w
  <2>5. m \in Minima(sc, w)
    BY <2>3, <2>4 DEF Minimized, Minimum
  <2>6. Truthful(derived')
    BY <2>3, <2>4, <2>5, MinimaShown, FileTruthful
  <2>7. QED
    BY <1>1, <1>3, <2>6 DEF AllTruthful, Truthful
<1>4. QED
  BY <1>1, <1>2, <1>3

LEMMA WriteTruthful ==
    ASSUME AllTruthful, WellFormed, WriteRaw \/ WriteMinimized
    PROVE  AllTruthful'
<1>1. UNCHANGED <<evidence, derived>> /\ stage' \in {"idle", "minimized"}
  BY DEF WriteRaw, WriteMinimized, WriteFails, Ends
<1>2. stage' = "minimized" => Truthful(derived)
  BY DEF WriteRaw, WriteMinimized, WriteFails, Ends, AllTruthful
<1>3. \E path, file : /\ Truthful(file)
                      /\ disk' \in {disk, [disk EXCEPT ![path] = file]}
  <2>1. CASE WriteRaw
    <3>1. disk' \in {disk, [disk EXCEPT ![Out] = Torn], [disk EXCEPT ![Out] = evidence]}
      BY <2>1 DEF WriteRaw, WriteFails, Writes
    <3>2. Truthful(evidence)
      BY <2>1 DEF WriteRaw, AllTruthful
    <3>3. QED
      BY <3>1, <3>2, NoFileTruthful
  <2>2. CASE WriteMinimized
    <3>1. disk' \in {disk, [disk EXCEPT ![Target] = Torn],
                     [disk EXCEPT ![Target] = derived]}
      BY <2>2 DEF WriteMinimized, WriteFails, Writes
    <3>2. Truthful(derived)
      BY <2>2 DEF WriteMinimized, AllTruthful
    <3>3. QED
      BY <3>1, <3>2, NoFileTruthful
  <2>3. QED
    BY <2>1, <2>2
<1>4. \A p \in Path : Truthful(disk'[p])
  BY <1>3 DEF AllTruthful, WellFormed
<1>5. QED
  BY <1>1, <1>2, <1>4 DEF AllTruthful, Truthful

LEMMA TruthfulAlways == Spec => []AllTruthful
<1>1. Init => AllTruthful
  BY NoFileTruthful DEF Init, AllTruthful
<1>2. Invariant /\ AllTruthful /\ [Next]_vars => AllTruthful'
  <2> SUFFICES ASSUME Invariant, AllTruthful, [Next]_vars PROVE AllTruthful'
    OBVIOUS
  <2>1. CASE UNCHANGED vars
    BY <2>1 DEF vars, AllTruthful, Truthful
  <2>2. CASE \E path \in Path, gate \in BOOLEAN : Replay(path, gate)
    BY <2>2 DEF Replay, Unreadable, Start, Ends, AllTruthful, Truthful
  <2>3. QED
    BY <2>1, <2>2, ExploreTruthful, MinimizeTruthful, WriteTruthful
       DEF Next, Invariant
<1>3. QED
  BY <1>1, <1>2, Inductive, PTL DEF Spec

\* A file on the disk holds a witness of its own scene, whichever command wrote
\* it, over whatever was there: a replay gives it back, failedAt included
\* (cli.go:415).
THEOREM FilesReproduce == Spec => []DiskReproduces
<1>1. AllTruthful => DiskReproduces
  BY DEF AllTruthful, Truthful, Shown, DiskReproduces, Complete
<1>2. QED
  BY <1>1, TruthfulAlways, PTL
=============================================================================
