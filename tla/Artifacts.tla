------------------------------ MODULE Artifacts ------------------------------
(***************************************************************************)
(* The commands explore, minimize and replay of the tool, and the witness  *)
(* files through which they hand evidence on (internal/cli, report).  What *)
(* exploring and minimizing find is taken from what modules Exhaustive,    *)
(* Seeded and Minimize promise; here are the files: their names, the order *)
(* in which they are written, and writes that fail.                        *)
(***************************************************************************)
EXTENDS Scenario, Integers, FiniteSets

CONSTANTS
    Path,           \* what paths name: a stem and an extension each
    Decoded(_),     \* the scene that demos.Load builds from decoded parameters
    Bound           \* a bound on the length of schedules

\* With a path, the one that minimizedPath makes of it is there as well.
ASSUME PathAssumption ==
    /\ \A p \in Path : /\ p = [stem |-> p.stem, ext |-> p.ext]
                       /\ p.ext \in {"", "json", "min.json"}
    /\ \A p \in Path : [p EXCEPT !.ext = "min.json"] \in Path

ASSUME BoundAssumption == Bound \in Nat

ASSUME DecodedAssumption == \A sc \in Scene : Decoded(sc) \in Scene

VARIABLES
    disk,       \* the contents of each path
    command,    \* the command under way, or the latest one
    stage,      \* "idle", "raw" or "minimized": the file to be written next
    evidence,   \* the file of the raw witness of the command
    derived,    \* the file of the minimized witness of the command
    exit        \* the exit code of the latest command, -1 while it runs

vars == <<disk, command, stage, evidence, derived, exit>>

-----------------------------------------------------------------------------

\* A file that does not exist, and one that is not a witness: a write that
\* failed has truncated it.
Absent == [kind |-> "absent"]
Torn == [kind |-> "torn"]

\* Slip: FromSchedule copies all transitions but the last.
FileShort(sc, w) ==
    [kind |-> "witness", scene |-> sc,
     witness |-> [w EXCEPT !.schedule = SubSeq(@, 1, Len(@) - 1)]]

\* NewWitnessFile.
File(sc, w) == [kind |-> "witness", scene |-> sc, witness |-> w]

Complete(path) == disk[path].kind = "witness"

\* Slip: a name that ends in .json is kept.
MinimizedPathKept(path) ==
    [path EXCEPT !.ext = IF path.ext = "" THEN "min.json" ELSE path.ext]

\* minimizedPath.
MinimizedPath(path) == [path EXCEPT !.ext = "min.json"]

\* The schedules an exploration of sc may end with, and their evidence.
Schedules(sc) ==
    LET S[n \in 0..Bound] ==
            IF n = 0 THEN {[sched |-> <<>>, end |-> Initial(sc)]}
            ELSE UNION {{[sched |-> Append(r.sched, t), end |-> Apply(sc, r.end, t)] :
                            t \in Enabled(sc, r.end)} :
                        r \in {q \in S[n-1] : n > 1 => ~Violates(sc, q.end)}}
    IN  UNION {S[n] : n \in 1..Bound}

\* Evaluated once for each scene, as Minimum below is.
Finds ==
    [sc \in Scene |->
        {Check(sc, r.end, r.sched) :
            r \in {q \in Schedules(sc) : Violates(sc, q.end)}}]

\* The part of s at the places in kept.
Kept(s, kept) ==
    LET n == Cardinality(kept)
        place(i) == CHOOSE k \in kept : Cardinality({j \in kept : j <= k}) = i
    IN  [i \in 1..n |-> s[place(i)]]

\* What Minimize may return for w: transitions were removed, and no other one
\* can be.
Minima(sc, w) ==
    LET same(s) == WitnessOf(sc, s).invariant = w.invariant
        parts == {Kept(w.schedule, kept) : kept \in SUBSET DOMAIN w.schedule \ {{}}}
    IN  {WitnessOf(sc, s) : s \in
            {p \in parts :
                /\ same(p)
                /\ \A i \in DOMAIN p : ~same(Kept(p, DOMAIN p \ {i}))}}

Minimum == [sc \in Scene |-> [w \in Finds[sc] |-> Minima(sc, w)]]

\* A witness of rounded parameters need not be one that explore finds.
Minimized(sc, w) == IF w \in Finds[sc] THEN Minimum[sc][w] ELSE Minima(sc, w)

-----------------------------------------------------------------------------

None == [kind |-> "none"]

Init ==
    /\ disk = [p \in Path |-> Absent]
    /\ command = None
    /\ stage = "idle"
    /\ evidence = None
    /\ derived = None
    /\ exit = 0

Start(cmd) ==
    /\ stage = "idle"
    /\ command' = cmd
    /\ UNCHANGED disk

Ends(code) == stage' = "idle" /\ exit' = code

GateCode(gate) == IF gate THEN 2 ELSE 0

\* explore: the scene is explored, and the witness minimized if asked for;
\* files are written if there is one and -o was given.
Explore(sc, out, minimized, gate) ==
    /\ Start([kind |-> "explore", scene |-> sc, out |-> out,
              minimized |-> minimized, gate |-> gate])
    /\ \/ /\ Finds[sc] = {}
          /\ evidence' = None /\ derived' = None
          /\ Ends(0)
       \/ \E w \in Finds[sc] :
             /\ evidence' = File(sc, w)
             /\ IF minimized THEN \E m \in Minimum[sc][w] : derived' = File(sc, m)
                ELSE derived' = None
             /\ IF out = {} THEN Ends(GateCode(gate))
                ELSE stage' = "raw" /\ exit' = -1

\* Slip: the error of a write is not looked at.
WriteFailsSilently(path) ==
    /\ disk' \in {disk, [disk EXCEPT ![path] = Torn]}
    /\ Ends(GateCode(command.kind = "explore" /\ command.gate))

\* os.WriteFile fails: before the file was truncated, or after.
WriteFails(path) ==
    /\ disk' \in {disk, [disk EXCEPT ![path] = Torn]}
    /\ Ends(1)

Writes(path, file) == disk' = [disk EXCEPT ![path] = file]

\* The one path that -o names.
Out == CHOOSE p \in command.out : TRUE

\* What a command returns when all its files are written.
Code == IF command.kind = "explore" THEN GateCode(command.gate) ELSE 0

\* The raw witness is written, before the minimized one.
WriteRaw ==
    /\ stage = "raw"
    /\ \/ WriteFails(Out)
       \/ /\ Writes(Out, evidence)
          /\ IF derived = None THEN Ends(Code)
             ELSE stage' = "minimized" /\ UNCHANGED exit
    /\ UNCHANGED <<command, evidence, derived>>

\* Where the minimized witness goes: under the name derived from that of the
\* raw one for explore, under the name given for minimize.
Target == IF command.kind = "explore" THEN MinimizedPath(Out) ELSE Out

\* Slip: the raw witness is written once more.
WriteMinimizedRaw ==
    /\ stage = "minimized"
    /\ \/ WriteFails(Target)
       \/ Writes(Target, evidence) /\ Ends(Code)
    /\ UNCHANGED <<command, evidence, derived>>

\* The minimized witness is written.
WriteMinimized ==
    /\ stage = "minimized"
    /\ \/ WriteFails(Target)
       \/ Writes(Target, derived) /\ Ends(Code)
    /\ UNCHANGED <<command, evidence, derived>>

\* The file can not be read: it is absent or no witness.
Unreadable(cmd) ==
    /\ Start(cmd)
    /\ ~Complete(cmd.path)
    /\ evidence' = None /\ derived' = None
    /\ Ends(1)

\* minimize: the output is the derived name unless -o was given.
MinimizeCmd(path, out) ==
    LET cmd == [kind |-> "minimize", path |-> path,
                out |-> IF out = {} THEN {MinimizedPath(path)} ELSE out]
        sc == Decoded(disk[path].scene)
        w == disk[path].witness
    IN  \/ Unreadable(cmd)
        \/ /\ Start(cmd)
           /\ Complete(path)
           /\ evidence' = disk[path]
           /\ IF WitnessOf(sc, w.schedule).invariant = w.invariant
              THEN /\ \E m \in Minimized(sc, w) : derived' = File(sc, m)
                   /\ stage' = "minimized"
                   /\ exit' = -1
              ELSE derived' = None /\ Ends(1)

\* The schedule is executed, whether it fails or not.
Legal(sc, schedule) ==
    LET run[n \in 0..Len(schedule)] ==
            IF n = 0 THEN {Initial(sc)}
            ELSE {Apply(sc, s, schedule[n]) :
                     s \in {r \in run[n-1] : schedule[n] \in Enabled(sc, r)}}
    IN  run[Len(schedule)] # {}

\* replay: any violation of the schedule is reported.
Replay(path, gate) ==
    LET cmd == [kind |-> "replay", path |-> path, gate |-> gate]
        sc == Decoded(disk[path].scene)
        w == disk[path].witness
        got == WitnessOf(sc, w.schedule)
    IN  \/ Unreadable(cmd)
        \/ /\ Start(cmd)
           /\ Complete(path)
           /\ evidence' = disk[path]
           /\ derived' = IF got = NoWitness THEN None ELSE File(sc, got)
           /\ Ends(IF got # NoWitness THEN GateCode(gate)
                   ELSE IF Legal(sc, w.schedule) THEN 0 ELSE 1)

Option(S) == {{}} \cup {{x} : x \in S}

Next ==
    \/ \E sc \in Scene, out \in Option(Path), minimized, gate \in BOOLEAN :
          Explore(sc, out, minimized, gate)
    \/ \E path \in Path, out \in Option(Path) : MinimizeCmd(path, out)
    \/ \E path \in Path, gate \in BOOLEAN : Replay(path, gate)
    \/ WriteRaw
    \/ WriteMinimized

Spec == Init /\ [][Next]_vars

-----------------------------------------------------------------------------
(* Properties. *)

\* What a number loses in the file: the scene is the same after a round trip.
Exact(file) == Decoded(file.scene) = file.scene

\* A file on the disk, whoever wrote it, holds a witness of its own scene: a
\* replay gives the same evidence back, failedAt included (cli.go:415).
DiskReproduces ==
    \A p \in Path :
        Complete(p) /\ Exact(disk[p]) =>
            WitnessOf(disk[p].scene, disk[p].witness.schedule) = disk[p].witness

Ended(kind) == stage = "idle" /\ command.kind = kind

Wanted == command.out # {} /\ evidence # None

\* When explore says that an invariant fails (exit code 2), the evidence is at
\* the path given: a write that failed was not passed over (cli.go:250-273).
GateMeansEvidence ==
    Ended("explore") /\ exit = 2 /\ Wanted =>
        /\ Complete(Out)
        /\ disk[Out].scene = command.scene
        /\ disk[Out].witness.invariant = evidence.witness.invariant

\* "Both artifacts kept" (CHANGELOG.md:41): explore --minimize that reports no
\* error leaves the explanation next to the evidence it was derived from.
PairOnExit ==
    Ended("explore") /\ exit # 1 /\ Wanted /\ command.minimized =>
        /\ disk[[Out EXCEPT !.ext = "min.json"]] = derived
        /\ Out.ext # "min.json" => disk[Out] = evidence

\* The raw evidence is on the disk before explore writes the minimized one,
\* and stays there when that write fails (cli.go:257-264).
RawStays ==
    [][command.kind = "explore" /\ stage = "minimized" =>
          /\ disk[Out] = evidence
          /\ Out.ext # "min.json" => disk'[Out] = evidence]_vars

\* "raw witness preserved at" the path given (cli.go:538), and "Both artifacts
\* kept: raw explore witness + derived *.min.json" (CHANGELOG.md:41).
RawPreserved ==
    stage = "idle" /\ exit # 1 /\ derived # None =>
        /\ command.kind = "minimize" => disk[command.path] = evidence
        /\ command.kind = "explore" /\ command.out # {} => disk[Out] = evidence

\* Replay "must still reproduce invariant, failedAt, and schedule" of a witness
\* that went through a file, whatever its parameters (constitution_test.go).
SameRaceAgain ==
    Ended("replay") /\ evidence # None =>
        derived # None /\ derived.witness = evidence.witness
=============================================================================
