------------------------------ MODULE MCMinimize ------------------------------
(***************************************************************************)
(* Minimize on witnesses a file may contain: legal and illegal schedules,  *)
(* some that go on after the violation, and invariants that do not fail.   *)
(***************************************************************************)
EXTENDS Minimize, Scenes

\* The sequences of n members of S.
Tuples(S, n) == [1..n -> S]

UpTo(S, n) == UNION {Tuples(S, m) : m \in 0..n}

Given(sc, schedules, invariants) ==
    {[sc |-> sc, witness |-> [schedule |-> s, invariant |-> v,
                              violation |-> "", failedAt |-> 0]] :
        s \in schedules, v \in invariants}

\* The complete schedules of workers v and w of n steps each: those of an
\* exploration that knew nothing of violations.
Complete(v, w, n) ==
    {[m \in 1..2*n |->
        LET first == m \in a
        IN  T(IF first THEN v ELSE w,
              Cardinality({k \in 1..m-1 : k \in a <=> first}))] :
     a \in {b \in SUBSET (1..2*n) : Cardinality(b) = n}}

\* Schedules followed by transitions no scene has (minimize_test.go:98-101).
Padded(schedules) == {s \o <<T("D", 3), T("D", 3)>> : s \in schedules}

Graphs == {Wander({4}, Several), Wander({4, 5}, One), Detour, Diamond}

MCScene == Graphs \cup {CheckThenAct, LostUpdate, DoubleWithdraw(100, 60),
                         InitOrdering(7), Counter(2, 2, 1)}

Steps == {T(w, k) : w \in {"A", "B"}, k \in 0..1}

MCEvidences ==
    UNION {
      Given(CheckThenAct, UpTo(Steps, 3) \cup Complete("A", "B", 2)
                          \cup Padded(Complete("A", "B", 2)), {"owners <= 1"}),
      Given(CheckThenAct, UpTo(Steps, 1), {"", "value == 2"}),
      Given(LostUpdate, Complete("A", "B", 3), {"value == 2"}),
      Given(DoubleWithdraw(100, 60), Complete("A", "B", 3), {"balance >= 0"}),
      Given(InitOrdering(7), Complete("P", "S", 2),
            {"got == 0 || got == expected"}),
      Given(Counter(2, 2, 1), Complete("A", "B", 2), {"counter <= max"}),
      UNION {Given(sc, UpTo({T("A", 0), T("A", 1), T("B", 0)}, 4),
                   {"bad node", "second", "node is good"}) : sc \in Graphs}}

StateTable == [sc \in MCScene |-> UNION {Layer(sc)[n] : n \in 0..7}]

MCState(sc) == StateTable[sc]
=============================================================================
