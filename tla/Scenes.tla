------------------------------- MODULE Scenes -------------------------------
(***************************************************************************)
(* Scenes to check with: those of the repository, and small graphs, which  *)
(* stand for other implementations of scenario.Scenario: with cycles, with *)
(* states that do not tell their depth, with several invariants.  The MC   *)
(* modules take the constants of module Scenario from here.                *)
(***************************************************************************)
EXTENDS Builtins, TLC

-----------------------------------------------------------------------------
(* Graphs: nodes are numbers, node 1 is the initial one. *)

\* edges[n] is a function from the transitions enabled in n to nodes.
Graph(edges, bad, specs) ==
    [name |-> "graph", edges |-> edges, bad |-> bad, specs |-> specs]

One == <<[name |-> "node is good", hold |-> "bad"]>>

\* A function skipped because it is nil, and a name taken from the error.
Several == <<[name |-> "skipped", hold |-> "nil"],
             [name |-> "", hold |-> "bad"],
             [name |-> "second", hold |-> "big"]>>

\* One worker goes round, the other leaves the ring; node 4 is final.
Ring(bad) ==
    Graph(<<T("A", 0) :> 2 @@ T("B", 0) :> 4, T("A", 1) :> 3,
            T("A", 0) :> 1 @@ T("B", 0) :> 4, <<>>>>, bad, One)

\* Node 3 is one or two steps away from node 1.
Shortcut(bad, specs) ==
    Graph(<<T("A", 0) :> 2 @@ T("B", 0) :> 3, T("A", 1) :> 3,
            T("A", 2) :> 4 @@ T("B", 0) :> 5, T("A", 3) :> 6, <<>>, <<>>>>,
          bad, specs)

\* Nodes 2 and 3 offer the same transition, which leads to different nodes.
Fork(bad) ==
    Graph(<<T("A", 0) :> 2 @@ T("B", 0) :> 3, T("A", 1) :> 4, T("A", 1) :> 5,
            <<>>, <<>>>>, bad, One)

\* A0 goes round in nodes 1 and 3; B0 leads to node 4 if A1 was last, and to
\* node 5 if A0 followed it.
Wander(bad, specs) ==
    Graph(<<T("A", 0) :> 1 @@ T("A", 1) :> 2, T("A", 0) :> 3 @@ T("B", 0) :> 4,
            T("A", 0) :> 3 @@ T("B", 0) :> 5, <<>>, <<>>>>, bad, specs)

\* Node 4 is one step away, or further on a way that can be left step by step
\* from its end only.
Detour ==
    Graph(<<T("A", 0) :> 2 @@ T("A", 1) :> 4, T("B", 0) :> 3 @@ T("A", 1) :> 4,
            T("A", 1) :> 4, <<>>>>, {4}, One)

\* A0 and B0, in any order, lead to node 4; A1 leads nowhere.
Diamond ==
    Graph(<<T("A", 0) :> 2 @@ T("B", 0) :> 3 @@ T("A", 1) :> 1,
            T("B", 0) :> 4 @@ T("A", 1) :> 2,
            T("A", 0) :> 4 @@ T("A", 1) :> 3, <<>>>>, {4}, One)

-----------------------------------------------------------------------------
(* The operations of any scene, and what they range over. *)

MCInitial(sc) == IF sc.name = "graph" THEN 1 ELSE BuiltinInitial(sc)

MCEnabled(sc, s) ==
    IF sc.name = "graph" THEN DOMAIN sc.edges[s] ELSE BuiltinEnabled(sc, s)

MCApply(sc, s, t) ==
    IF sc.name = "graph" THEN sc.edges[s][t] ELSE BuiltinApply(sc, s, t)

MCSpecs(sc) == IF sc.name = "graph" THEN sc.specs ELSE BuiltinSpecs(sc)

MCErr(sc, hold, s) ==
    CASE hold = "bad" -> IF s \in sc.bad THEN "bad node" ELSE "nil"
      [] hold = "big" -> IF s > 4 THEN "big node" ELSE "nil"
      [] OTHER -> BuiltinErr(sc, hold, s)

MCText == {"", "nil", "bad", "big", "node is good", "skipped", "second",
           "bad node", "big node", "double-withdraw", "lost-update",
           "check-then-act", "init-ordering", "counter", "balance >= 0",
           "value == 2", "owners <= 1", "got == 0 || got == expected",
           "counter <= max", "counter exceeded limit"}

MCTransition == [worker : DOMAIN Rank, step : 0..3]
=============================================================================
