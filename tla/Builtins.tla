------------------------------ MODULE Builtins ------------------------------
(***************************************************************************)
(* The cooperative scenarios of the repository (internal/scenario) and     *)
(* their invariants (internal/demos), as definitions for the constants of  *)
(* module Scenario.  A scene is what demos.Load returns: its name and its  *)
(* parameters.                                                             *)
(***************************************************************************)
EXTENDS Integers, Sequences, FiniteSets

\* demos.Load: one constructor per name.
DoubleWithdraw(balance, amount) ==
    [name |-> "double-withdraw", balance |-> balance, amount |-> amount]
LostUpdate == [name |-> "lost-update"]
CheckThenAct == [name |-> "check-then-act"]
InitOrdering(expected) == [name |-> "init-ordering", expected |-> expected]
Interleave(workers, steps) ==
    [name |-> "interleave", workers |-> workers, steps |-> steps]
Counter(quotaA, quotaB, maxValue) ==
    [name |-> "counter", quota |-> [A |-> quotaA, B |-> quotaB],
     maxValue |-> maxValue]

-----------------------------------------------------------------------------
(* Transitions. *)

T(worker, step) == [worker |-> worker, step |-> step]

\* The names workerName gives the first workers, in the order of strings.
WorkerName == <<"A", "B", "C", "D">>

\* The order of the worker names as strings.
Rank == [A |-> 1, B |-> 2, C |-> 3, D |-> 4, P |-> 16, S |-> 19]

\* The comparison in sortedEnabled.
StepPrecedes(t, u) ==
    \/ Rank[t.worker] < Rank[u.worker]
    \/ t.worker = u.worker /\ t.step < u.step

\* The next step of every worker that has taken fewer than n.
NextSteps(next, n) ==
    {T(w, next[w]) : w \in {v \in DOMAIN next : next[v] < n}}

Both(v) == [A |-> v, B |-> v]

-----------------------------------------------------------------------------
(* double-withdraw *)

DoubleWithdrawInitial(sc) ==
    [balance |-> sc.balance, local |-> Both(0), next |-> Both(0)]

\* applyDoubleStep: read, debit, write.
DoubleWithdrawApply(sc, s, t) ==
    LET w == t.worker
        moved == [s EXCEPT !.next[w] = t.step + 1]
    IN  CASE t.step = 0 -> [moved EXCEPT !.local[w] = s.balance]
          [] t.step = 1 -> [moved EXCEPT !.local[w] = @ - sc.amount]
          [] t.step = 2 -> [moved EXCEPT !.balance = s.local[w]]

DoubleWithdrawErr(s) == IF s.balance < 0 THEN "balance >= 0" ELSE "nil"

(* lost-update *)

LostUpdateInitial == [value |-> 0, local |-> Both(0), next |-> Both(0)]

\* applyLostStep: read, increment, write.
LostUpdateApply(s, t) ==
    LET w == t.worker
        moved == [s EXCEPT !.next[w] = t.step + 1]
    IN  CASE t.step = 0 -> [moved EXCEPT !.local[w] = s.value]
          [] t.step = 1 -> [moved EXCEPT !.local[w] = @ + 1]
          [] t.step = 2 -> [moved EXCEPT !.value = s.local[w]]

Done(s) == s.next["A"] >= 3 /\ s.next["B"] >= 3

LostUpdateErr(s) == IF Done(s) /\ s.value # 2 THEN "value == 2" ELSE "nil"

(* check-then-act *)

CheckThenActInitial ==
    [taken |-> FALSE, owners |-> 0, local |-> Both(FALSE), next |-> Both(0)]

\* applyCheckAct: check, then act on what was seen.
CheckThenActApply(s, t) ==
    LET w == t.worker
        moved == [s EXCEPT !.next[w] = t.step + 1]
    IN  CASE t.step = 0 -> [moved EXCEPT !.local[w] = s.taken]
          [] t.step = 1 -> IF s.local[w] THEN moved
                           ELSE [moved EXCEPT !.taken = TRUE, !.owners = @ + 1]

CheckThenActErr(s) == IF s.owners > 1 THEN "owners <= 1" ELSE "nil"

(* init-ordering *)

InitOrderingInitial ==
    [published |-> FALSE, payload |-> 0, got |-> 0, localS |-> FALSE,
     next |-> [P |-> 0, S |-> 0]]

\* The publisher publishes before it writes; the subscriber observes, then
\* reads.
InitOrderingApply(sc, s, t) ==
    LET moved == [s EXCEPT !.next[t.worker] = t.step + 1]
    IN  CASE t = T("P", 0) -> [moved EXCEPT !.published = TRUE]
          [] t = T("P", 1) -> [moved EXCEPT !.payload = sc.expected]
          [] t = T("S", 0) -> [moved EXCEPT !.localS = s.published]
          [] t = T("S", 1) -> IF s.localS THEN [moved EXCEPT !.got = s.payload]
                              ELSE moved

InitOrderingErr(sc, s) ==
    IF \/ s.got # 0 /\ s.got # sc.expected
       \/ s.next["S"] >= 2 /\ s.localS /\ s.got # sc.expected
    THEN "got == 0 || got == expected"
    ELSE "nil"

(* interleave *)

InterleaveInitial(sc) ==
    [next |-> [w \in {WorkerName[i] : i \in 1..sc.workers} |-> 0], tick |-> 0]

InterleaveApply(s, t) == [s EXCEPT !.next[t.worker] = @ + 1, !.tick = @ + 1]

(* counter *)

CounterInitial == [done |-> Both(0), value |-> 0]

CounterEnabled(sc, s) ==
    {T(w, s.done[w]) : w \in {v \in {"A", "B"} : s.done[v] < sc.quota[v]}}

CounterApply(s, t) == [s EXCEPT !.done[t.worker] = @ + 1, !.value = @ + 1]

CounterErr(sc, s) ==
    IF s.value > sc.maxValue THEN "counter exceeded limit" ELSE "nil"

-----------------------------------------------------------------------------
(* The operations of any scene. *)

BuiltinInitial(sc) ==
    CASE sc.name = "double-withdraw" -> DoubleWithdrawInitial(sc)
      [] sc.name = "lost-update"     -> LostUpdateInitial
      [] sc.name = "check-then-act"  -> CheckThenActInitial
      [] sc.name = "init-ordering"   -> InitOrderingInitial
      [] sc.name = "interleave"      -> InterleaveInitial(sc)
      [] sc.name = "counter"         -> CounterInitial

BuiltinEnabled(sc, s) ==
    CASE sc.name \in {"double-withdraw", "lost-update"} -> NextSteps(s.next, 3)
      [] sc.name \in {"check-then-act", "init-ordering"} -> NextSteps(s.next, 2)
      [] sc.name = "interleave" -> NextSteps(s.next, sc.steps)
      [] sc.name = "counter" -> CounterEnabled(sc, s)

BuiltinApply(sc, s, t) ==
    CASE sc.name = "double-withdraw" -> DoubleWithdrawApply(sc, s, t)
      [] sc.name = "lost-update"     -> LostUpdateApply(s, t)
      [] sc.name = "check-then-act"  -> CheckThenActApply(s, t)
      [] sc.name = "init-ordering"   -> InitOrderingApply(sc, s, t)
      [] sc.name = "interleave"      -> InterleaveApply(s, t)
      [] sc.name = "counter"         -> CounterApply(s, t)

\* The invariants demos.Load attaches; interleave has none.
BuiltinSpecs(sc) ==
    LET one(name) == <<[name |-> name, hold |-> sc.name]>>
    IN  CASE sc.name = "double-withdraw" -> one("balance >= 0")
          [] sc.name = "lost-update"     -> one("value == 2")
          [] sc.name = "check-then-act"  -> one("owners <= 1")
          [] sc.name = "init-ordering"   -> one("got == 0 || got == expected")
          [] sc.name = "interleave"      -> <<>>
          [] sc.name = "counter"         -> one("counter <= max")

BuiltinErr(sc, hold, s) ==
    CASE hold = "double-withdraw" -> DoubleWithdrawErr(s)
      [] hold = "lost-update"     -> LostUpdateErr(s)
      [] hold = "check-then-act"  -> CheckThenActErr(s)
      [] hold = "init-ordering"   -> InitOrderingErr(sc, s)
      [] hold = "counter"         -> CounterErr(sc, s)

\* Fingerprint: the type and the fields of the state, which for the structs of
\* these scenes is all there is to it.
BuiltinFingerprint(sc, s) == <<sc.name, s>>
=============================================================================
