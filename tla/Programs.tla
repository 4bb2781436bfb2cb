------------------------------ MODULE Programs ------------------------------
(***************************************************************************)
(* Live programs to check with: each stands for goroutines that execute a  *)
(* scene of the repository between their gates, and may have a fault: it   *)
(* panics at some transitions, or its workers return early, as soon as     *)
(* what they saw tells them that nothing is left to do.                    *)
(***************************************************************************)
EXTENDS Scenes

Live(sc) == [name |-> "live", of |-> sc, early |-> FALSE, panics |-> {}]
Panicking(sc, ts) == [Live(sc) EXCEPT !.panics = ts]
Early(sc) == [Live(sc) EXCEPT !.early = TRUE]

\* The worker has returned instead of awaiting t.
Gone(p, s, t) ==
    /\ p.early
    /\ CASE p.of.name = "check-then-act" -> t.step = 1 /\ s.local[t.worker]
         [] p.of.name = "init-ordering" -> t = T("S", 1) /\ ~s.localS

PInitial(p) == MCInitial(p.of)
PEnabled(p, s) ==
    {t \in MCEnabled(p.of, s) : t \notin p.panics /\ ~Gone(p, s, t)}
PApply(p, s, t) == MCApply(p.of, s, t)
PSpecs(p) == MCSpecs(p.of)
PErr(p, hold, s) == MCErr(p.of, hold, s)

PWorkers(p) == DOMAIN MCInitial(p.of).next
PSteps(p) ==
    CASE p.of.name \in {"double-withdraw", "lost-update"} -> 3
      [] p.of.name \in {"check-then-act", "init-ordering"} -> 2
      [] p.of.name = "interleave" -> p.of.steps

PKept == {Live(CheckThenAct), Live(LostUpdate), Live(InitOrdering(7)),
          Live(DoubleWithdraw(100, 60)), Live(DoubleWithdraw(200, 60)),
          Live(Interleave(2, 2)), Live(Interleave(3, 1))}

PBroken == {Panicking(CheckThenAct, {T("B", 1)}),
            Panicking(CheckThenAct, {T("A", 0), T("B", 0)}),
            Panicking(Interleave(2, 2), {T("A", 1)}),
            Panicking(LostUpdate, {T("A", 2)}),
            Panicking(DoubleWithdraw(1, 2), {T("A", 0)}),
            Early(CheckThenAct), Early(InitOrdering(7))}

PTransition == [worker : DOMAIN Rank, step : 0..2]
=============================================================================
