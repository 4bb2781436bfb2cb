----------------------------- MODULE MCArtifacts -----------------------------
(***************************************************************************)
(* The files of the tool, on scenes of the repository.                     *)
(***************************************************************************)
EXTENDS Artifacts, Scenes

\* Numbers up to 8 stand for those that a float64 holds exactly (2^53): larger
\* ones are rounded to an even number, and to a multiple of 4 if there are two.
Rounded(n) ==
    IF n <= 8 \/ n % 2 = 0 THEN n ELSE IF n % 4 = 1 THEN n - 1 ELSE n + 1

\* intFrom, applied to what json.Unmarshal made of the parameters.
MCDecoded(sc) ==
    CASE sc.name = "double-withdraw" ->
            DoubleWithdraw(Rounded(sc.balance), Rounded(sc.amount))
      [] OTHER -> sc

\* Whoever withdraws 2 from 1 needs no race to fail: steps of the other worker
\* can be removed from a witness.
MCScene == {CheckThenAct, DoubleWithdraw(1, 2)}

MCLarge == {DoubleWithdraw(8, n) : n \in 8..10}

StateTable == [sc \in MCScene \cup MCLarge |-> UNION {Layer(sc)[n] : n \in 0..7}]

MCState(sc) == StateTable[sc]

MCBound == 4

MCPath == [stem : {"w"}, ext : {"json", "min.json"}]
=============================================================================
