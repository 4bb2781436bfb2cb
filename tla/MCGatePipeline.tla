--------------------------- MODULE MCGatePipeline ---------------------------
(***************************************************************************)
(* The pipeline on live programs.                                          *)
(***************************************************************************)
EXTENDS GatePipeline, Programs

MCScene == PKept \cup PBroken

StateTable == [p \in MCScene |-> UNION {Layer(p)[n] : n \in 0..7}]

MCState(p) == StateTable[p]
\* Programs that keep their contract but for a panic.
MCPanicking == {p \in MCScene : p.panics # {}}
=============================================================================
