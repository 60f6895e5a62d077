------------------------------ MODULE MCPanels ------------------------------
(* Panels for TLC: panel A has been renumbered in service, so that it goes *)
(* by two numbers.                                                         *)
EXTENDS Panels, TLC

MCPanels == <<"A", "B">>
MCNumber == "A" :> {1, 3} @@ "B" :> {2}

=============================================================================
