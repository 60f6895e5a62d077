------------------------------- MODULE MCJog -------------------------------
(* Jog for TLC: deflections to one side by the panel, to the other by the  *)
(* buttons.                                                                *)
EXTENDS Jog

MCButtons == {"none", "down", "both"}

=============================================================================
