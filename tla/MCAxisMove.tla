----------------------------- MODULE MCAxisMove -----------------------------
(* AxisMove for TLC: each configuration gives the targets, commands and    *)
(* faults that its question needs.  Two targets are interchangeable.       *)
EXTENDS AxisMove, TLC

MCSymmetry == Permutations(Target)

=============================================================================
