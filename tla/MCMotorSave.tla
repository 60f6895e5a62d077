---------------------------- MODULE MCMotorSave ----------------------------
(* MotorSave with a settle time of two units, a grace of one and an        *)
(* overall timeout of four.                                                *)
EXTENDS MotorSave
=============================================================================
