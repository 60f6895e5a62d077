-------------------------- MODULE MCMotorOdProxy ---------------------------
(* MotorOdProxy with two or three parameters and one or two values.        *)
EXTENDS MotorOdProxy
=============================================================================
