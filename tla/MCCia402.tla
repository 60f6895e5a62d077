------------------------------ MODULE MCCia402 ------------------------------
(* Cia402 on a small instance: five sequence numbers, so that the counter   *)
(* wraps while answers are in flight, and two handles.                     *)
EXTENDS Cia402
=============================================================================
