------------------------------ MODULE MCBootFlow ------------------------------
(* BootFlow with an image of three segments: the first and the last have   *)
(* one toggle.                                                             *)
EXTENDS BootFlow
=============================================================================
