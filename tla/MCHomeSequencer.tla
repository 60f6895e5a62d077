-------------------------- MODULE MCHomeSequencer --------------------------
(* HomeSequencer with an incremental encoder and a timeout of one unit of  *)
(* time; any number of passes fits in a unit.                              *)
EXTENDS HomeSequencer
=============================================================================
