--------------------------- MODULE MCPhilosophers ---------------------------
(***************************************************************************)
(* An instance of Philosophers for TLC: philosopher i is process i and its *)
(* semaphore s[i] is called i.                                             *)
(***************************************************************************)
EXTENDS Philosophers

MCProcs == 0 .. N - 1
MCSems  == MCProcs \cup {mutex}
=============================================================================
