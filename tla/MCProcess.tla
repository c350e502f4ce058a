------------------------------ MODULE MCProcess ------------------------------
(***************************************************************************)
(* Instances of Process for TLC.                                           *)
(***************************************************************************)
EXTENDS Process, TLC

\* The pids of user processes are interchangeable.
UserSymmetry == Permutations(UserPids)
=============================================================================
