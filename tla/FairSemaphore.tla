--------------------------- MODULE FairSemaphore ---------------------------
(***************************************************************************)
(* What a semaphore of kern/sync/sem.c promises to code that uses it as a  *)
(* lock: at most Permits processes hold it, and those that have to wait    *)
(* get it in the order in which they came; nobody overtakes them, not even *)
(* between the moment one of them is woken and the moment it runs.         *)
(***************************************************************************)
EXTENDS Integers, Sequences, FiniteSets

CONSTANTS Procs, Permits

VARIABLES holders,    \* the processes that hold the semaphore
          queue       \* the processes that wait for it, first first

fairvars == <<holders, queue>>

Waiting == {queue[i] : i \in DOMAIN queue}

Init == holders = {} /\ queue = <<>>

Acquire(p) ==
    /\ p \notin holders \cup Waiting
    /\ \/ /\ Cardinality(holders) < Permits
          /\ queue = <<>>
          /\ holders' = holders \cup {p}
          /\ UNCHANGED queue
       \/ /\ Cardinality(holders) = Permits
          /\ queue' = Append(queue, p)
          /\ UNCHANGED holders

Release(p) ==
    /\ p \in holders
    /\ \/ /\ queue = <<>>
          /\ holders' = holders \ {p}
          /\ UNCHANGED queue
       \/ /\ queue # <<>>
          /\ holders' = (holders \ {p}) \cup {Head(queue)}
          /\ queue' = Tail(queue)

Next == \E p \in Procs : Acquire(p) \/ Release(p)

Spec == Init /\ [][Next]_fairvars
=============================================================================
