----------------------------- MODULE Semaphore -----------------------------
(***************************************************************************)
(* Semaphores and wait queues of lab7, kern/sync/sem.c and wait.c, on the  *)
(* scheduler of Sched.  The module has no behaviour of its own; SemaphoreUse*)
(* and Philosophers are what runs on it.                                   *)
(*                                                                         *)
(* The critical sections of __up and __down run with interrupts off and    *)
(* are one action each.  So is the end of one in which __down joins the    *)
(* queue and the schedule() that follows it: an interrupt between the two  *)
(* finds a sleeper that only __up will wake.                               *)
(***************************************************************************)
EXTENDS Sched

CONSTANT Sems                \* the semaphores

VARIABLES value,             \* sem->value
          wait_queue,        \* the processes of sem->wait_queue, first first
          wakeup_flags       \* wait->wakeup_flags of each process's wait_t

semvars == <<value, wait_queue, wakeup_flags>>

SemInit(initial) ==
    /\ value = initial
    /\ wait_queue = [s \in Sems |-> <<>>]
    /\ wakeup_flags = [p \in Procs |-> "WT_INTERRUPTED"]

-----------------------------------------------------------------------------
\* Mutant: the waiter is woken and the count goes up as well.
HandOverAndCount(s, i) ==
    LET p == wait_queue[s][i]
    IN  /\ value' = [value EXCEPT ![s] = @ + 1]
        /\ wait_queue' = [wait_queue EXCEPT ![s] = RemoveAt(@, i)]
        /\ wakeup_flags' = [wakeup_flags EXCEPT ![p] = "WT_KSEM"]
        /\ WakeupProc(p)
        /\ time_slice' = Refilled(Enqueued(p))

\* wakeup_wait(.., 1): the waiter at place i leaves the queue with the
\* semaphore.
HandOver(s, i) ==
    LET p == wait_queue[s][i]
    IN  /\ wait_queue' = [wait_queue EXCEPT ![s] = RemoveAt(@, i)]
        /\ wakeup_flags' = [wakeup_flags EXCEPT ![p] = "WT_KSEM"]
        /\ WakeupProc(p)
        /\ time_slice' = Refilled(Enqueued(p))
        /\ UNCHANGED value

\* Mutant: the last waiter is served first.
LastWaiter(s) == Len(wait_queue[s])

\* The place in the queue of the waiter that is served.
FirstWaiter(s) == 1

\* __up hands the semaphore to the first waiter, and counts only if there is
\* none.
Up(s) ==
    \/ /\ wait_queue[s] = <<>>
       /\ value' = [value EXCEPT ![s] = @ + 1]
       /\ UNCHANGED <<wait_queue, wakeup_flags>>
       /\ UNCHANGED schedvars
    \/ /\ wait_queue[s] # <<>>
       /\ IF wait_state[wait_queue[s][FirstWaiter(s)]] = "WT_KSEM"
          THEN HandOver(s, FirstWaiter(s))
          ELSE /\ panicked' = "waiter does not wait for the semaphore"
               /\ UNCHANGED <<state, wait_state, run_list, time_slice>>
               /\ UNCHANGED semvars
       /\ UNCHANGED <<current, need_resched>>

\* __down by p, when the semaphore is free.
DownTakes(p, s) ==
    /\ value[s] > 0
    /\ value' = [value EXCEPT ![s] = @ - 1]
    /\ UNCHANGED <<wait_queue, wakeup_flags>>
    /\ UNCHANGED schedvars

\* __down by p, when it is not: wait_current_set, then schedule().
DownWaits(p, s) ==
    /\ value[s] = 0
    /\ wait_queue' = [wait_queue EXCEPT ![s] = Append(@, p)]
    /\ wakeup_flags' = [wakeup_flags EXCEPT ![p] = "WT_INTERRUPTED"]
    /\ Schedule([state EXCEPT ![p] = "SLEEPING"],
                [wait_state EXCEPT ![p] = "WT_KSEM"])
    /\ UNCHANGED value

\* __down after schedule() has returned: wait_current_del, and the assertion
\* of down() that it was __up that woke it.
DownReturns(p, s) ==
    /\ wait_queue' = [wait_queue EXCEPT ![s] = RemoveFirst(@, p)]
    /\ panicked' = IF wakeup_flags[p] # "WT_KSEM"
                   THEN "woken from down by something else" ELSE panicked
    /\ UNCHANGED <<value, wakeup_flags, current, state, wait_state, run_list,
                   time_slice, need_resched>>

-----------------------------------------------------------------------------
SemTypeOK == /\ value \in [Sems -> Nat]
             /\ wait_queue \in [Sems -> Seq(Procs)]
             /\ wakeup_flags \in [Procs -> {"WT_INTERRUPTED", "WT_KSEM"}]

\* A semaphore is never free while somebody waits for it: every up() that
\* finds a waiter passes it on.
NobodyWaitsForFree == \A s \in Sems : value[s] > 0 => wait_queue[s] = <<>>

\* The processes asleep on a semaphore are those in its queue: whoever leaves
\* the queue is awake, and whoever is in it is asleep.
WaitersSleep ==
    /\ {p \in Procs : wait_state[p] = "WT_KSEM"}
         = UNION {ToSet(wait_queue[s]) : s \in Sems}
    /\ \A p \in Procs : wait_state[p] = "WT_KSEM" => state[p] = "SLEEPING"
=============================================================================
