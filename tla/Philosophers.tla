---------------------------- MODULE Philosophers ---------------------------
(***************************************************************************)
(* The dining philosophers of lab7, kern/sync/check_sync.c: N kernel       *)
(* threads on N + 1 semaphores, on the scheduler of Sched.                 *)
(*                                                                         *)
(* Kernel threads are not preempted: one runs until it blocks in down() or *)
(* sleeps.  A step is one call of a semaphore operation with the code up   *)
(* to the next one; only the timer interrupt comes in between.  How long a *)
(* philosopher sleeps is left open (Timers shows that each sleep ends).    *)
(***************************************************************************)
EXTENDS Semaphore

CONSTANTS N,         \* how many philosophers sit at the table
          TIMES,     \* how often each of them eats
          mutex      \* the semaphore of the critical section

ASSUME PhilosophersAssumption ==
    /\ N \in Nat \ {0, 1}
    /\ TIMES \in Nat \ {0}
    /\ Procs = 0 .. N - 1
    /\ Sems = Procs \cup {mutex}      \* semaphore s[i] is called i
    /\ mutex \notin Procs

VARIABLES state_sema,    \* THINKING, HUNGRY or EATING, as the others see it
          iter,          \* rounds a philosopher has begun
          pc

vars == <<schedvars, semvars, state_sema, iter, pc>>

LEFT(i)  == (i - 1 + N) % N
RIGHT(i) == (i + 1) % N

At(i, place) == Running(i) /\ pc[i] = place
Goto(i, place) == pc' = [pc EXCEPT ![i] = place]

\* check_sync, run by init, makes all the semaphores and threads before any
\* of the threads runs.
Init == /\ SchedInit
        /\ SemInit([s \in Sems |-> IF s = mutex THEN 1 ELSE 0])
        /\ state_sema = [i \in Procs |-> "THINKING"]
        /\ iter = [i \in Procs |-> 1]
        /\ pc = [i \in Procs |-> "think"]

-----------------------------------------------------------------------------
\* The calls of down(): from where, of which semaphore, and where they return
\* to.  "take" and "put" enter the critical section, "fork" waits to eat.
Downs(i) == {<<"take", mutex, "test">>, <<"fork", i, "eat">>,
             <<"put", mutex, "drop">>}

Waiting(from) == IF from = "take" THEN "take_w" ELSE
                 IF from = "fork" THEN "fork_w" ELSE "put_w"

Down(i) == \E call \in Downs(i) :
    /\ \/ /\ At(i, call[1])
          /\ \/ DownTakes(i, call[2]) /\ Goto(i, call[3])
             \/ DownWaits(i, call[2]) /\ Goto(i, Waiting(call[1]))
       \/ /\ At(i, Waiting(call[1]))
          /\ DownReturns(i, call[2])
          /\ Goto(i, call[3])
    /\ UNCHANGED <<state_sema, iter>>

\* Mutant: the right neighbour may be eating.
MayEatLeftOnly(st, i) == st[i] = "HUNGRY" /\ st[LEFT(i)] # "EATING"

MayEat(st, i) == /\ st[i] = "HUNGRY"
                 /\ st[LEFT(i)] # "EATING"
                 /\ st[RIGHT(i)] # "EATING"

\* phi_test_sema(i), when the states are st.
PhiTest(st, i) ==
    \/ /\ MayEat(st, i)
       /\ state_sema' = [st EXCEPT ![i] = "EATING"]
       /\ Up(i)
    \/ /\ ~MayEat(st, i)
       /\ state_sema' = st
       /\ UNCHANGED <<schedvars, semvars>>

\* phi_take_forks_sema, in the critical section.
BecomeHungry(i) ==
    /\ At(i, "test")
    /\ PhiTest([state_sema EXCEPT ![i] = "HUNGRY"], i)
    /\ Goto(i, "taken")
    /\ UNCHANGED iter

\* Mutant: the right neighbour is not looked after.
LookRightAndLeave(i) ==
    /\ At(i, "dropped")
    /\ Goto(i, "leave")
    /\ UNCHANGED <<schedvars, semvars, state_sema, iter>>

\* phi_put_forks_sema, in the critical section.
LookLeft(i) ==
    /\ At(i, "drop")
    /\ PhiTest([state_sema EXCEPT ![i] = "THINKING"], LEFT(i))
    /\ Goto(i, "dropped")
    /\ UNCHANGED iter

LookRight(i) ==
    /\ At(i, "dropped")
    /\ PhiTest(state_sema, RIGHT(i))
    /\ Goto(i, "leave")
    /\ UNCHANGED iter

\* up(&mutex): on the way to the fork, or on to the next round.
LeaveHungry(i) ==
    /\ At(i, "taken")
    /\ Up(mutex)
    /\ Goto(i, "fork")
    /\ UNCHANGED <<state_sema, iter>>

LeaveFed(i) ==
    /\ At(i, "leave")
    /\ Up(mutex)
    /\ iter' = [iter EXCEPT ![i] = @ + 1]
    /\ Goto(i, IF iter[i] < TIMES THEN "think" ELSE "quit")
    /\ UNCHANGED state_sema

\* do_sleep, while thinking or eating.
Sleeping(place) == IF place = "think" THEN "thinking" ELSE "eating"

DoSleep(i) == \E place \in {"think", "eat"} :
    /\ At(i, place)
    /\ Goto(i, Sleeping(place))
    /\ Schedule([state EXCEPT ![i] = "SLEEPING"],
                [wait_state EXCEPT ![i] = "WT_TIMER"])
    /\ UNCHANGED <<semvars, state_sema, iter>>

SleepEnds(i) ==
    /\ \/ At(i, "thinking") /\ Goto(i, "take")
       \/ At(i, "eating") /\ Goto(i, "put")
    /\ UNCHANGED <<schedvars, semvars, state_sema, iter>>

\* The thread returns, into do_exit.
Quit(i) ==
    /\ At(i, "quit")
    /\ Goto(i, "gone")
    /\ Schedule([state EXCEPT ![i] = "ZOMBIE"], wait_state)
    /\ UNCHANGED <<semvars, state_sema, iter>>

\* The timer interrupt: no sleep ends, or one.
Tick ==
    /\ panicked = "no"
    /\ ProcTick(time_slice)
    /\ UNCHANGED <<current, state, wait_state, run_list, panicked, semvars,
                   state_sema, iter, pc>>

TimerExpires(i) ==
    /\ panicked = "no"
    /\ wait_state[i] = "WT_TIMER"
    /\ WakeupProc(i)
    /\ ProcTick(Refilled(Enqueued(i)))
    /\ UNCHANGED <<current, semvars, state_sema, iter, pc>>

IdleSchedules ==
    /\ Running(idleproc)
    /\ need_resched[idleproc]
    /\ Schedule(state, wait_state)
    /\ UNCHANGED <<semvars, state_sema, iter, pc>>

Thread(i) == \/ Down(i) \/ BecomeHungry(i) \/ LookLeft(i) \/ LookRight(i)
             \/ LeaveHungry(i) \/ LeaveFed(i)
             \/ DoSleep(i) \/ SleepEnds(i) \/ Quit(i)

Next == \/ IdleSchedules
        \/ Tick
        \/ \E i \in Procs : Thread(i) \/ TimerExpires(i)

Spec == Init /\ [][Next]_vars

\* The processor is never taken from a thread for good, and timers expire.
FairSpec == /\ Spec
            /\ WF_vars(IdleSchedules)
            /\ WF_vars(Tick)
            /\ \A i \in Procs : WF_vars(Thread(i)) /\ WF_vars(TimerExpires(i))

-----------------------------------------------------------------------------
TypeOK ==
    /\ SchedTypeOK
    /\ SemTypeOK
    /\ state_sema \in [Procs -> {"THINKING", "HUNGRY", "EATING"}]
    /\ iter \in [Procs -> 1 .. TIMES + 1]

\* Two neighbours never eat at the same time, not even when one of them has
\* been handed its forks and has not run since.
Eats(i) == pc[i] \in {"eat", "eating", "put", "put_w"}

NeighboursApart ==
    \A i \in Procs : /\ ~(Eats(i) /\ Eats(RIGHT(i)))
                     /\ ~(state_sema[i] = "EATING"
                            /\ state_sema[RIGHT(i)] = "EATING")

\* state_sema and the semaphores tell the same: a philosopher entered as
\* EATING has its permit, is being woken with it or eats; nobody else has
\* a permit, so that none is left over from an earlier round.
Invited(i) == \/ Eats(i)
              \/ value[i] = 1
              \/ pc[i] = "fork_w" /\ wait_queue[i] = <<>>

PermitsMatchStates ==
    \A i \in Procs : /\ value[i] <= 1
                     /\ Eats(i) => value[i] = 0
                     /\ pc[i] # "drop" =>
                           (state_sema[i] = "EATING" <=> Invited(i))

\* Only one philosopher is in the critical section, and it is the one that
\* runs: nothing in the section gives up the processor.
InSection(i) == pc[i] \in {"test", "taken", "drop", "dropped", "leave"}

SectionIsAtomic ==
    /\ \A i \in Procs : InSection(i) => current = i /\ value[mutex] = 0
    /\ (\A i \in Procs : ~InSection(i)) => value[mutex] = 1

\* All of it, and the assertions of the scheduler and the semaphores.
TableInOrder == /\ NeighboursApart
                /\ PermitsMatchStates
                /\ SectionIsAtomic
                /\ RunListExact
                /\ panicked = "no"

\* Everybody gets to eat as often as it wants to, and goes home.
AllQuit == \A i \in Procs : <>(pc[i] = "gone")
=============================================================================
