--------------------------- MODULE SemaphoreUse ----------------------------
(***************************************************************************)
(* Processes that use one semaphore of lab7 as the memory manager and the  *)
(* file system do: down() or try_down(), something that may give up the    *)
(* processor or sleep, up().  Others may kill them meanwhile (do_kill).    *)
(***************************************************************************)
EXTENDS Semaphore

CONSTANTS sem,         \* the semaphore
          Permits      \* the value it is initialised with

ASSUME UseAssumption == Sems = {sem} /\ Permits \in Nat \ {0}

VARIABLES inside,      \* the processes between down() and up()
          exiting,     \* flags & PF_EXITING
          pc           \* "run", "down": in the schedule() of __down, or
                       \* "pause": in a sleep of its own
vars == <<schedvars, semvars, inside, exiting, pc>>

At(p, place) == Running(p) /\ pc[p] = place
Goto(p, place) == pc' = [pc EXCEPT ![p] = place]

Init == /\ SchedInit
        /\ SemInit([s \in Sems |-> Permits])
        /\ inside = {}
        /\ exiting = [p \in Procs |-> FALSE]
        /\ pc = [p \in Procs |-> "run"]

-----------------------------------------------------------------------------
\* down() by p.
Down(p) ==
    /\ At(p, "run")
    /\ p \notin inside
    /\ \/ DownTakes(p, sem) /\ inside' = inside \cup {p} /\ UNCHANGED pc
       \/ DownWaits(p, sem) /\ Goto(p, "down") /\ UNCHANGED inside
    /\ UNCHANGED exiting

DownResumes(p) ==
    /\ At(p, "down")
    /\ DownReturns(p, sem)
    /\ Goto(p, "run")
    /\ inside' = inside \cup {p}
    /\ UNCHANGED exiting

\* Mutant: try_down() also takes what is there for somebody else.
TryDownAlways(p) ==
    /\ At(p, "run")
    /\ p \notin inside
    /\ inside' = inside \cup {p}
    /\ value' = [value EXCEPT ![sem] = IF @ > 0 THEN @ - 1 ELSE @]
    /\ UNCHANGED <<schedvars, wait_queue, wakeup_flags, exiting, pc>>

\* try_down() that succeeds; one that fails changes nothing.
TryDown(p) ==
    /\ At(p, "run")
    /\ p \notin inside
    /\ DownTakes(p, sem)
    /\ inside' = inside \cup {p}
    /\ UNCHANGED <<exiting, pc>>

Release(p) ==
    /\ At(p, "run")
    /\ p \in inside
    /\ Up(sem)
    /\ inside' = inside \ {p}
    /\ UNCHANGED <<exiting, pc>>

\* p gives up the processor, or sleeps for something else than a semaphore.
Yield(p) ==
    /\ At(p, "run")
    /\ Schedule(state, wait_state)
    /\ UNCHANGED <<semvars, inside, exiting, pc>>

Pause(p) ==
    /\ At(p, "run")
    /\ Goto(p, "pause")
    /\ Schedule([state EXCEPT ![p] = "SLEEPING"],
                [wait_state EXCEPT ![p] = "WT_TIMER"])
    /\ UNCHANGED <<semvars, inside, exiting>>

PauseEnds(p) ==
    /\ At(p, "pause")
    /\ Goto(p, "run")
    /\ UNCHANGED <<schedvars, semvars, inside, exiting>>

\* Mutant: do_kill wakes whoever sleeps, for whatever.
KillWakesAll(q) == wait_state[q] # "none"

\* Whether do_kill wakes q: WT_KSEM is not interruptible.
WokenByKill(q) == wait_state[q] = "WT_TIMER"

Kill(p, q) ==
    /\ At(p, "run")
    /\ ~exiting[q]
    /\ exiting' = [exiting EXCEPT ![q] = TRUE]
    /\ IF WokenByKill(q)
       THEN WakeupProc(q) /\ time_slice' = Refilled(Enqueued(q))
       ELSE UNCHANGED <<state, wait_state, run_list, time_slice, panicked>>
    /\ UNCHANGED <<current, need_resched, semvars, inside, pc>>

\* The timer interrupt: what it does to the running process, and, with the
\* latter action, the end of a pause.
Tick ==
    /\ panicked = "no"
    /\ ProcTick(time_slice)
    /\ UNCHANGED <<current, state, wait_state, run_list, panicked, semvars,
                   inside, exiting, pc>>

TimerExpires(p) ==
    /\ panicked = "no"
    /\ wait_state[p] = "WT_TIMER"
    /\ WakeupProc(p)
    /\ ProcTick(Refilled(Enqueued(p)))
    /\ UNCHANGED <<current, semvars, inside, exiting, pc>>

IdleSchedules ==
    /\ Running(idleproc)
    /\ need_resched[idleproc]
    /\ Schedule(state, wait_state)
    /\ UNCHANGED <<semvars, inside, exiting, pc>>

Next == \/ IdleSchedules
        \/ Tick
        \/ \E p \in Procs :
              \/ Down(p) \/ DownResumes(p) \/ TryDown(p) \/ Release(p)
              \/ Yield(p) \/ Pause(p) \/ PauseEnds(p)
              \/ TimerExpires(p)
              \/ \E q \in Procs : Kill(p, q)

Spec == Init /\ [][Next]_vars

\* The kernel does not stop, pauses end, and every critical section is left:
\* a holder that runs again and again calls up() some time.
FairSpec ==
    /\ Spec
    /\ WF_vars(IdleSchedules)
    /\ WF_vars(Tick)
    /\ \A p \in Procs : /\ WF_vars(DownResumes(p) \/ PauseEnds(p))
                        /\ WF_vars(TimerExpires(p))
                        /\ WF_vars(At(p, "run") /\ Yield(p))
                        /\ SF_vars(Release(p))

-----------------------------------------------------------------------------
TypeOK == /\ SchedTypeOK
          /\ SemTypeOK
          /\ inside \subseteq Procs
          /\ exiting \in [Procs -> BOOLEAN]
          /\ pc \in [Procs -> {"run", "down", "pause"}]

\* The assertions of __up, down, wakeup_proc and RR_enqueue hold: only __up
\* wakes a process out of down(), a kill does not.
AssertionsHold == panicked = "no"

\* The run list, the wait queue, the states of the processes and the count
\* agree, whichever of wakeup_proc, schedule(), __up and do_kill came last.
QueuesExact == /\ RunListExact
               /\ WaitersSleep
               /\ NobodyWaitsForFree
               /\ AssertionsHold

\* A process holds the semaphore from the moment it is handed over.
Granted == {p \in Procs : pc[p] = "down" /\ p \notin ToSet(wait_queue[sem])}
Holders == inside \cup Granted

\* value counts what is left of the permits, those of woken waiters that have
\* not run yet included: at most Permits processes are between down and up.
PermitsAccounted == value[sem] + Cardinality(Holders) = Permits

\* First come, first served, and no barging.
Fair == INSTANCE FairSemaphore WITH holders <- Holders, queue <- wait_queue[sem]

ImplementsFairSemaphore == Fair!Spec

\* Whoever waits in down() gets the semaphore, though others keep trying.
WaitersServed == \A p \in Procs : pc[p] = "down" ~> p \in inside
=============================================================================
