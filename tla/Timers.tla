------------------------------- MODULE Timers ------------------------------
(***************************************************************************)
(* Sleeping and timers of lab7: add_timer, del_timer and run_timer_list of *)
(* kern/schedule/sched.c, do_sleep and what wakes a sleeper early, do_kill *)
(* (kern/process/proc.c), and the tail of trap().                          *)
(*                                                                         *)
(* A timer lives on the stack of its sleeper and stores its expiry         *)
(* relative to the timer in front of it.  The timer interrupt arrives      *)
(* between any two steps, also between the arming of a timer and the       *)
(* schedule() that follows, when the sleeper is still current.             *)
(***************************************************************************)
EXTENDS Sched

CONSTANT MaxTime           \* bound of the time a process asks to sleep

ASSUME MaxTimeAssumption == MaxTime \in Nat \ {0}

VARIABLES timer_list,      \* records [proc, expires], head first
          exiting,         \* flags & PF_EXITING
          pc               \* where each process goes on

vars == <<schedvars, timer_list, exiting, pc>>

\* In user mode; at the tail of trap(); between the arming of the timer and
\* schedule(); inside that schedule(); after do_exit.
Places == {"user", "trapret", "armed", "asleep", "gone"}

At(p, place) == Running(p) /\ pc[p] = place

Goto(p, place) == pc' = [pc EXCEPT ![p] = place]

Timed == {timer_list[i].proc : i \in DOMAIN timer_list}

Init == /\ SchedInit
        /\ timer_list = <<>>
        /\ exiting = [p \in Procs |-> FALSE]
        /\ pc = [p \in Procs |-> "user"]

-----------------------------------------------------------------------------
\* A timer that is due that many ticks later after the one in front of it.
Postponed(t, ticks) == [t EXCEPT !.expires = @ + ticks]

\* The ticks until the timer at place i of list is due.
DueAfter(list, i) ==
    FoldLeft(LAMBDA sum, t : sum + t.expires, 0, SubSeq(list, 1, i))

\* add_timer walks past every timer due no later than the new one, and takes
\* the rest off the expiry of the timer it stops at.
AddTimer(list, proc, time) ==
    LET passed  == {i \in DOMAIN list : DueAfter(list, i) <= time}
        n       == Cardinality(passed)
        expires == time - DueAfter(list, n)
    IN  [i \in 1 .. Len(list) + 1 |->
            CASE i <= n     -> list[i]
              [] i = n + 1  -> [proc |-> proc, expires |-> expires]
              [] i = n + 2  -> Postponed(list[n + 1], -expires)
              [] OTHER      -> list[i - 1]]

\* Mutant: what is left of a deleted timer is lost to the one behind it.
DelTimerDropsRest(list, proc) == SelectSeq(list, LAMBDA t : t.proc # proc)

\* del_timer: nothing if the timer is off the list; else the one behind it
\* inherits what it had left.
DelTimer(list, proc) ==
    LET at   == {i \in DOMAIN list : list[i].proc = proc}
        i    == CHOOSE k \in at : TRUE
        rest == SubSeq(list, i + 1, Len(list))
    IN  IF at = {} THEN list
        ELSE SubSeq(list, 1, i - 1) \o
             [k \in DOMAIN rest |->
                 IF k = 1 THEN Postponed(rest[1], list[i].expires)
                          ELSE rest[k]]

-----------------------------------------------------------------------------
\* How many timers at the head of list have nothing left.
Due(list) ==
    Cardinality({i \in DOMAIN list : \A k \in 1 .. i : list[k].expires = 0})

\* run_timer_list, from the timer interrupt, and the trap that delivers it.
\* The interrupted code goes on where it was; user mode goes through the
\* tail of trap().
Tick ==
    LET list == [i \in DOMAIN timer_list |->
                   IF i = 1 THEN Postponed(timer_list[1], -1)
                            ELSE timer_list[i]]
        due  == IF list = <<>> THEN 0 ELSE Due(list)
        woken == [i \in 1 .. due |-> list[i].proc]
    IN  /\ panicked = "no"
        /\ IF list # <<>> /\ list[1].expires < 0
           THEN /\ panicked' = "timer at the head has expired"
                /\ UNCHANGED <<state, wait_state, run_list, time_slice,
                               need_resched, timer_list>>
           ELSE IF \E i \in 1 .. due : wait_state[woken[i]] \notin
                                         {"none", "WT_TIMER"}
           THEN /\ panicked' = "sleeper does not wait for its timer"
                /\ UNCHANGED <<state, wait_state, run_list, time_slice,
                               need_resched, timer_list>>
           ELSE /\ WakeupProcs(woken)
                /\ timer_list' = SubSeq(list, due + 1, Len(list))
                /\ ProcTick(Refilled(ToSet(Queued(woken))))
        /\ IF current \in Procs /\ pc[current] = "user"
           THEN Goto(current, "trapret") ELSE UNCHANGED pc
        /\ UNCHANGED <<current, exiting>>

-----------------------------------------------------------------------------
\* do_sleep up to the end of its critical section.
SysSleep(p, time) ==
    /\ At(p, "user")
    /\ IF time = 0
       THEN Goto(p, "trapret") /\ UNCHANGED <<state, wait_state, timer_list>>
       ELSE /\ Goto(p, "armed")
            /\ state' = [state EXCEPT ![p] = "SLEEPING"]
            /\ wait_state' = [wait_state EXCEPT ![p] = "WT_TIMER"]
            /\ timer_list' = AddTimer(timer_list, p, time)
    /\ UNCHANGED <<current, run_list, time_slice, need_resched, panicked,
                   exiting>>

SleepSchedules(p) ==
    /\ At(p, "armed")
    /\ Goto(p, "asleep")
    /\ Schedule(state, wait_state)
    /\ UNCHANGED <<timer_list, exiting>>

\* Mutant: the timer is left on the list, taken to have expired.
SleepResumesOnly(p) ==
    /\ At(p, "asleep")
    /\ Goto(p, "trapret")
    /\ UNCHANGED <<schedvars, timer_list, exiting>>

\* schedule() returns into do_sleep, which deletes the timer.
SleepResumes(p) ==
    /\ At(p, "asleep")
    /\ Goto(p, "trapret")
    /\ timer_list' = DelTimer(timer_list, p)
    /\ UNCHANGED <<schedvars, exiting>>

\* Whether do_kill wakes q: all sleep of this module is interruptible.
WokenByKill(q) == wait_state[q] = "WT_TIMER"

\* do_kill of q: flagged only once, woken if it sleeps.
SysKill(p, q) ==
    /\ At(p, "user")
    /\ Goto(p, "trapret")
    /\ exiting' = [exiting EXCEPT ![q] = TRUE]
    /\ IF ~exiting[q] /\ WokenByKill(q)
       THEN WakeupProc(q) /\ time_slice' = Refilled(Enqueued(q))
       ELSE UNCHANGED <<state, wait_state, run_list, time_slice, panicked>>
    /\ UNCHANGED <<current, need_resched, timer_list>>

\* do_exit, called or at the tail of trap().
Exit(p) ==
    /\ Goto(p, "gone")
    /\ exiting' = [exiting EXCEPT ![p] = TRUE]
    /\ Schedule([state EXCEPT ![p] = "ZOMBIE"], wait_state)
    /\ UNCHANGED timer_list

SysExit(p) == At(p, "user") /\ Exit(p)

SysYield(p) ==
    /\ At(p, "user")
    /\ Goto(p, "trapret")
    /\ need_resched' = [need_resched EXCEPT ![p] = TRUE]
    /\ UNCHANGED <<current, state, wait_state, run_list, time_slice,
                   panicked, timer_list, exiting>>

\* The tail of trap(), on the way back to user mode.
TrapReturn(p) ==
    /\ At(p, "trapret")
    /\ \/ exiting[p] /\ Exit(p)
       \/ /\ ~exiting[p]
          /\ Goto(p, "user")
          /\ IF need_resched[p] THEN Schedule(state, wait_state) ELSE UNCHANGED schedvars
          /\ UNCHANGED <<timer_list, exiting>>

\* cpu_idle.
IdleSchedules ==
    /\ Running(idleproc)
    /\ need_resched[idleproc]
    /\ Schedule(state, wait_state)
    /\ UNCHANGED <<timer_list, exiting, pc>>

Kernel(p) == SleepSchedules(p) \/ SleepResumes(p) \/ TrapReturn(p)

Next == \/ Tick
        \/ IdleSchedules
        \/ \E p \in Procs :
              \/ Kernel(p) \/ SysExit(p) \/ SysYield(p)
              \/ \E time \in 0 .. MaxTime : SysSleep(p, time)
              \/ \E q \in Procs : SysKill(p, q)

Spec == Init /\ [][Next]_vars

\* The timer keeps interrupting and the kernel does not stop; no program has
\* to make a system call.
FairSpec == /\ Spec
            /\ WF_vars(Tick)
            /\ WF_vars(IdleSchedules)
            /\ \A p \in Procs : WF_vars(Kernel(p))

-----------------------------------------------------------------------------
TypeOK == /\ SchedTypeOK
          /\ wait_state \in [Everyone -> {"none", "WT_TIMER"}]
          /\ timer_list \in Seq([proc : Procs, expires : 0 .. MaxTime])
          /\ exiting \in [Procs -> BOOLEAN]
          /\ pc \in [Procs -> Places]

\* Nobody sleeps without a timer that will wake it, and no timer outlives
\* the call of do_sleep whose stack it is on.
SleepersAreTimed ==
    /\ \A p \in Procs : state[p] = "SLEEPING" => p \in Timed
    /\ \A p \in Timed : pc[p] \in {"armed", "asleep"}
    /\ Cardinality(Timed) = Len(timer_list)

\* The assertions of run_timer_list, wakeup_proc and RR_enqueue hold: the
\* first timer always has something left, no zombie is woken, and nobody is
\* put on the run list twice.
AssertionsHold == panicked = "no"

\* The run list, the timer list and the states of the processes agree.
ListsExact == RunListExact /\ SleepersAreTimed /\ AssertionsHold

\* The relative expiries mean what do_sleep asked for: the timers are an
\* alarm clock on which everybody sleeps exactly its time unless killed.
Ahead(p) == DueAfter(timer_list,
                CHOOSE i \in DOMAIN timer_list : timer_list[i].proc = p)

Clock == INSTANCE AlarmClock
           WITH left <- [p \in Timed |-> Ahead(p)],
                rung <- {p \in Procs \ Timed : pc[p] \in {"armed", "asleep"}}

ImplementsAlarmClock == Clock!Spec

\* Whoever sleeps gets to run again, though it has to be woken and then to
\* wait behind others that need not give up the processor of themselves.
SleepersWake == \A p \in Procs : pc[p] = "asleep" ~> pc[p] # "asleep"

\* Whoever is killed goes away, wherever it was.
KilledGoAway == \A p \in Procs : exiting[p] ~> pc[p] = "gone"

\* Nobody is stuck in do_sleep, killed or not.
NobodyStuck == SleepersWake /\ KilledGoAway
=============================================================================
