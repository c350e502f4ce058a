------------------------------- MODULE Sched -------------------------------
(***************************************************************************)
(* The scheduler core of lab7: kern/schedule/sched.c over the round-robin  *)
(* class of default_sched.c.  It has no behaviour of its own; the modules  *)
(* of what sleeps and wakes (Timers, Semaphore) extend it.                 *)
(*                                                                         *)
(* The processor is in kernel code of `current' until that code calls      *)
(* schedule().  wakeup_proc and schedule run with interrupts off.          *)
(***************************************************************************)
EXTENDS Integers, Sequences, SequencesExt, FiniteSets

CONSTANTS Procs,           \* the processes other than idle
          idleproc,        \* runs when the run list is empty, never on it
          MAX_TIME_SLICE   \* rq->max_time_slice

ASSUME SchedAssumption == /\ idleproc \notin Procs
                          /\ IsFiniteSet(Procs)
                          /\ MAX_TIME_SLICE \in Nat \ {0}

VARIABLES current,
          state,           \* RUNNABLE, SLEEPING or ZOMBIE
          wait_state,      \* "none" (0), or what the process sleeps for
          run_list,        \* rq->run_list, head first
          time_slice,
          need_resched,
          panicked         \* "no", or the assertion that failed

schedvars == <<current, state, wait_state, run_list, time_slice,
               need_resched, panicked>>

Everyone == Procs \cup {idleproc}

\* Every process has just been made runnable, in some order; idle runs and
\* asks to be rescheduled.
SchedInit ==
    /\ current = idleproc
    /\ state = [p \in Everyone |-> "RUNNABLE"]
    /\ wait_state = [p \in Everyone |-> "none"]
    /\ run_list \in [1 .. Cardinality(Procs) -> Procs]
    /\ IsInjective(run_list)
    /\ time_slice = [p \in Procs |-> MAX_TIME_SLICE]
    /\ need_resched = [p \in Everyone |-> p = idleproc]
    /\ panicked = "no"

Running(p) == current = p /\ panicked = "no"

\* What RR_enqueue does to the time slice of a process it appends.
Refill(slice) == IF slice = 0 THEN MAX_TIME_SLICE ELSE slice

-----------------------------------------------------------------------------
\* Mutant: the wakeup queues the running process, too.
EnqueuesCurrent(p) == state[p] # "RUNNABLE"

\* Whether wakeup_proc puts p on the run list: current is left out, schedule()
\* will append it.
Enqueues(p) == state[p] # "RUNNABLE" /\ p # current

Enqueued(p) == {q \in {p} : Enqueues(q)}

\* The time slices RR_enqueue leaves behind, of the processes in set.
Refilled(set) == [p \in Procs |-> IF p \in set THEN Refill(time_slice[p])
                                               ELSE time_slice[p]]

\* wakeup_proc(p); a runnable process is left alone.  The caller states
\* time_slice', which is Refilled(Enqueued(p)) unless it changes more slices.
WakeupProc(p) ==
    /\ state' = [state EXCEPT ![p] = "RUNNABLE"]
    /\ wait_state' = [wait_state EXCEPT ![p] = IF state[p] = "RUNNABLE" THEN @
                                               ELSE "none"]
    /\ run_list' = IF Enqueues(p) THEN Append(run_list, p) ELSE run_list
    /\ panicked' = IF state[p] = "ZOMBIE" THEN "wakeup of a zombie"
                   ELSE IF Enqueues(p) /\ p \in ToSet(run_list)
                   THEN "enqueued twice" ELSE panicked

\* wakeup_proc of each process of ps in turn.
Queued(ps) == FoldLeft(LAMBDA list, p : IF Enqueues(p) THEN Append(list, p)
                                                       ELSE list, <<>>, ps)

WakeupProcs(ps) ==
    /\ state' = [p \in Everyone |-> IF p \in ToSet(ps) THEN "RUNNABLE"
                                                       ELSE state[p]]
    /\ wait_state' = [p \in Everyone |->
                        IF p \in ToSet(ps) /\ state[p] # "RUNNABLE"
                        THEN "none" ELSE wait_state[p]]
    /\ run_list' = run_list \o Queued(ps)
    /\ panicked' = IF \E p \in ToSet(ps) : state[p] = "ZOMBIE"
                   THEN "wakeup of a zombie"
                   ELSE IF ToSet(Queued(ps)) \cap ToSet(run_list) # {}
                   THEN "enqueued twice" ELSE panicked

-----------------------------------------------------------------------------
\* RR_pick_next: the place in the run list of the process that runs next.
PickNext(list) == 1

\* Whether schedule() puts current back on the run list.
Requeues(st) == current # idleproc /\ st[current] = "RUNNABLE"

\* schedule(), called while the process states and wait states are st and ws.
Schedule(st, ws) ==
    LET list == IF Requeues(st) THEN Append(run_list, current) ELSE run_list
    IN  /\ state' = st
        /\ wait_state' = ws
        /\ IF list = <<>>
           THEN current' = idleproc /\ run_list' = <<>>
           ELSE /\ current' = list[PickNext(list)]
                /\ run_list' = RemoveAt(list, PickNext(list))
        /\ time_slice' = Refilled(IF Requeues(st) THEN {current} ELSE {})
        /\ need_resched' = [need_resched EXCEPT ![current] = FALSE]
        /\ panicked' = IF Requeues(st) /\ current \in ToSet(run_list)
                       THEN "enqueued twice" ELSE panicked

-----------------------------------------------------------------------------
\* Mutant: the slice that has run out does not ask for rescheduling.
ProcTickNoResched(slices) ==
    /\ time_slice' = IF current = idleproc THEN slices
                     ELSE [slices EXCEPT ![current] = IF @ > 0 THEN @ - 1
                                                               ELSE 0]
    /\ need_resched' = [need_resched EXCEPT ![current] =
                            @ \/ current = idleproc]

\* sched_class_proc_tick of the running process, while the slices are those
\* given.
ProcTick(slices) ==
    LET rest == IF slices[current] > 0 THEN slices[current] - 1 ELSE 0
    IN  IF current = idleproc
        THEN /\ need_resched' = [need_resched EXCEPT ![idleproc] = TRUE]
             /\ time_slice' = slices
        ELSE /\ time_slice' = [slices EXCEPT ![current] = rest]
             /\ need_resched' = [need_resched EXCEPT ![current] =
                                     @ \/ rest = 0]

-----------------------------------------------------------------------------
SchedTypeOK ==
    /\ current \in Everyone
    /\ state \in [Everyone -> {"RUNNABLE", "SLEEPING", "ZOMBIE"}]
    /\ run_list \in Seq(Procs)
    /\ time_slice \in [Procs -> 0 .. MAX_TIME_SLICE]
    /\ need_resched \in [Everyone -> BOOLEAN]

\* The run list holds every runnable process but the running one, each once:
\* nobody that can run is forgotten, nobody runs twice or while it sleeps.
\* wakeup_proc and schedule() share the task of keeping it so.
RunListExact ==
    /\ ToSet(run_list) = {p \in Procs \ {current} : state[p] = "RUNNABLE"}
    /\ IsInjective(run_list)
=============================================================================
