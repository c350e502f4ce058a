------------------------------- MODULE Stdin -------------------------------
(***************************************************************************)
(* The keyboard of lab8 as a device: fs/devs/dev_stdin.c, with wakeup_queue *)
(* of sync/wait.c, on the scheduler of Sched.  The keyboard interrupt fills *)
(* a ring; processes read it and sleep when it is empty; others may kill    *)
(* them.                                                                    *)
(*                                                                          *)
(* What runs with interrupts off is one action.  The interrupt may come     *)
(* between two actions, so also when a reader has joined the wait queue and *)
(* has not called schedule() yet.                                           *)
(***************************************************************************)
EXTENDS Sched

CONSTANTS Chars,
          STDIN_BUFSIZE,
          MaxLen,       \* bound: the longest read
          MaxTyped      \* bound: p_wpos

ASSUME StdinAssumption == STDIN_BUFSIZE \in Nat \ {0} /\ MaxLen \in Nat \ {0}

VARIABLES stdin_buffer, p_rpos, p_wpos,
          kbd_queue,         \* the processes of wait_queue, first first
          kbd_flags,         \* wait->wakeup_flags of each process's wait_t
          want, got,         \* len, and the characters read so far, of a read
          exiting,           \* flags & PF_EXITING
          pc                 \* "user", "read", "sleep": before schedule(),
                             \* "asleep": in schedule(), "trap": on the way out
ring == <<stdin_buffer, p_rpos, p_wpos>>
call == <<want, got>>
waits == <<kbd_queue, kbd_flags>>
vars == <<schedvars, ring, waits, call, exiting, pc>>

At(p, place) == Running(p) /\ pc[p] = place
Goto(p, place) == pc' = [pc EXCEPT ![p] = place]

Init == /\ SchedInit
        /\ stdin_buffer \in {[i \in 0 .. STDIN_BUFSIZE - 1 |-> c] : c \in Chars}
        /\ p_rpos = 0 /\ p_wpos = 0
        /\ kbd_queue = <<>>
        /\ kbd_flags = [p \in Procs |-> "WT_INTERRUPTED"]
        /\ want = [p \in Procs |-> 0]
        /\ got = [p \in Procs |-> <<>>]
        /\ exiting = [p \in Procs |-> FALSE]
        /\ pc = [p \in Procs |-> "user"]

\* Mutant: positions wrap one late.
SlotLate(pos) == IF pos <= STDIN_BUFSIZE THEN Min({pos, STDIN_BUFSIZE - 1})
                                         ELSE pos % STDIN_BUFSIZE

Slot(pos) == pos % STDIN_BUFSIZE

-----------------------------------------------------------------------------
\* wakeup_queue(wait_queue, WT_KBD, 1).
WakeupQueue ==
    /\ kbd_queue' = <<>>
    /\ kbd_flags' = [p \in Procs |-> IF p \in ToSet(kbd_queue)
                                     THEN "WT_KBD" ELSE kbd_flags[p]]
    /\ WakeupProcs(kbd_queue)
    /\ time_slice' = Refilled(ToSet(Queued(kbd_queue)))

Advance == IF p_wpos - p_rpos < STDIN_BUFSIZE THEN p_wpos + 1 ELSE p_wpos

\* dev_stdin_write of c, which is not '\0'.  The character is stored before
\* the room is looked at.
KeyboardInterrupt(c) ==
    /\ panicked = "no"
    /\ Advance <= MaxTyped
    /\ stdin_buffer' = [stdin_buffer EXCEPT ![Slot(p_wpos)] = c]
    /\ p_wpos' = Advance
    /\ WakeupQueue
    /\ UNCHANGED <<p_rpos, current, need_resched, call, exiting, pc>>

-----------------------------------------------------------------------------
\* sys_read by p, of len > 0 characters.
SysRead(p, len) ==
    /\ At(p, "user")
    /\ want' = [want EXCEPT ![p] = len]
    /\ Goto(p, "read")
    /\ UNCHANGED <<schedvars, ring, waits, got, exiting>>

\* How many characters the loop finds, of those it still wants.
Available(p) == Min({want[p] - Len(got[p]), p_wpos - p_rpos})

\* The next n characters of the ring.
NextChars(n) == [i \in 1 .. n |-> stdin_buffer[Slot(p_rpos + i - 1)]]

Finished(p) == Len(got[p]) + Available(p) = want[p]

\* Mutant: the reader is not put into the queue.
JoinNot(p, q) == q

\* wait_queue_add of wait_current_set.
Join(p, q) == Append(q, p)

\* The loop of dev_stdin_read, from where it may begin: at the call, or after
\* a key has ended the sleep.  Nobody comes between the characters, nor
\* between the last one and the queue.
ReadLoop(p) ==
    /\ Running(p)
    /\ pc[p] = "read" \/ (pc[p] = "asleep" /\ kbd_flags[p] = "WT_KBD")
    /\ got' = [got EXCEPT ![p] = @ \o NextChars(Available(p))]
    /\ p_rpos' = p_rpos + Available(p)
    /\ \/ /\ Finished(p)
          /\ Goto(p, "trap")
          /\ kbd_queue' = RemoveFirst(kbd_queue, p)
          /\ UNCHANGED <<kbd_flags, state, wait_state>>
       \/ /\ ~Finished(p)
          /\ Goto(p, "sleep")
          /\ kbd_queue' = Join(p, RemoveFirst(kbd_queue, p))
          /\ kbd_flags' = [kbd_flags EXCEPT ![p] = "WT_INTERRUPTED"]
          /\ state' = [state EXCEPT ![p] = "SLEEPING"]
          /\ wait_state' = [wait_state EXCEPT ![p] = "WT_KBD"]
    /\ UNCHANGED <<current, run_list, time_slice, need_resched, panicked,
                   stdin_buffer, p_wpos, want, exiting>>

\* schedule() of dev_stdin_read.
ReaderSchedules(p) ==
    /\ At(p, "sleep")
    /\ Goto(p, "asleep")
    /\ Schedule(state, wait_state)
    /\ UNCHANGED <<ring, waits, call, exiting>>

\* Something else has ended the sleep: the call returns what it has.
Interrupted(p) ==
    /\ At(p, "asleep")
    /\ kbd_flags[p] # "WT_KBD"
    /\ kbd_queue' = RemoveFirst(kbd_queue, p)
    /\ Goto(p, "trap")
    /\ UNCHANGED <<schedvars, ring, kbd_flags, call, exiting>>

-----------------------------------------------------------------------------
\* The tail of trap() after a system call: the characters are the caller's, and a
\* process that was killed goes no further.
TrapReturn(p) ==
    /\ At(p, "trap")
    /\ got' = [got EXCEPT ![p] = <<>>]
    /\ want' = [want EXCEPT ![p] = 0]
    /\ \/ /\ exiting[p]
          /\ Goto(p, "exited")
          /\ Schedule([state EXCEPT ![p] = "ZOMBIE"], wait_state)
       \/ /\ ~exiting[p]
          /\ Goto(p, "user")
          /\ IF need_resched[p] THEN Schedule(state, wait_state)
                                ELSE UNCHANGED schedvars
    /\ UNCHANGED <<ring, waits, exiting>>

\* The timer interrupt in user mode, and the tail of trap() after it.
Preempt(p) ==
    /\ At(p, "user")
    /\ \/ /\ exiting[p]
          /\ Goto(p, "exited")
          /\ Schedule([state EXCEPT ![p] = "ZOMBIE"], wait_state)
       \/ /\ ~exiting[p]
          /\ Schedule(state, wait_state)
          /\ UNCHANGED pc
    /\ UNCHANGED <<ring, waits, call, exiting>>

WokenByKill(q) == wait_state[q] = "WT_KBD"

\* do_kill of q by p; another kill of the same process fails.
Kill(p, q) ==
    /\ At(p, "user")
    /\ ~exiting[q] /\ pc[q] # "exited"
    /\ exiting' = [exiting EXCEPT ![q] = TRUE]
    /\ IF WokenByKill(q)
       THEN WakeupProc(q) /\ time_slice' = Refilled(Enqueued(q))
       ELSE UNCHANGED <<state, wait_state, run_list, time_slice, panicked>>
    /\ Goto(p, "trap")
    /\ UNCHANGED <<current, need_resched, ring, waits, call>>

\* The timer interrupt in the kernel or in idle.
Tick ==
    /\ panicked = "no"
    /\ current = idleproc \/ \E p \in Procs : Running(p) /\ pc[p] # "user"
    /\ ProcTick(time_slice)
    /\ UNCHANGED <<current, state, wait_state, run_list, panicked, ring, waits,
                   call, exiting, pc>>

IdleSchedules ==
    /\ Running(idleproc)
    /\ need_resched[idleproc]
    /\ Schedule(state, wait_state)
    /\ UNCHANGED <<ring, waits, call, exiting, pc>>

Reader(p) == ReadLoop(p) \/ ReaderSchedules(p) \/ Interrupted(p) \/ TrapReturn(p)

Next == \/ \E c \in Chars : KeyboardInterrupt(c)
        \/ Tick \/ IdleSchedules
        \/ \E p \in Procs :
              \/ Reader(p)
              \/ \E len \in 1 .. MaxLen : SysRead(p, len)
              \/ Preempt(p)
              \/ \E q \in Procs : Kill(p, q)

Spec == Init /\ [][Next]_vars

\* The kernel does not stop and the timer ticks.  Nobody has to type.
FairSpec == /\ Spec
            /\ WF_vars(Tick) /\ WF_vars(IdleSchedules)
            /\ \A p \in Procs : WF_vars(Reader(p)) /\ WF_vars(Preempt(p))

-----------------------------------------------------------------------------
\* Types; the ring holds no more than fits.
TypeOK == /\ SchedTypeOK
          /\ stdin_buffer \in [0 .. STDIN_BUFSIZE - 1 -> Chars]
          /\ p_rpos \in 0 .. MaxTyped
          /\ p_wpos \in p_rpos .. p_rpos + STDIN_BUFSIZE
          /\ kbd_queue \in Seq(Procs)
          /\ kbd_flags \in [Procs -> {"WT_INTERRUPTED", "WT_KBD"}]
          /\ want \in [Procs -> 0 .. MaxLen]
          /\ \A p \in Procs : got[p] \in Seq(Chars) /\ Len(got[p]) <= want[p]
          /\ exiting \in [Procs -> BOOLEAN]
          /\ pc \in [Procs -> {"user", "read", "sleep", "asleep", "trap", "exited"}]

\* No lost wakeup: nobody is in the wait queue while there is something to
\* read, whenever the key came - before the reader had called schedule(), or
\* while somebody else read.
NobodyWaitsForKeys == kbd_queue # <<>> => p_rpos = p_wpos

\* Who sleeps for a key can be woken by one: it is in the queue, once, and the
\* wait_t's in the queue, which live on their readers' stacks, belong to
\* readers that are still in the call.
SleepersAreQueued ==
    /\ \A p \in Procs : wait_state[p] = "WT_KBD" => p \in ToSet(kbd_queue)
    /\ \A p \in ToSet(kbd_queue) : pc[p] \in {"sleep", "asleep"}
    /\ IsInjective(kbd_queue)

\* A read comes back short only if its process was killed.
ShortOnlyIfKilled ==
    \A p \in Procs : pc[p] = "trap" /\ ~exiting[p] => Len(got[p]) = want[p]

\* The assertions of wakeup_proc and RR_enqueue hold: a key or a kill that
\* comes before schedule() does not queue the process twice.
AssertionsHold == panicked = "no"

\* The run list, the wait queue, the ring and the states of the processes
\* agree, whatever key or kill came between two steps of a reader.
ReadersQueued == /\ RunListExact
                 /\ NobodyWaitsForKeys
                 /\ SleepersAreQueued
                 /\ ShortOnlyIfKilled
                 /\ AssertionsHold

\* Every character goes to one reader, in the order of typing.
Keys == INSTANCE Typeahead WITH
            Readers <- Procs, Room <- STDIN_BUFSIZE,
            queue <- NextChars(p_wpos - p_rpos)

ImplementsTypeahead == Keys!Spec

\* Whoever sleeps while there are characters reads, or others read them all.
ReadersServed ==
    \A p \in Procs : pc[p] = "asleep" /\ p_rpos < p_wpos
                        ~> pc[p] # "asleep" \/ p_rpos = p_wpos

\* Not kept by the code, see "Disagreements" in README.md:
\* A reader that do_kill has woken leaves the call, though nobody types again.
KilledReadersLeave ==
    \A p \in Procs :
        /\ exiting[p] /\ pc[p] = "asleep" /\ state[p] = "RUNNABLE"
        /\ kbd_flags[p] = "WT_INTERRUPTED"
      ~> pc[p] \notin {"sleep", "asleep"}
=============================================================================
