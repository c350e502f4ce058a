------------------------------ MODULE Process ------------------------------
(***************************************************************************)
(* Processes of the lab5 kernel: kern/process/proc.c, schedule/sched.c,    *)
(* syscall/syscall.c and the tail of trap/trap.c.                          *)
(*                                                                         *)
(* There is one processor and the kernel is not preemptive: an interrupt   *)
(* taken in kernel mode only sets current->need_resched.  Another process  *)
(* runs only where the code calls schedule(), so a step of this module is  *)
(* one pass of the running process from one such point (or from user mode) *)
(* to the next, and every handler is one action.  What interleaves are the *)
(* processes, at those points, and the timer, at every step.               *)
(*                                                                         *)
(* A process is named by its pid; GetPid shows that linked processes have  *)
(* different ones.  A pid that is not in use stands for memory that is not *)
(* a proc_struct: its fields are kept at alloc_proc's values, so that      *)
(* do_fork sets only the fields in which the child differs.                *)
(***************************************************************************)
EXTENDS Integers, Sequences, SequencesExt, FiniteSets

CONSTANTS idleproc,     \* pid 0: never linked, runs when nobody else can
          initproc,     \* pid 1: reaps what others leave behind
          UserPids,     \* the other pids
          MAX_PROCESS,  \* bound of nr_process
          swap_init_ok  \* has swap_init brought up the swap manager?

Pids  == UserPids \cup {initproc}
Procs == Pids \cup {idleproc}

ASSUME ProcessNames == /\ idleproc # initproc
                       /\ {idleproc, initproc} \cap UserPids = {}

\* kernel_thread makes init when idle is the only process.
ASSUME RoomForInit == MAX_PROCESS \in Nat /\ MAX_PROCESS >= 2

ASSUME SwapIsBoolean == swap_init_ok \in BOOLEAN

VARIABLES
  proc_list,    \* linked pids, head first: the order schedule() scans
  state,        \* "UNUSED" or proc_state: RUNNABLE, SLEEPING, ZOMBIE
  parent,       \* parent[p], meaningful while p is linked
  children,     \* the sibling chain from cptr along optr, youngest first
  wait_state,   \* "none" (0 in the code) or "WT_CHILD"
  exiting,      \* flags & PF_EXITING
  need_resched,
  mm,           \* proc->mm # NULL
  target,       \* the pid argument of the do_wait a process is in, or AnyChild
  pc,           \* where the process goes on when it runs
  current,
  used,         \* how many of each resource are allocated
  panicked      \* "no", or what the kernel panicked with

links  == <<proc_list, parent, children>>
fields == <<exiting, mm>>
vars   == <<links, fields, state, wait_state, need_resched, target, pc,
            current, used, panicked>>

States == {"UNUSED", "SLEEPING", "RUNNABLE", "ZOMBIE"}

\* What a process owns: its proc_struct and kernel stack, and for its memory
\* the mm_struct, the page directory and the mapped pages.
Resources    == {"proc", "kstack", "mm", "pgdir", "mmap"}
MemResources == {"mm", "pgdir", "mmap"}

AnyChild == idleproc        \* do_wait's pid 0

\* Where a process continues: cpu_idle; init_main before kernel_thread and at
\* its do_wait; user_main before its exec; in user mode; at the checks that
\* end trap(); in do_wait after schedule().
Places == {"none", "idle", "start", "reap", "exec", "user", "trapret", "woken"}

nr_process == Len(proc_list) + 1

Linked == ToSet(proc_list)

Init == /\ proc_list = <<initproc>>
        /\ state = [p \in Procs |-> IF p \in UserPids THEN "UNUSED"
                                                      ELSE "RUNNABLE"]
        /\ parent = [p \in Procs |-> idleproc]
        /\ children = [p \in Procs |-> IF p = idleproc THEN <<initproc>>
                                                       ELSE <<>>]
        /\ wait_state = [p \in Procs |-> "none"]
        /\ exiting = [p \in Procs |-> FALSE]
        /\ need_resched = [p \in Procs |-> p = idleproc]
        /\ mm = [p \in Procs |-> FALSE]
        /\ target = [p \in Procs |-> AnyChild]
        /\ pc = [p \in Procs |-> CASE p = idleproc -> "idle"
                                   [] p = initproc -> "start"
                                   [] OTHER -> "none"]
        /\ current = idleproc
        /\ used = [r \in Resources |-> IF r \in MemResources THEN 0 ELSE 1]
        /\ panicked = "no"

-----------------------------------------------------------------------------
(***************************************************************************)
(* schedule(): round robin along proc_list, from the process after current *)
(* (from the head for idle) around to current itself.                      *)
(***************************************************************************)
Position(list, p) == CHOOSE i \in DOMAIN list : list[i] = p

\* Mutant: the scan always starts at the head of proc_list.
ScanOrderFromHead(list) == list

ScanOrder(list) ==
    IF current = idleproc
    THEN list
    ELSE LET i == Position(list, current)
         IN  SubSeq(list, i + 1, Len(list)) \o SubSeq(list, 1, i)

\* Mutant: the next process is taken whatever its state.
PickNextBlindly(list, st) == ScanOrder(list)[1]

PickNext(list, st) ==
    LET order == ScanOrder(list)
        ready == {i \in DOMAIN order : st[order[i]] = "RUNNABLE"}
    IN  IF ready = {} THEN idleproc ELSE order[Min(ready)]

\* Called with the states and the list the caller leaves behind.
Schedule(list, st) ==
    /\ need_resched' = [need_resched EXCEPT ![current] = FALSE]
    /\ current' = PickNext(list, st)

At(p, place) == panicked = "no" /\ current = p /\ pc[p] = place

Goto(p, place) == pc' = [pc EXCEPT ![p] = place]

One(r, set) == IF r \in set THEN 1 ELSE 0

\* Resources taken, then given back, by one handler.
Charge(taken, freed) ==
    used' = [r \in Resources |-> used[r] + One(r, taken) - One(r, freed)]

\* The memory behind mm[p]; a kernel thread has none.
Memory(p) == IF mm[p] THEN MemResources ELSE {}

Panic(why) ==
    /\ panicked' = why
    /\ UNCHANGED <<links, fields, state, wait_state, need_resched, target,
                   pc, current, used>>

-----------------------------------------------------------------------------
(***************************************************************************)
(* wakeup_proc of every process in the set q, while the states are st.  It *)
(* asserts that none is a zombie and leaves a runnable one as it is.       *)
(***************************************************************************)
WaitStateCleared(woken) ==
    [p \in Procs |-> IF p \in woken THEN "none" ELSE wait_state[p]]

Wakeup(q, st) ==
    LET woken == {p \in q : st[p] \notin {"RUNNABLE", "ZOMBIE"}}
    IN  /\ state' = [p \in Procs |-> IF p \in woken THEN "RUNNABLE"
                                                    ELSE st[p]]
        /\ wait_state' = WaitStateCleared(woken)
        /\ panicked' = IF \E p \in q : st[p] = "ZOMBIE"
                       THEN "wakeup of a zombie" ELSE panicked

\* Mutant: do_exit does not wake init for the zombies it hands over.
ExitWakesParentOnly(p) ==
    IF wait_state[parent[p]] = "WT_CHILD" THEN {parent[p]} ELSE {}

\* Whom the exit of p wakes: its parent, and init when p leaves it a zombie.
ExitWakes(p) ==
    {q \in {parent[p]} : wait_state[q] = "WT_CHILD"}
      \cup {q \in {initproc} :
              /\ wait_state[q] = "WT_CHILD"
              /\ \E c \in ToSet(children[p]) : state[c] = "ZOMBIE"}

\* Mutant: the children keep the parent that exited.
AbandonChildren(p) == UNCHANGED <<parent, children>>

\* The children of p move, one by one, to the head of init's chain.
Reparent(p) ==
    /\ parent' = [c \in Procs |-> IF c \in ToSet(children[p]) THEN initproc
                                                              ELSE parent[c]]
    /\ children' = [children EXCEPT
                      ![p] = <<>>,
                      ![initproc] = Reverse(children[p]) \o @]

\* do_exit of p; taken and freed is what its handler did before.
DoExit(p, taken, freed) ==
    IF p = initproc
    THEN Panic("initproc exit")
    ELSE /\ mm' = [mm EXCEPT ![p] = FALSE]
         /\ used' = [r \in Resources |-> used[r] + One(r, taken) - One(r, freed)
                                                - One(r, Memory(p))]
         /\ Wakeup(ExitWakes(p), [state EXCEPT ![p] = "ZOMBIE"])
         /\ Reparent(p)
         /\ Goto(p, "none")
         /\ target' = [target EXCEPT ![p] = AnyChild]
         /\ Schedule(proc_list, state')
         /\ UNCHANGED <<proc_list, exiting>>

-----------------------------------------------------------------------------
(***************************************************************************)
(* do_fork.  It acquires the child's resources in the order of the code    *)
(* and stops at the first that cannot be had; what it holds then, and what *)
(* the label it jumps to gives back, are the two tables.  A kernel thread  *)
(* has no mm to copy.                                                      *)
(***************************************************************************)
Stages(p) == IF mm[p] THEN Resources ELSE Resources \ MemResources

\* dup_mmap may have mapped a part of the child's memory when it fails.
Acquired(stage) == CASE stage = "proc"   -> {}
                     [] stage = "kstack" -> {"proc"}
                     [] stage = "mm"     -> {"proc", "kstack"}
                     [] stage = "pgdir"  -> {"proc", "kstack", "mm"}
                     [] stage = "mmap"   -> Resources

bad_fork_cleanup_proc == {"proc"}

\* Mutant: put_kstack is left out of the fork's cleanup.
CleanupLeavesKstack == bad_fork_cleanup_proc

bad_fork_cleanup_kstack == {"kstack"} \cup bad_fork_cleanup_proc
bad_pgdir_cleanup_mm    == {"mm"} \cup bad_fork_cleanup_kstack
bad_dup_cleanup_mmap    == {"mmap", "pgdir"} \cup bad_pgdir_cleanup_mm

ForkCleanup(stage) == CASE stage = "proc"   -> {}
                        [] stage = "kstack" -> bad_fork_cleanup_proc
                        [] stage = "mm"     -> bad_fork_cleanup_kstack
                        [] stage = "pgdir"  -> bad_pgdir_cleanup_mm
                        [] stage = "mmap"   -> bad_dup_cleanup_mmap

RoomToFork == nr_process < MAX_PROCESS

\* alloc_pages refuses more than one page.  A single page it gets from swap_out
\* when the swap manager is up, and swap_out panics for want of an mm to take
\* it from: check_mm_struct is NULL again by then.  Only the kernel stack, of
\* two pages, is refused in either case.
Refusable(stage) == stage = "kstack" \/ ~swap_init_ok

\* The fork fails: for want of a process slot, or at a stage.
ForkFails(p) ==
    \/ ~RoomToFork /\ Charge({}, {})
    \/ /\ RoomToFork
       /\ \E stage \in Stages(p) :
             Refusable(stage) /\ Charge(Acquired(stage), ForkCleanup(stage))

\* The fork succeeds with child c: set_links puts it at the head of proc_list
\* and of its parent's chain.
ForkSucceeds(p, c) ==
    /\ RoomToFork
    /\ state[c] = "UNUSED"
    /\ Charge(Stages(p), {})
    /\ mm' = [mm EXCEPT ![c] = mm[p]]
    /\ parent' = [parent EXCEPT ![c] = p]
    /\ proc_list' = <<c>> \o proc_list
    /\ children' = [children EXCEPT ![p] = <<c>> \o @]
    /\ Wakeup({c}, [state EXCEPT ![c] = "UNINIT"])

-----------------------------------------------------------------------------
(***************************************************************************)
(* do_wait of p for t.  It reaps the first zombie it finds, sleeps when    *)
(* there is none yet, and returns an error when there is nobody to wait    *)
(* for.  `reaped' is where p goes on after it has reaped one.              *)
(***************************************************************************)
\* Mutant: do_wait does not ask whose child the process is.
AwaitedOfAnyone(p, t) == IF t = AnyChild
                         THEN children[p]
                         ELSE IF t \in Linked THEN <<t>> ELSE <<>>

Awaited(p, t) == IF t = AnyChild
                 THEN children[p]
                 ELSE IF t \in Linked /\ parent[t] = p THEN <<t>> ELSE <<>>

Zombies(p, t) == {i \in DOMAIN Awaited(p, t) :
                     state[Awaited(p, t)[i]] = "ZOMBIE"}

ReapFrees == {"proc", "kstack"}

\* found: unhash_proc, remove_links, put_kstack, kfree.
Reap(c) ==
    /\ proc_list' = RemoveAt(proc_list, Position(proc_list, c))
    /\ children' = [children EXCEPT ![parent[c]] = RemoveAt(@, Position(@, c))]
    /\ Charge({}, ReapFrees)
    /\ state' = [state EXCEPT ![c] = "UNUSED"]
    /\ parent' = [parent EXCEPT ![c] = idleproc]
    /\ exiting' = [exiting EXCEPT ![c] = FALSE]
    /\ UNCHANGED <<mm, wait_state, panicked>>

WaitFinds(p, t) ==
    /\ Zombies(p, t) # {}
    /\ Reap(Awaited(p, t)[Min(Zombies(p, t))])
    /\ target' = [target EXCEPT ![p] = AnyChild]

\* Mutant: haskid is not tested.
MaySleepAlone(p, t) == Zombies(p, t) = {}

MaySleep(p, t) == Zombies(p, t) = {} /\ Awaited(p, t) # <<>>

WaitSleeps(p, t) ==
    /\ MaySleep(p, t)
    /\ state' = [state EXCEPT ![p] = "SLEEPING"]
    /\ wait_state' = [wait_state EXCEPT ![p] = "WT_CHILD"]
    /\ target' = [target EXCEPT ![p] = t]
    /\ Goto(p, "woken")
    /\ Schedule(proc_list, state')
    /\ UNCHANGED <<links, fields, used, panicked>>

\* do_wait called by a user process, or repeated after it was woken.
UserWait(p, t) ==
    \/ /\ WaitFinds(p, t)
       /\ Goto(p, "trapret")
       /\ UNCHANGED <<need_resched, current>>
    \/ WaitSleeps(p, t)
    \/ /\ Awaited(p, t) = <<>>                                \* -E_BAD_PROC
       /\ Goto(p, "trapret")
       /\ target' = [target EXCEPT ![p] = AnyChild]
       /\ UNCHANGED <<links, fields, state, wait_state, need_resched,
                      current, used, panicked>>

-----------------------------------------------------------------------------
(***************************************************************************)
(* The system calls of a user process.                                     *)
(***************************************************************************)
SysFork(p) ==
    /\ At(p, "user")
    /\ \/ /\ ForkFails(p)
          /\ Goto(p, "trapret")
          /\ UNCHANGED <<links, fields, state, wait_state, panicked>>
       \/ \E c \in UserPids :
             /\ ForkSucceeds(p, c)
             /\ pc' = [pc EXCEPT ![p] = "trapret", ![c] = "user"]
             /\ UNCHANGED exiting
    /\ UNCHANGED <<need_resched, target, current>>

\* No page is left: swap_out panics, or without swap copy_range, which asserts
\* that it has a page for the copy.
SysForkNoPage(p) ==
    /\ At(p, "user")
    /\ RoomToFork
    /\ Panic("no page")

SysExit(p) == At(p, "user") /\ DoExit(p, {}, {})

SysWait(p) == At(p, "user") /\ \E t \in Pids \cup {AnyChild} : UserWait(p, t)

SysYield(p) ==
    /\ At(p, "user")
    /\ need_resched' = [need_resched EXCEPT ![p] = TRUE]
    /\ Goto(p, "trapret")
    /\ UNCHANGED <<links, fields, state, wait_state, target, current, used,
                   panicked>>

SysKill(p) ==
    /\ At(p, "user")
    /\ \E q \in Linked :
          /\ ~exiting[q]
          /\ exiting' = [exiting EXCEPT ![q] = TRUE]
          /\ Wakeup(IF wait_state[q] = "WT_CHILD" THEN {q} ELSE {}, state)
    /\ Goto(p, "trapret")
    /\ UNCHANGED <<links, mm, need_resched, target, current, used>>

\* do_execve and load_icode, as a system call or from user_main.  The old
\* memory goes before the new is built; a failure ends the process.
LoadStages == {"mm", "pgdir", "elf", "mmap"}

LoadAcquired(stage) == CASE stage = "mm"    -> {}
                         [] stage = "pgdir" -> {"mm"}
                         [] stage = "elf"   -> {"mm", "pgdir"}
                         [] stage = "mmap"  -> MemResources

LoadCleanup(stage) ==
    LET bad_pgdir_mm  == {"mm"}
        bad_elf_pgdir == {"pgdir"} \cup bad_pgdir_mm
        bad_mmap      == {"mmap"} \cup bad_elf_pgdir
    IN  CASE stage = "mm"    -> {}
          [] stage = "pgdir" -> bad_pgdir_mm
          [] stage = "elf"   -> bad_elf_pgdir
          [] stage = "mmap"  -> bad_mmap

\* A malformed binary fails in the last two stages, without memory each does.
LoadFails(stage) == stage \in {"elf", "mmap"} \/ Refusable(stage)

Execve(p, place) ==
    \/ /\ mm' = [mm EXCEPT ![p] = TRUE]
       /\ Charge(MemResources, Memory(p))
       /\ Goto(p, place)
       /\ UNCHANGED <<links, exiting, state, wait_state, need_resched, target,
                      current, panicked>>
    \/ \E stage \in LoadStages :
          LoadFails(stage) /\ DoExit(p, LoadAcquired(stage), LoadCleanup(stage))
    \/ Panic("no page")     \* in swap_out, or the asserts on the user stack

SysExec(p) == At(p, "user") /\ Execve(p, "trapret")

UserMain(p) == At(p, "exec") /\ Execve(p, "user")

\* Interrupts other than the tick that asks for rescheduling, system calls
\* that change nothing here (getpid, putc, a refused argument, a kill of an
\* unknown pid or of a process already flagged) and page faults that are
\* served: only the checks at the end of trap() follow.
TrapNoEffect(p) ==
    /\ At(p, "user")
    /\ Goto(p, "trapret")
    /\ UNCHANGED <<links, fields, state, wait_state, need_resched, target,
                   current, used, panicked>>

\* Exceptions nobody handles end the process.
TrapUnhandled(p) == At(p, "user") /\ DoExit(p, {}, {})

\* Page faults nobody can serve, and undefined system calls, panic.
TrapPanics(p) == At(p, "user") /\ Panic("user trap")

ReturnToUser(p) ==
    /\ IF need_resched[p]
       THEN Schedule(proc_list, state)
       ELSE UNCHANGED <<need_resched, current>>
    /\ Goto(p, "user")
    /\ UNCHANGED <<links, fields, state, wait_state, target, used, panicked>>

\* Mutant: trap() returns to user mode without looking at PF_EXITING.
TrapReturnUnchecked(p) == At(p, "trapret") /\ ReturnToUser(p)

\* The end of trap() for a trap from user mode.
TrapReturn(p) ==
    /\ At(p, "trapret")
    /\ IF exiting[p] THEN DoExit(p, {}, {}) ELSE ReturnToUser(p)

\* schedule() returns in do_wait.
WaitResumes(p) ==
    /\ p # initproc
    /\ At(p, "woken")
    /\ IF exiting[p] THEN DoExit(p, {}, {}) ELSE UserWait(p, target[p])

-----------------------------------------------------------------------------
(***************************************************************************)
(* initproc runs init_main: it creates user_main, reaps whatever becomes   *)
(* its child, and ends when it has no child left.                          *)
(***************************************************************************)
InitStarts ==
    /\ At(initproc, "start")
    /\ \/ Panic("create user_main failed")        \* do_fork had no memory
       \/ \E c \in UserPids :
             /\ ForkSucceeds(initproc, c)
             /\ pc' = [pc EXCEPT ![initproc] = "reap", ![c] = "exec"]
             /\ UNCHANGED <<exiting, need_resched, target, current>>

\* What init_main asserts when do_wait has found no child.
InitChecks == /\ children[initproc] = <<>>
              /\ children[idleproc] = <<initproc>>
              /\ nr_process = 2
              /\ proc_list = <<initproc>>

InitWaits ==
    /\ At(initproc, "reap") \/ At(initproc, "woken")
    /\ IF pc[initproc] = "woken" /\ exiting[initproc]
       THEN DoExit(initproc, {}, {})
       ELSE \/ /\ WaitFinds(initproc, AnyChild)
               /\ Goto(initproc, "reap")
               /\ Schedule(proc_list', state')
            \/ WaitSleeps(initproc, AnyChild)
            \/ /\ Awaited(initproc, AnyChild) = <<>>
               /\ IF InitChecks THEN DoExit(initproc, {}, {})
                                ELSE Panic("init check failed")

\* cpu_idle.
IdleYields ==
    /\ At(idleproc, "idle")
    /\ need_resched[idleproc]
    /\ Schedule(proc_list, state)
    /\ UNCHANGED <<links, fields, state, wait_state, target, pc, used,
                   panicked>>

\* The timer interrupt that asks for rescheduling.  In user mode it is a trap
\* of its own, in the kernel it leaves a mark for the next check.
Tick ==
    /\ panicked = "no"
    /\ ~need_resched[current]
    /\ need_resched' = [need_resched EXCEPT ![current] = TRUE]
    /\ pc' = [pc EXCEPT ![current] = IF @ = "user" THEN "trapret" ELSE @]
    /\ UNCHANGED <<links, fields, state, wait_state, target, current, used,
                   panicked>>

\* The kernel monitor that panic() enters does not return.
Panicked == panicked # "no" /\ UNCHANGED vars

UserStep(p) == \/ SysFork(p) \/ SysForkNoPage(p) \/ SysExit(p) \/ SysWait(p)
               \/ SysYield(p) \/ SysKill(p) \/ SysExec(p) \/ TrapNoEffect(p)
               \/ TrapUnhandled(p) \/ TrapPanics(p)

KernelStep == \/ \E p \in UserPids : UserMain(p) \/ TrapReturn(p)
                                       \/ WaitResumes(p)
              \/ InitStarts \/ InitWaits \/ IdleYields

Next == (\E p \in UserPids : UserStep(p)) \/ KernelStep \/ Tick \/ Panicked

Spec == Init /\ [][Next]_vars

\* Kernel code runs on, and the timer goes on ticking; a user program need
\* not make any system call.
FairSpec == Spec /\ WF_vars(KernelStep) /\ WF_vars(Tick)

-----------------------------------------------------------------------------
TypeOK ==
    /\ proc_list \in Seq(Pids)
    /\ nr_process <= MAX_PROCESS
    /\ state \in [Procs -> States]
    /\ parent \in [Procs -> Procs]
    /\ children \in [Procs -> Seq(Pids)]
    /\ wait_state \in [Procs -> {"none", "WT_CHILD"}]
    /\ exiting \in [Procs -> BOOLEAN]
    /\ need_resched \in [Procs -> BOOLEAN]
    /\ mm \in [Procs -> BOOLEAN]
    /\ target \in [Procs -> Procs]
    /\ pc \in [Procs -> Places]
    /\ current \in Procs
    /\ used \in [Resources -> Int]

\* A process sleeps in do_wait only while it has a child to wait for and none
\* of those it waits for is a zombie: whoever becomes one wakes it, in
\* do_exit, whether it was this parent's child all along or is handed to init.
NoLostWakeup ==
    \A p \in Linked : state[p] = "SLEEPING" =>
        /\ Awaited(p, target[p]) # <<>>
        /\ Zombies(p, target[p]) = {}

\* A process that do_wait is about to wake up in was woken for a reason: a
\* child of it is a zombie, or it was killed.
NoSpuriousWakeup ==
    \A p \in Linked :
        pc[p] = "woken" /\ state[p] = "RUNNABLE" =>
            exiting[p] \/ \E c \in ToSet(children[p]) : state[c] = "ZOMBIE"

\* Not everybody waits for everybody: there is always a linked process that
\* can run, so idle runs only until the next schedule().
NoStall == panicked = "no" => \E p \in Linked : state[p] = "RUNNABLE"

\* Both: who waits has a reason to, and somebody can always end it.
SchedulingSound == NoSpuriousWakeup /\ NoStall

\* The sibling chains and the parent pointers describe the same forest, and
\* every parent is alive: no pointer leads to a zombie or to freed memory.
FamilyTree ==
    /\ \A q \in Procs : IsInjective(children[q])
    /\ \A c \in Pids, q \in Procs :
          c \in ToSet(children[q]) <=> c \in Linked /\ parent[c] = q
    /\ \A c \in Linked \ {initproc} :
          parent[c] \in Linked /\ state[parent[c]] # "ZOMBIE"

\* What runs is a live process: schedule() never switches to a zombie, to a
\* sleeper or to a process whose kernel stack do_wait has freed, and who runs
\* has no wait_state left (the assertion at the head of do_fork).
CurrentAlive == panicked = "no" =>
                   /\ current \in Linked \cup {idleproc}
                   /\ state[current] = "RUNNABLE"
                   /\ wait_state[current] = "none"

\* Nothing leaks and nothing is freed twice, whichever stage of do_fork or
\* load_icode fails: a linked process has its proc_struct and kernel stack,
\* one with an mm has the memory, and nothing else is allocated.
Accounting ==
    \A r \in Resources :
        used[r] = Cardinality({p \in Linked : r \in MemResources => mm[p]})

\* The kernel's own assertions hold: wakeup_proc never meets a zombie, and
\* init_main finds the process table as it asserts when it ends.
AssertionsHold == panicked \notin {"wakeup of a zombie", "init check failed"}

\* Unless init itself is killed, the kernel ends with only init left and all
\* memory of the other processes given back (init check memory pass).
CleanShutdown ==
    panicked = "initproc exit" /\ ~exiting[initproc] =>
        /\ Linked = {initproc}
        /\ \A r \in Resources : used[r] = IF r \in MemResources THEN 0 ELSE 1

\* Memory and processes balance at every moment and at the end, and the
\* kernel's own checks agree.
ResourcesBalanced == Accounting /\ CleanShutdown /\ AssertionsHold

\* A zombie stays one until its parent reaps it in do_wait.
ZombieReapedByParent ==
    [][\A p \in Pids : state[p] = "ZOMBIE" =>
          \/ state'[p] = "ZOMBIE"
          \/ state'[p] = "UNUSED" /\ current = parent[p]]_vars

Stopped == panicked # "no"

\* schedule() is a round robin: who can run does run, however many processes
\* the others fork ahead of it.
RunnableRuns ==
    \A p \in Pids : state[p] = "RUNNABLE" ~> current = p \/ Stopped

\* A killed process that can run is gone after a while, or asleep in do_wait:
\* the check at the end of trap() catches it in user mode.
KilledUserStops ==
    \A p \in UserPids :
        exiting[p] /\ state[p] = "RUNNABLE" ~> state[p] # "RUNNABLE" \/ Stopped

\* init reaps every zombie that is its child once forks stop succeeding.
\* While they go on it need not: do_wait takes the youngest zombie of the
\* chain, so an old one can starve.
OrphansReaped ==
    <>[][nr_process' <= nr_process]_vars =>
        \A p \in UserPids :
            state[p] = "ZOMBIE" /\ parent[p] = initproc
                ~> state[p] # "ZOMBIE" \/ Stopped

\* proc.c's table of system calls: SYS_kill leads through wakeup_proc and
\* do_wait to do_exit.
KillLeadsToExit ==
    \A p \in UserPids :
        exiting[p] ~> state[p] \in {"ZOMBIE", "UNUSED"} \/ Stopped

=============================================================================
