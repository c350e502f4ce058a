# A TLA+ verification of the ucore kernel

This directory specifies and verifies the teaching kernel ucore in
`labcodes/`. The repository holds snapshots lab1 to lab8 of one kernel, most files
in eight nearly equal copies. Each part is modelled from the last snapshot in which
its code is complete: processes and memory from lab5, swapping from lab3, the
scheduler classes, timers and semaphores from lab7, the file system from lab8. A path
such as `process/proc.c` means `labcodes/lab5/kern/process/proc.c` unless a lab is
named.

- [Inventory](#inventory)
- [Plan](#plan)
- [What is modelled](#what-is-modelled)
- [What the runs check](#what-the-runs-check)
- [What is proved](#what-is-proved)
- [Disagreements](#disagreements)
- [What is not modelled](#what-is-not-modelled)

## Inventory

One processor, one kernel. Processes enter the kernel by system calls and traps;
the kernel is not preemptive (an interrupt in kernel mode returns to where it
came from), so a process gives up the processor only by calling `schedule()`.
Data that interrupt handlers share with the rest is guarded by
`local_intr_save`/`local_intr_restore`. The disk driver polls. So the grain of all
models is the same: what runs between two points at which an interrupt or another
process can come in is one action.

| Component | State | Operations | Modules |
|---|---|---|---|
| pid allocation (`process/proc.c`) | `last_pid`, `next_safe`, `proc_list` | `get_pid`, `set_links`, `remove_links` | `GetPid` |
| process management (`process/proc.c`, `syscall/syscall.c`) | `proc_struct`, `nr_process`, `current` | `do_fork`, `do_exit`, `do_wait`, `do_kill`, `do_execve`, `do_yield`, `init_main`, `cpu_idle` | `Process`, `LoadIcode` |
| scheduler of lab5 (`schedule/sched.c`) | `need_resched`, order of `proc_list` | `wakeup_proc`, `schedule` | `Process` |
| traps (`trap/trap.c`) | trap frame, `ticks` | `trap_dispatch`, `trap` | `Process`, `Paging` |
| physical pages (`mm/default_pmm.c`) | `free_list`, `nr_free`, flags and property of each page | `init_memmap`, `alloc_pages`, `free_pages` | `PageAllocator`, `FirstFit` |
| page tables (`mm/pmm.c`) | page directory, entries, page reference counts | `get_pte`, `page_insert`, `page_remove_pte`, `unmap_range`, `exit_range`, `copy_range` | `VirtualMemory`, `Paging` |
| virtual memory areas (`mm/vmm.c`) | `mmap_list`, `mmap_cache`, `map_count` | `mm_map`, `find_vma`, `dup_mmap`, `user_mem_check` | `Vmm` |
| swapping (lab3 `mm/swap.c`, `swap_fifo.c`) | FIFO list of pages, swap entries, TLB | `swap_out`, `swap_in`, `do_pgfault` | `Swap` |
| kernel heap (`mm/kmalloc.c`) | circular list of blocks, `slobfree`, `bigblocks` | `kmalloc`, `kfree` | `Heap`, `Slob` |
| boot loader (`boot/bootmain.c`) | memory, disk | `readseg`, `bootmain` | `BootLoader` |
| symbol tables (`debug/kdebug.c`) | table of stabs | `stab_binsearch`, `debuginfo_eip` | `Stabs` |
| console (`driver/console.c`) | `cons`, `shift` | `kbd_proc_data`, `cons_intr`, `cons_getc` | `Console` |
| run queue (lab7 `schedule/`) | `run_list`, time slices | enqueue, dequeue, pick, tick | `Sched` |
| stride scheduling (lab6) | skew heap | `skew_heap_insert`, `skew_heap_remove` | `SkewHeap` |
| timers (lab7 `schedule/sched.c`) | `timer_list` of relative expiries | `add_timer`, `del_timer`, `run_timer_list`, `do_sleep` | `AlarmClock`, `Timers` |
| wait queues, semaphores (lab7 `sync/`) | `value`, FIFO of waiters | `up`, `down`, `try_down` | `FairSemaphore`, `Semaphore`, `SemaphoreUse` |
| philosophers (lab7 `sync/check_sync.c`) | `state_sema`, semaphores | `phi_take_forks_sema`, `phi_put_forks_sema` | `Philosophers` |
| standard input (lab8 `fs/devs/dev_stdin.c`) | ring buffer, wait queue | `dev_stdin_write`, `dev_stdin_read` | `Typeahead`, `Stdin` |
| open files (lab8 `fs/file.c`, `fs/fs.c`) | status, open count, inode per descriptor; tables | open, close, dup, read, fork, exit | `Descriptors`, `FileTable` |
| VFS (lab8 `fs/vfs/`) | `ref_count`, `open_count`, working directories, devices | lookup, chdir, getcwd, getdirentry | `Paths`, `FileTable` |
| Simple File System (lab8 `fs/sfs/`) | inode cache, free map, superblock, dirty flags | load, reclaim, truncate, seek, sync, mount | `SfsBlocks` |
| disk image tool (lab8 `tools/mksfs.c`) | image being written | `open_dir`, `open_file`, `append_block`, `close_sfs` | `Mksfs` |

How they interact: `do_fork` calls `get_pid`, `kmalloc`, `alloc_pages` and `dup_mmap`;
`do_exit` gives all of it back; page faults call `find_vma`, `pgdir_alloc_page` and
`swap_in`, and `alloc_pages` calls `swap_out`; everything that sleeps (`do_wait`,
`do_sleep`, `down`, readers of the keyboard) does so through `schedule()` and is
woken by `wakeup_proc`; the timer and the keyboard interrupt call `wakeup_proc` too.
Files use semaphores of VFS and SFS.

The behaviours that are hard, and what makes each component correct:

- **pids**: a cached interval of free pids survives arbitrary exits. Correct if no
  two linked processes share a pid and the rescanning loop ends.
- **processes**: parents sleep while children exit, children change parents while
  somebody waits, memory runs out at any stage of fork and exec, kills arrive
  while the victim is anywhere. Correct if no wakeup is lost, the family stays a
  forest of live parents, everything acquired is released once, zombies are reaped
  by their parent only, and not everybody sleeps.
- **schedulers**: new processes enter the list in front of the scan; a wakeup must not
  enqueue twice. Correct if only live runnable processes are picked, each is queued
  exactly once, and nobody is overtaken for ever.
- **pages and heap**: blocks split and merge in any order. Correct if the lists stay
  sorted, disjoint and merged, and nothing is lost or given out twice.
- **page tables, areas, swap**: the same page mapped again, two areas in one page
  table, a stale cache or TLB, a disk that fails. Correct if a frame is freed exactly
  when its last mapping goes, and every process sees a private memory.
- **semaphores, timers**: hand-over to a waiter that has not run yet, kills of
  sleepers, relative expiries under insertion and deletion, interrupts between the
  arming of a timer and `schedule()`.
- **files**: close while another process reads with the same descriptor, inodes that
  leave memory and come back, a disk that fills up in the middle of an operation.
- **interpreters of others' data** (boot loader, `load_icode`, symbol search, keyboard,
  image tool): every boundary of sizes, alignments and sequences of input.

`PROJECT.json` lists these hazards one by one with their source lines and
the properties that cover them.

## Plan

All steps of the plan are done: first `GetPid`, `Process` and their proofs; the page
allocator; then scheduler, semaphores, timers, philosophers; memory (`Paging`, `Vmm`,
`Swap`, `Slob`); files (`FileTable`, `SfsBlocks`, `Paths`, `Mksfs`), `Stdin`; at last what
loads and interprets (`BootLoader`, `LoadIcode`, `Stabs`, `Console`, `SkewHeap`). Where
a component promises something that can be said without its mechanism, there is an
abstract module, and the detailed one is shown to implement it:

| Abstract | Promise | Detailed |
|---|---|---|
| `PageAllocator` | runs of pages belong to one caller each; refusal only without a run | `FirstFit` |
| `VirtualMemory` | private memories, copied by fork | `Paging` |
| `Heap` | an object's bytes are nobody else's | `Slob` |
| `AlarmClock` | sleepers are woken after exactly their number of ticks | `Timers` |
| `FairSemaphore` | at most `Permits` holders, first come first served | `SemaphoreUse` |
| `Typeahead` | characters in order, to one reader each | `Stdin` |
| `Descriptors` | a descriptor or a read keeps its file | `FileTable` |

## What is modelled

Every module names, in `PROJECT.json`, the lines each definition stands for. Operators
called `...Not`, `...Late`, `...From...` with the comment "Mutant" are plausible wrong
versions of the definition that follows; no specification uses them. They show that the
properties tell the right code from the wrong one.

### GetPid

`get_pid` with its static counters `last_pid` and `next_safe`. One action is one
pass through the body of the scanning loop: `EnterCached` (the interval still has
a pid), `EnterScan`, `ScanTaken`, `ScanRepeat` (`goto repeat`), `ScanOther`,
`ScanReturn`. `SetLinks` and `Unlink` are `set_links` at the head and
`remove_links` anywhere. `do_fork` runs `get_pid` with interrupts off, so nothing
is linked or unlinked during a scan.

### Process

| Variable | Code |
|---|---|
| `proc_list` | `proc_list`, as the sequence of pids from the head |
| `state`, `parent`, `wait_state`, `exiting`, `need_resched`, `mm` | the fields of `proc_struct`; `exiting` is `flags & PF_EXITING`, `mm` says whether `mm` is not null; "UNUSED" is a pid without a `proc_struct` |
| `children` | the chain from `cptr` along `optr`, youngest first |
| `target` | the argument of the `do_wait` the process is in |
| `pc` | where the process goes on: the points at which `schedule()` returns, user mode, and the tail of `trap()` |
| `current`, `panicked` | `current`; `is_panic` with the reason |
| `used` | how many `proc_struct`s, kernel stacks, `mm_struct`s, page directories and user address spaces are allocated |

A step is one pass of the running process from one scheduling point to the next.
Each handler is one action with all it does: `DoExit` gives up the memory, becomes a
zombie, wakes the parent, moves the children to init waking it for zombies, and
schedules.

| Action | Code |
|---|---|
| `SysFork`, `SysForkNoPage` | `do_fork` with `copy_mm`, `dup_mmap`, `copy_range` |
| `SysExit`, `TrapUnhandled`, `DoExit` | `do_exit` |
| `SysWait`, `WaitResumes`, `UserWait` | `do_wait`, entered and resumed |
| `SysKill`, `SysYield` | `do_kill`, `do_yield` |
| `SysExec`, `UserMain`, `Execve` | `do_execve` and `load_icode`; `user_main` |
| `TrapNoEffect`, `TrapPanics` | traps that change nothing here; page faults and system calls that panic |
| `TrapReturn` | the checks at the end of `trap()` |
| `InitStarts`, `InitWaits` | `init_main` |
| `IdleYields` | `cpu_idle` |
| `Tick` | the timer interrupt that sets `need_resched` |

Memory contents, registers, names and exit codes are left out. Both `do_fork` and
`load_icode` may fail at each stage at which the code can fail; what was acquired and
what the label releases are two tables. `swap_init_ok` is a constant: if it is set,
`alloc_pages` of a single page never returns NULL but ends in `swap_out` with a null
mm, and panics; only the two pages of a kernel stack can be refused. If it is not set,
every stage may fail. The behaviours of the former are among those of the latter, so
the safety run takes `FALSE`, and the liveness runs take `TRUE`, as `kern_init` leaves
it. A tick that arrives between the last check of `trap()` and the return to user mode
is taken at the next trap.

### PageAllocator and FirstFit

`FirstFit` is `default_pmm.c`: `free_list`, `property`, the flag `PG_property` and
`nr_free`, with the stale `property` values of inner pages kept as the code keeps
them. `Merge` is one pass of the merging loop of `default_free_pages`, folded over
the list; the base of the block moves when it merges downwards. `held` records what
callers own; a caller may give back any run of what it owns, as `default_check`
does. `PageAllocator` is what users rely on, without blocks.

### Vmm, Paging and VirtualMemory, Swap

`Vmm` keeps, per `mm_struct`, the sorted `mmap_list`, `mmap_cache` and `map_count`, on a
small machine whose addresses wrap. `load_icode` maps any segments in any order, then the
stack (`MapSegment`, `MapStack`); then faults (`Fault`) and system calls (`Check`, which is
`user_mem_check`) look areas up through the cache, `Fork` is `dup_mmap`, `Exit` is
`mm_destroy`. The answers are compared with a search of the bytes.

`Paging` counts addresses in pages. `phys` is physical memory: each frame is free, a page
directory, a page table or a page with a reference count and contents. `Exec`, `Fork`,
`Clone`, `Fault`, `Write`, `Exit` are `do_execve`, `copy_mm` with `dup_mmap` and
`copy_range`, `copy_mm` with `CLONE_VM`, `do_pgfault`, a store, and the release in
`do_exit`; `exit_mmap` unmaps all areas first and frees the tables then. When the last
frame is gone the kernel panics, as it does (see `swap_init_ok`).
`VirtualMemory` is a private map from pages to contents per address space.

`Swap` is lab3's `check_mm_struct` with more pages than frames. `Fault` is `do_pgfault` up
to `alloc_pages`; `SwapOut` and `SwapOutFails` are one pass of the loop in `swap_out`,
whose write to the disk may fail; `PageIn` ends the fault. `Evict` and `Store` are the
processor: a translation may stay in the TLB until it is invalidated or evicted.

### Heap and Slob

`Slob` is `kmalloc.c` with addresses in units: headers of blocks (`units`, `next`),
`slobfree`, `bigblocks` and the pages. One action is one `kmalloc` or `kfree`, whole: the
search, the split, the page that is fetched and freed into the list when nothing fits.
`Heap` gives each object a range of bytes.

### Sched, AlarmClock and Timers

`Sched` is the core of lab7's scheduler over the round-robin class: `run_list`,
`time_slice`, `need_resched`, `Schedule` (with the requeueing of the running process),
`WakeupProc`, `ProcTick`. It has no behaviour of its own.

`Timers` extends it by `timer_list` of records with relative expiries. `SysSleep` arms
the timer and marks the sleeper; `SleepSchedules` is the `schedule()` after it, with a
tick possible in between; `SleepResumes` deletes the timer. `Tick` is `run_timer_list`
with everything that is due, `SysKill` wakes a sleeper early. (In the repository `trap.c`
leaves the call of `run_timer_list` as an exercise; `Tick` makes it.) `AlarmClock`
has absolute times left.

### FairSemaphore, Semaphore, SemaphoreUse, Philosophers

`Semaphore` has `value`, `wait_queue` and the `wakeup_flags` of each `wait_t`. `Up` hands
the semaphore to the first waiter without incrementing `value`; `DownWaits` joins the
queue and schedules; `DownReturns` is `__down` after `schedule()`, with its assertion.
`SemaphoreUse` lets processes call `down`, `try_down`, `up`, yield, sleep inside the
critical section, kill each other, while timers expire; `Philosophers` is the semaphore
version of `check_sync.c`, from the start of the threads to their exit.

### Typeahead and Stdin

`Stdin` is the keyboard device: the ring, the wait queue, and readers that sleep
(`ReadLoop`, `ReaderSchedules`, `Interrupted`), on `Sched`; the keyboard interrupt comes
between any two actions, so also between `wait_current_set` and `schedule()`. `kbd_queue`
and `kbd_flags` are the `wait_queue` and the `wakeup_flags` of `dev_stdin.c`. When the
ring is full, a new character replaces the oldest one that nobody has read.

### Descriptors and FileTable, Paths, SfsBlocks, Mksfs

`FileTable` has the `fd_array` of each table, who shares it, the reference and open counts of
inodes. A call is one action, but a read of the keyboard sleeps between
`ReadSleeps` and `ReadReturns`, while the others that share the table close, open and
duplicate. `Paths` takes paths as sequences of tokens through `get_device`,
`vfs_lookup`, `sfs_lookup`, `vfs_getcwd` and `file_getdirentry`. `SfsBlocks` has the inodes
on disk and in memory, indirect blocks, the free map on disk and in memory, and the flags
that say what must be written. `sfs_io_nolock`, an unfilled exercise, transfers nothing and
sets the size, as it stands. `Mksfs` is the host program that writes the image: an action
is one entry that `readdir` returns; its result is mounted by the kernel's checks.

### BootLoader, LoadIcode, Stabs, Console, SkewHeap

`BootLoader` reads segments sector by sector over each other; `LoadIcode` is the loop of
`load_icode` page by page with memory running out. `Stabs` writes every symbol table
within its bounds as a compiler would, and searches it. `Console` decodes the scan codes
of keys pressed and released in any order, with the two keys each that mean SHIFT, CTL and
ALT. `SkewHeap` inserts and removes entries in any
order.

### How the parts are combined for checking

`MCMemory`, `MCPaging`, `MCFiles` and `MCStartup` hold several instances each. The variable `part`
(`running` in `MCPaging`) says which one a behaviour runs; the variables of the others are NULL. The initial states
are those of all parts, so one run explores each of them completely, and a property reads
`part = "swap" => ...`. The parts share no state in the models, as they share none in
the code but through the operations that each models itself.

## What the runs check

| Run | Instance | States | Shows |
|---|---|---|---|
| `get_pid` | 4 processes, pids 1..5 | 469 | `UniquePids`, `CacheKept`; `ScanTerminates` |
| `process` | idle, init, 4 pids, `MAX_PROCESS` 5, symmetric; `swap_init_ok = FALSE` | 20 thousand | `NoLostWakeup`, `FamilyTree`, `CurrentAlive`, `SchedulingSound`, `ResourcesBalanced`, `ZombieReapedByParent` |
| `process_live` | 3 pids, `swap_init_ok = TRUE` | 117 thousand | `RunnableRuns`, `KilledUserStops`, `OrphansReaped` |
| `process_kill` | 2 pids | 1.2 thousand until it stops | a counterexample to `KillLeadsToExit` |
| `semaphore` | 3 processes, 1 permit, slices of 1 tick | 102 thousand | `QueuesExact`, `PermitsAccounted`, refinement of `FairSemaphore`, `WaitersServed` |
| `philosophers` | 3 philosophers, 2 rounds | 106 thousand | `TableInOrder`, `AllQuit` |
| `timers` | 3 processes, sleeps up to 2 ticks | 12 thousand | `ListsExact`, refinement of `AlarmClock`, `NobodyStuck` |
| `stdin` | 2 readers, 4 keys, ring of 2 | 101 thousand | `ReadersQueued`, refinement of `Typeahead`, `ReadersServed` |
| `memory` | three parts, below | 14 thousand | `FreeListSound`, refinement of `PageAllocator`, `AreasKept`, `SwapIsTransparent` |
| `paging` | two parts, below | 7 thousand | `PagesAccounted`, `MemoryIsPrivate`, `HeapIsKept` |
| `files` | seven parts, below | 330 thousand | `DescriptorsKept`, `VolumeKept`, `PathsResolve`, `ImageSound` |
| `startup` | six parts, below | 2.1 million | `KernelAsLinked`, `ProgramAsLinked`, `SymbolsFound`, `ConsoleUnderstands`, `PoolSound` |

What the compound properties say:

- `CacheKept`: nothing linked lies strictly between the two cached counters, and no
  visited part of the list does while a scan runs.
- `SchedulingSound`: who was woken in `do_wait` was woken for a reason, and some linked
  process can always run. `ResourcesBalanced`: nothing leaks on any failing path, init
  ends with everything given back ("init check memory pass"), and the kernel's
  assertions hold.
- `QueuesExact`, `ListsExact`, `ReadersQueued`: the run list holds exactly the runnable
  processes that do not run, each once; the queue or timer list exactly those that sleep
  for it; no wakeup is lost; the kernel's assertions hold.
- `TableInOrder`: neighbours never eat together, permits and `state_sema` agree, the
  critical section is one.
- `AreasKept`: areas sorted, disjoint, counted; the cache never changes an answer;
  `find_vma` and `user_mem_check` answer what the bytes say; fork copies all.
  `SwapIsTransparent`: no stale translation, first in first out, and only stores change
  pages. `PagesAccounted`: every frame has one use and the count that goes with it, mappings
  stay within areas. `HeapIsKept`: refinement of `Heap`, no unit lost, the heap
  grows only when nothing fits.
- `VolumeKept`: the free map is what inodes use, what was changed is marked or on disk but
  for a count of blocks beyond the size, and sizes outlive the memory copy. `ImageSound`: blocks owned once, links and sizes right,
  the kernel can mount it and the tree is the host's.
- `KernelAsLinked`, `ProgramAsLinked`: every byte is where the linker put it, and what the
  file does not hold is zero. `SymbolsFound`: each address is given its own function and
  file. `ConsoleUnderstands`: no modifier sticks, what was meant arrives, in order, and
  Ctrl-Alt-Del and nothing else reboots; the latter two hold for keys pressed while no
  modifier has one of its two keys lifted and the other still down (see Disagreements). `PoolSound`: the root is the minimum of the members.

Bounds, and why they are enough. `process`: `MAX_PROCESS` 5 counts
idle and init, so three user processes are linked at a time, in any state each: a parent
with two children, a parent, child and grandchild, or a family beside an orphan of init;
the guards of `do_wait` and `do_exit` distinguish at most these. In that run
`nr_process` reaches its bound with a pid still free; in the liveness runs all pids are in
use first. `get_pid`: the interval wraps, is exhausted and restarts. `semaphore`: a holder, a woken waiter and a newcomer. `timers`: two
timers due at once with a third behind them. `philosophers`: with three each is a neighbour
of each; the proof covers the others. `memory`: `FirstFit` has regions of 4 and 1 pages, for merges
upwards, downwards and on both sides, splits, exact fits, and requests that exceed a
region but not `nr_free`; `Vmm` has two mms on 12 addresses with pages
of 2; `Swap` three pages on two frames. `paging`: `Paging` has two processes and eight
frames, fewer than two full address spaces need, so memory runs out; `Slob` three objects
of two small sizes, a page and two pages. `files`: two tables of two descriptors with three sharing processes; a
volume of four blocks, which gets full, with direct and indirect blocks; one file with two
descriptors; every tree of three directories, all paths up to three tokens; an image in
which the free map crosses a block. `startup`: every layout of two segments with up to 6
bytes, every symbol table up to 10 entries, 6 inputs to a ring of 3 while typing, among them
both keys of SHIFT and of CTL, 5 with those of CTL and ALT for a reboot; four entries in the
heap. The bounds `MaxTime`, `MaxTyped`, `MaxLen`, `MaxRefs`, `MaxInput`,
`MaxEntries`, `Length`, `TIMES` limit inputs in the guards.

Deadlock is not checked in `files` and `startup`: a loaded program, a mounted image or a
typist who has used up the inputs stop. Everywhere else it is; `Process` does not deadlock
even in a panic, which leaves the kernel monitor running (`Panicked`).

Fairness. `Process`: weak fairness of `KernelStep` (kernel code between two scheduling
points runs to its end, on the only processor) and of `Tick`. User programs get none:
they may loop for ever without a system call. `OrphansReaped` holds once forks stop
succeeding, and its formula says so: `do_wait` takes the youngest zombie first, and
an old one starves while younger ones keep dying. `GetPid`: the loop goes on. `SemaphoreUse`:
the kernel goes on, the timer ticks, pauses end, and whoever is in the critical section
and runs again and again calls `up()` some time (strong fairness of `Release`: it depends on
having the processor). A process that runs outside of the kernel loses the processor some time
(weak fairness of `Yield`, which stands for the preemption at the end of its slice as well). `Philosophers`: the processor is
not taken from a thread for good, and sleeps end, which `Timers` shows. `Timers`, `Stdin`:
the kernel and the timer go on; in `Stdin` nobody needs to type.

## What is proved

TLAPS checks the following for every value of the constants that satisfies the
named assumptions (`GetPidAssumption`; `MaxTimeAssumption`; `ProcessNames`, `RoomForInit`, `SwapIsBoolean`;
`SchedAssumption`: finitely many processes, idle not among them, slices of at least one
tick; `UseAssumption`; `PhilosophersAssumption`; `StdinAssumption`: a ring of at least one
character; `MemoryAssumption`: the regions of physical memory ascend; user space is whole
pages of an address space and has room for the stack, lengths are addresses and segments
have flags; pages and frames are finitely many, and the disk's mark is none of them;
`PagingAndHeapAssumption`: finitely many processes, at least one frame, page and entry of a
table, NULL is no frame, entry, content, number or block, and the pages `load_icode` fills lie in areas
it has mapped; a bigblock_t is larger than a unit of the heap and leaves two of them in a page, and no
size is asked for of which `find_order` drops bits, see Disagreements).

| Module | Theorem | Property |
|---|---|---|
| `ProcessProofs` | `TypeCorrect` | `TypeOK` |
| | `FamilyStaysTree` | `FamilyTree` |
| | `WakeupsNotLost` | `NoLostWakeup` |
| | `RunningIsAlive` | `CurrentAlive` |
| | `SchedulingStaysSound` | `SchedulingSound` |
| | `ResourcesStayBalanced` | `ResourcesBalanced` |
| | `ZombiesAwaitParents` | `ZombieReapedByParent` |
| | `PidTypeCorrect`, `PidsStayUnique`, `CacheStaysKept` | of `GetPid`: `TypeOK`, `UniquePids`, `CacheKept` |
| | `PagesStayAccounted` | of `Paging`: `PagesAccounted` |
| | `MemoryStaysPrivate` | `MemoryIsPrivate`: refinement of `VirtualMemory` |
| `ResourceProofs` | `HeapStaysKept` | `HeapIsKept`: refinement of `Heap` |
| | `QueuesStayExact` | `QueuesExact` |
| | `PermitsAddUp` | `PermitsAccounted` |
| | `SemaphoreIsFair` | `ImplementsFairSemaphore`: refinement of `FairSemaphore` |
| `PhilosophersProofs` | `TableStaysInOrder` | `TableInOrder` |
| `TimersProofs` | `TimersStayExact` | `ListsExact` |
| | `TimersKeepTime` | `ImplementsAlarmClock`: refinement of `AlarmClock` |
| `StdinProofs` | `KeyboardKeepsOrder` | `ImplementsTypeahead`: refinement of `Typeahead` |
| | `ReadersStayQueued` | `ReadersQueued` |
| `MemoryProofs` | `FreeListStaysSound` | `FreeListSound` |
| | `FirstFitAllocates` | `ImplementsAllocator`: refinement of `PageAllocator` |
| | `AreasStayKept` | `AreasKept` |
| | `PagesSurviveSwapping` | `SwapIsTransparent` |

*GetPid.* `UniquePids` alone is not inductive: a cached hit links `last_pid` without
looking at the list. The invariant adds `CacheSound` (nothing linked lies
strictly between the counters) and `ScanInv` (the visited prefix has no pid in
`last_pid .. next_safe - 1`), of which the return of the loop is an instance. The proof is
the third part of `ProcessProofs`, which reaches `GetPid` through `MCGetPid`: that module
gives its variables names that can stand beside those of `Process`.

*Process.* The invariant `IInv` has two parts. `Core` relates `proc_list`, `state`,
`parent`, `children`, `wait_state`, `target`, `pc` and `current`: the forest, who may
sleep, that unused pids are unlinked and sleepers have the wait state. `RestType`
types the rest. The proof has a lemma for each building block of the handlers
(`SwitchCore`, `ForkCore`, `SleepCore`, `ReapCore`, `ExitCore`, `KillCore`) that
preserves `Core` and nothing else, one lemma per handler on top, and `NextInv` with
one case per action. `ExitCore` is where `NoLostWakeup` needs the forest: init's
chain grows by the children of the dead process, and init sleeps on only if none of
those is a zombie. `UserPids` may be any set, finite or not.

The second half of `ProcessProofs` adds the rest of what the runs check of `Process`. That somebody can
always run (`NoStall`) is not inductive and would seem to need an induction along the
chains of waiting parents. It does not, for a reason the code never states: `set_links` puts
a child at the head of `proc_list` and orphans go to init at its tail, so a process is
always behind its children (`Behind`). The first process of the list that is no zombie
hence has no living child, and who has none does not sleep. `Behind` also gives the assertions
at the end of `init_main`: without children of init nobody but init is left.
`Accounting` is inductive once only living user processes have an mm
(`MemoryOfTheLiving`) and every failing stage of `do_fork` and `load_icode` is known to give
back what it took (`ForkUndone`, `LoadUndone`). `StepHasEffect` reduces the actions of `Next`
to eight effects on the process table, and each invariant is proved about those.

*Semaphore.* `SemaphoreLemmas` says what `schedule()`, `wakeup_proc`, `up` and `down` keep,
for whatever runs on them: `SchedInv` (the run list is exact, sleepers are those with a
wait state) and `SemInv` (queues are disjoint and without repetition, waiters sleep,
nobody waits for a free semaphore). The part of `SchedInv` that does not speak of
semaphores (`SchedCore`) is kept by the lemmas as well, so that other queues on the same
scheduler can use it. `ResourceProofs` adds that whoever is in `down()` and
out of the queue was taken out by `__up` (its `wakeup_flags`); this makes
`PermitsAccounted` inductive, because such a process counts as a holder before it runs. The
refinement maps it to a holder as well, so that the hand-over is one step of
`FairSemaphore` and the return from `down()` a stuttering one.

*Philosophers.* `PhiInv` says, for each place in the code, what `state_sema[i]`, the
value and the queue of `s[i]` are there (`Row`), that no two neighbours are entered as
EATING (`Apart`) and that who is in the critical section runs and the mutex is never
waited for (`Section`). The last one makes the proof: nothing in the section gives up the
processor, so at every `down(&mutex)` the section is free, and at every `phi_test_sema` the
neighbour is at its fork, before `down` or in it.

*Timers.* A timer stores its expiry relative to the one in front, so what it means is a sum
over a prefix of the list (`DueAfter`), a fold again. `AddTimerIs`, `DelTimerIs` and `TickIs`
say that the three operations leave that sum alone for every timer but the one they are
about, and take one off all of them at a tick; the walk of `add_timer` is exact because the
sums ascend (`DueInOrder`). `AddTimerAlarm`, `DelTimerAlarm` and `TickAlarm` restate this for
the alarms by process, which is `AlarmClock`'s variable. The invariant `TimerInv` needs, beside
`SchedCore`, that no timer on the list is due already (`ListSound`) and, for each process, that
a sleeper has a timer, that a timer belongs to a call of `do_sleep` and that what runs has not
exited (`SleeperSound`): hence no tick wakes a zombie or queues somebody twice, though a
timer may ring while its sleeper has not called `schedule()` yet.

*Stdin.* `RingInv` keeps `p_wpos` within a ring of `p_rpos`. The proof is about the
modulo arithmetic: positions less than a ring apart have different slots (`SlotsDiffer`),
so a key never overwrites a character nobody has read, and positions a ring apart share
theirs (`SlotsRepeat`), so a key that finds the ring full replaces the oldest one, which is
what `Typeahead` says of it.

`KbdInv` is the invariant for the readers. It says for each reader (`ReaderSound`) where it may be:
one that has entered the queue and not yet called `schedule()` is still `current`; one in
the queue has a `wait_t` without wakeup and sleeps or is about to; one that is awake in the
call was woken by a key or killed. `wakeup_queue` empties the queue in a loop, a fold in the
model: `WakeupsKeepCore` is its loop invariant.

*FirstFit.* The block list is a sequence of page numbers, and the invariant `BlockList` says
that it ascends, that `property` of a block ends before the next one begins, and that the
blocks are the free pages. `TakePart`, `TakeAll` and `MergeStep` say what each change of the
list does to it. `default_init_memmap` and the merging pass of `default_free_pages` are
loops, folds in the model; a fold is turned into the sequence of its intermediate results
(`FoldExists`, `FoldPrefixes`), and the loop invariants `InitInv` and `MergeInv` are then
proved by looking at the first result that breaks them (`IntervalInduction`). A run of free pages lies in
one block because blocks do not touch (`RunInBlock`); hence the first block that is
long enough begins the lowest run (`FirstFitIsLowest`), which is what `PageAllocator` asks for.

*Vmm.* The invariant says that each `mm_struct` has its areas sorted, apart, within user space
and on page boundaries, counts them, and has one of them or none in its cache (`Mm`). That
`insert_vma_struct` keeps this (`InsertKeeps`) needs its assertions for the two neighbours only:
the list is sorted, so what is in order with its neighbours is in order with all. Where the code of
`mm_map` lets the assertion fail, the kernel halts; the theorem speaks of all states up to
there. `user_mem_check` goes from area to area; `MemCheckInv` is its loop invariant: every
address behind may be accessed, every area ahead is further down the list, or something
of the buffer may not be accessed. The latter bounds the loop by the length of the list. From it
follows that the verdict is the one byte by byte (`MemCheckExact`, `BufferChecked`), also when
the buffer wraps around the address space. In `dup_mmap` each area goes in front of those
copied before (`InsertInFront`), so the copy has the order of the original (`DupCopies`).

*Paging.* The theorem counts what each frame is used for; counting is hard to reason about, so the
invariant names the uses instead. `Uses` gives each directory, table slot and page of a live
mm its frame, `Owned` says that this is one to one and that the other frames are the free ones,
`Counted` that the reference count goes with the kind of use, and `UsedOnce` gets the
cardinalities back. `Follows` says that entries and page tables are where areas are: without
it `exit_mmap`, which goes from area to area, would not find all there is to free. The
operations are calls within loops within loops on a memory that is for a while no state of the
system: `Kept` says the same of it, with `K` for the frames that have been taken from the free
list and not been given a use (`alloc_page` before `page_insert`, the new directory in
`do_execve`). `RemoveKeeps`, `PageInsertKeeps`, `AllocPageKeeps` and `CopyPageKeeps` are the calls; the
`...Run` lemmas give the turns of each loop one by one; `UnmapAreasKeeps` shows that nothing is mapped
after the first pass of `exit_mmap`, on which the second one, which frees the tables, rests.
Where memory runs out, nothing is claimed but that the rest of the operation does nothing
(`Failed`), and the kernel panics.

`MemoryStaysPrivate` maps this to `VirtualMemory`: a space is the frame of its page directory,
and a page of it shows what is in the frame its entry leads to (`Holds`). Each operation
says which pages of which spaces it leaves as they were: `Same` for those that free, map for a
new mm or exit, `SameBut` for a store or a fault, `CopyOf` for the areas fork has been
through. That a store into a frame is seen in one page of one space only is `Owned` again,
and that a new mm shows nothing but what was loaded or copied into it needs that its directory
comes empty. The `Mem...` lemmas turn this into the variable of `VirtualMemory`, and `WriteSeen`,
`FaultSeen`, `ExecSeen`, `ForkSeen`, `CloneSeen` and `ExitSeen` into its actions. The proof is the last part of `ProcessProofs`, and
`MCPaging` gives `Paging` variables of its own names, as `MCGetPid` does.

*Slob.* The list of the model is what the C structures are: headers in an array of units, linked
by addresses. The invariant `HeapInv` says that the free blocks form a ring in the order of their
addresses (`Ring`), that the headers of all blocks, free or not, cut the heap's pages without a
gap or an overlap (`Tiled`), and that no two free blocks touch (`Spaced`). The walk around the
ring is a fold; that it comes by every free block (`TourIs`) and that the search of `slob_free` ends
at the block in front of the freed one (`BeforeIs`) follow from the ring going up but for one
step. `TakeKeeps` and `FreeKeeps` are `slob_alloc` behind its search and `slob_free` with its joins
on both sides; they also say whose blocks have changed hands. `SlobState` adds the owners: each
block that is not free is a small object's or the bigblock_t of a big one (`OwnersPart`), and
the pages of big objects are not free, each of one object (`PagesPart`). `SmallTaken`, `BigTaken`, `SmallFreed` and
`BigFreed` keep it; from it objects lie apart, which is what `Heap` promises, and `Room` being
empty means that no block is large enough, so the heap grows only when nothing fits.
The proof shares a module with that of `SemaphoreUse`: permits are the other thing the
kernel hands out and takes back.

*Swap.* `SwapInv` adds what relates the page table to the list: a frame in use has a page in
`pra_vaddr` that maps to it, the list has each of them once, and a page that faults is not
present. Each of the refinement's facts follows for one step at a time: what a program sees in a
page is in its frame, or on disk, and moves between the two only as a whole.

`SequenceLemmas` has the facts on prepending, appending, inserting, removing, reversing and
folding that all of these need.

Only model-checked: liveness (the prover does not handle fairness and ENABLED);
the file system and the parts of `MCStartup`, which are
not proved yet or, where recursive operators compute them (`SkewHeap`, `Stabs`), cannot be:
the library's induction theorems take an operator as a parameter, which the provers do not
instantiate. (Folds are within reach by the minimum of a set of counterexamples, as above.)

## Disagreements

`process_kill` is a run that TLC finds violated: the table at `process/proc.c:56` says that
SYS_kill leads through `wakeup_proc` and `do_wait` to `do_exit`. A process that is flagged
while it is preempted behind the check of `trap()` returns to user mode and may call
`wait()`; `do_wait` goes to sleep without looking at the flag, and later kills return
`-E_KILLED` without waking it. `user/waitkill.c` tests the kill of a waiting parent,
with yields that let the parent fall asleep first.

The modules also state the following, each with what the code or its comments say as a
property that no run lists, because the code does not keep it. TLC finds each violated
with the instances above, except where another is named.

| Property | What the code does |
|---|---|
| `Vmm!AssertionsHold` | `mm_map` tests only whether the start of the new area lies in another (`mm/vmm.c:172`); a new area that begins in a gap and runs into the next one fails the assertion of `insert_vma_struct`, where -E_INVAL is meant. |
| `Vmm!FindsAsCommented` | `find_vma` does not find an area at its `vm_end`, which its comment includes. |
| `Swap!OnlyStoresChangePages` with `ReadErrors` | `swap_in` reports success when the disk could not be read (lab3 `mm/swap.c:129`). |
| `Slob!SizesAccepted` | For sizes just below `PAGE_SIZE - SLOB_UNIT` the unit is added twice and `slob_alloc`'s assertion fails. Needs such a size in `Sizes`. |
| `Slob!ObjectsDisjoint` | `find_order` drops the bits that it shifts out: 8193 bytes get two pages. Needs such a size. |
| `Stdin!KilledReadersLeave` | A reader that `do_kill` has woken goes back to sleep if a key comes before it runs and it wants more (lab8 `dev_stdin.c:60`). |
| `FileTable!UnusedAreReclaimed` | `vfs_open` keeps the reference of `vfs_lookup` when it returns -E_EXISTS: the inode is never reclaimed. |
| `FileTable!AssertionsHold` in the part that creates | No file system has `vop_create`: O_CREAT of a missing file panics. |
| `SfsBlocks!SizeMatchesBlocks` with two files | When the disk fills up in `sfs_truncfile`, blocks are added and the size is not set; a later truncation to that size fails an assertion. |
| `SfsBlocks!DirtyIfModified` | `sfs_bmap_load_nolock` increments `din->blocks` without setting `dirty`. What gets lost are blocks beyond the size, when the disk fills up (`SavedUnlessDirty`). |
| `SfsBlocks!NamedAreInUse` with `Crashes` | fsync writes the inode and not the free map; after a power failure a truncation frees a block that is not in use, and panics. |
| `SfsBlocks!SeeksInRange` with a larger maximal size | Seeks up to 128 MB are accepted, 4 MB can be mapped, and the rest panics. |
| `SfsBlocks!CreatKeepsFile` with the flag "creat" | `vfs_open` truncates a file that O_CREAT finds in place. |
| `Paths!PathsWalk` | `sfs_lookup` looks for the whole rest of the path in one directory: "a/b" is not found. |
| `Mksfs!FilesReadable` | mksfs accepts files with doubly indirect blocks, which the kernel has not. |
| `Mksfs!NamesKept` | Names of 253 to 255 characters lose their end. |
| `Console!ModifierWhileHeld` | SHIFT, CTL and ALT have two keys each (`console.c:268`) and one flag, which the release of either clears (`console.c:373`): with the other one still down, letters come out small. |
| `Console!TakesWaiting` | `cons_intr` does not look at `rpos`: a ring that is exactly full looks empty. |
| `Stabs!LineRight` | `debuginfo_eip` takes the line from `stabs[rline]`, which another kind of entry between two lines makes wrong. |
| `LoadIcode!BssBuilt` | `load_icode` passes over a segment of which nothing is in the file, whatever its memory size. |

The instances keep out the inputs that lead to these where the other properties would only
repeat the same fact: sizes of the heap, flags of the volume.

## What is not modelled

- *Monitors* (lab7 `sync/monitor.c`, and the philosophers on them), the stride class (lab6),
  the transfer loop of `sfs_io_nolock`, lab8's `do_fork` and `load_icode`: exercises that the
  repository leaves unfilled. There is no code to translate. The skew heap, which is
  complete, is modelled; `BIG_STRIDE` is not defined, and the strides of the model lie in half the
  range.
- *Other snapshots.* A definition is mapped to one snapshot. The eight copies of the other
  files, exercises unfilled in most, are the larger part of the repository's lines.
- *Drivers, boot assembly, output, the kernel monitor's commands*: port I/O, straight-line
  code run once, printing. `print_stackframe` is an exercise.
- *The C library and user programs*, the shell among them: what they may call is the
  environment of `Process`. Formatting is left out.
- *The keyboard's repetition* of a key that is held down, which sends its code again.
- *Reads of directories* through `file_read`: `sfs_node_dirops` has no read, and the
  assertion of `vop_read` fails.
- *Self tests* (`default_check`, `check_swap`, `check_vma_struct`, ...) run once at boot.
- *SFS locks*: the disk is polled and the kernel is not preempted, so that no process ever
  waits for `fs_sem`, `mutex_sem` or an inode's `sem`.
- *VFS*: `vfs_mount` runs once at boot; `vfs_unmount` is never called; link, rename, unlink
  return -E_UNIMP; lab8 has no chdir system call, and `Paths` and `FileTable` call `vfs_chdir`
  as the kernel threads may. `CLONE_FS` is modelled, though no system call passes it.
- *Swapping of user pages*: in lab5 `check_mm_struct` is null outside the test, user
  pages are never swapped out, and `copy_range` never meets a swap entry.
- *Accesses through another descriptor beyond a size truncated meanwhile* in `SfsBlocks`, whose
  writes transfer nothing.
- *Liveness of page faults* when the swap disk fails for ever: the loop of `alloc_pages` may go
  on.
