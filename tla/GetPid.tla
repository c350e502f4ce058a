------------------------------- MODULE GetPid -------------------------------
(***************************************************************************)
(* get_pid (labcodes/lab5/kern/process/proc.c): the allocator of process   *)
(* identifiers.  It keeps two static counters.  last_pid is the identifier *)
(* handed out last; next_safe caches the smallest identifier above         *)
(* last_pid known to be taken, so that every identifier strictly between   *)
(* the two may be handed out without looking at proc_list again.  When the *)
(* cache is exhausted the list is scanned; the scan moves last_pid past    *)
(* every taken identifier and restarts from the head of the list when it   *)
(* has run out of the interval it was building.                            *)
(*                                                                         *)
(* do_fork calls get_pid with interrupts off and links the new process at  *)
(* the head of proc_list before they are on again; do_wait unlinks a       *)
(* process from any place of the list.  One step here is one pass through  *)
(* the body of the scanning loop, so that the loop invariant can be stated *)
(* and proved.                                                             *)
(***************************************************************************)
EXTENDS Integers, Sequences, SequencesExt

CONSTANTS MAX_PROCESS,   \* bound of nr_process, checked by do_fork
          MAX_PID        \* identifiers are 1 .. MAX_PID - 1

\* The static_assert of get_pid.
PidBounds == /\ MAX_PROCESS \in Nat \ {0}
             /\ MAX_PID \in Nat
             /\ MAX_PID > MAX_PROCESS

VARIABLES proc_list,     \* the pids of the linked processes, in list order
          last_pid,
          next_safe,
          pc,            \* "out": not in get_pid; "scan": in its while loop
          le             \* position in proc_list the loop looks at next

vars == <<proc_list, last_pid, next_safe, pc, le>>

Pids == 1 .. MAX_PID - 1

\* idleproc is counted by nr_process but never linked.
nr_process == Len(proc_list) + 1

Init == /\ proc_list = <<>>
        /\ last_pid = MAX_PID
        /\ next_safe = MAX_PID
        /\ pc = "out"
        /\ le = 1

-----------------------------------------------------------------------------
\* get_pid is entered from do_fork, which has checked nr_process.
Enter == pc = "out" /\ nr_process < MAX_PROCESS

\* set_links: the process that got pid p becomes the head of proc_list.
SetLinks(p) == proc_list' = <<p>> \o proc_list

\* ++last_pid stays below next_safe: no scan is needed.
EnterCached ==
    /\ Enter
    /\ last_pid + 1 < MAX_PID
    /\ last_pid + 1 < next_safe
    /\ last_pid' = last_pid + 1
    /\ SetLinks(last_pid')
    /\ UNCHANGED <<next_safe, pc, le>>

\* ++last_pid reaches the end of the range, or of the cached interval.
EnterScan ==
    /\ Enter
    /\ last_pid + 1 >= MAX_PID \/ last_pid + 1 >= next_safe
    /\ last_pid' = IF last_pid + 1 >= MAX_PID THEN 1 ELSE last_pid + 1
    /\ next_safe' = MAX_PID
    /\ pc' = "scan"
    /\ le' = 1
    /\ UNCHANGED proc_list

Scanning == pc = "scan" /\ le <= Len(proc_list)

\* Mutant: the next candidate is not compared with next_safe.
ScanTakenUnchecked ==
    /\ Scanning
    /\ proc_list[le] = last_pid
    /\ last_pid' = IF last_pid + 1 >= MAX_PID THEN 1 ELSE last_pid + 1
    /\ le' = le + 1
    /\ UNCHANGED <<proc_list, next_safe, pc>>

\* proc->pid == last_pid, and the next candidate is still below next_safe.
ScanTaken ==
    /\ Scanning
    /\ proc_list[le] = last_pid
    /\ last_pid + 1 < next_safe
    /\ last_pid' = last_pid + 1
    /\ le' = le + 1
    /\ UNCHANGED <<proc_list, next_safe, pc>>

\* Mutant: a restart always begins with pid 1.
ScanRepeatFromOne ==
    /\ Scanning
    /\ proc_list[le] = last_pid
    /\ last_pid + 1 >= next_safe
    /\ last_pid' = 1
    /\ next_safe' = MAX_PID
    /\ le' = 1
    /\ UNCHANGED <<proc_list, pc>>

\* proc->pid == last_pid and the interval is used up: goto repeat.
ScanRepeat ==
    /\ Scanning
    /\ proc_list[le] = last_pid
    /\ last_pid + 1 >= next_safe
    /\ last_pid' = IF last_pid + 1 >= MAX_PID THEN 1 ELSE last_pid + 1
    /\ next_safe' = MAX_PID
    /\ le' = 1
    /\ UNCHANGED <<proc_list, pc>>

\* Mutant: next_safe takes any larger pid, not only a smaller bound.
ScanOtherLast ==
    /\ Scanning
    /\ proc_list[le] # last_pid
    /\ next_safe' = IF proc_list[le] > last_pid THEN proc_list[le]
                                                ELSE next_safe
    /\ le' = le + 1
    /\ UNCHANGED <<proc_list, last_pid, pc>>

\* Another pid: it may lower next_safe.
ScanOther ==
    /\ Scanning
    /\ proc_list[le] # last_pid
    /\ next_safe' = IF proc_list[le] > last_pid /\ next_safe > proc_list[le]
                    THEN proc_list[le]
                    ELSE next_safe
    /\ le' = le + 1
    /\ UNCHANGED <<proc_list, last_pid, pc>>

\* The loop is back at the list head: return last_pid; do_fork links it.
ScanReturn ==
    /\ pc = "scan"
    /\ le > Len(proc_list)
    /\ pc' = "out"
    /\ le' = 1
    /\ SetLinks(last_pid)
    /\ UNCHANGED <<last_pid, next_safe>>

\* do_wait reclaims a zombie: remove_links takes it out of proc_list.
Unlink(i) ==
    /\ pc = "out"
    /\ proc_list' = RemoveAt(proc_list, i)
    /\ UNCHANGED <<last_pid, next_safe, pc, le>>

GetPidStep == EnterCached \/ EnterScan \/ ScanTaken \/ ScanRepeat
                 \/ ScanOther \/ ScanReturn

Next == GetPidStep \/ \E i \in 1 .. Len(proc_list) : Unlink(i)

\* The body of get_pid runs with interrupts off on the only processor: once
\* entered, nothing keeps it from taking its next step.
Spec == /\ Init
        /\ [][Next]_vars
        /\ WF_vars(ScanTaken \/ ScanRepeat \/ ScanOther \/ ScanReturn)

-----------------------------------------------------------------------------
TypeOK == /\ proc_list \in Seq(Pids)
          /\ nr_process <= MAX_PROCESS
          /\ last_pid \in 1 .. MAX_PID
          /\ next_safe \in 1 .. MAX_PID
          /\ pc \in {"out", "scan"}
          /\ le \in Nat \ {0}

\* No two linked processes have the same pid: find_proc, do_kill and
\* do_wait name processes by pid and would act on the wrong one otherwise.
UniquePids == \A i, j \in 1 .. Len(proc_list) :
                 proc_list[i] = proc_list[j] => i = j

\* What the cache promises between two calls: no linked process has a pid
\* strictly between last_pid and next_safe, whatever was unlinked meanwhile.
CacheSound == pc = "out" =>
                 \A i \in 1 .. Len(proc_list) :
                    ~(last_pid < proc_list[i] /\ proc_list[i] < next_safe)

\* The invariant of the scanning loop: the part of the list already visited
\* has no pid in last_pid .. next_safe - 1.
ScanInv == pc = "scan" =>
              /\ last_pid < next_safe
              /\ le <= Len(proc_list) + 1
              /\ \A i \in 1 .. le - 1 :
                    ~(last_pid <= proc_list[i] /\ proc_list[i] < next_safe)

\* What a call leaves behind or works with is always right, so that a pid is
\* given out from the cache or by the scan only if nobody has it.
CacheKept == CacheSound /\ ScanInv

\* The scan terminates although goto repeat restarts it: there are more
\* identifiers than processes (the static_assert), so a free one is found.
ScanTerminates == pc = "scan" ~> pc = "out"

=============================================================================
