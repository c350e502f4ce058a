--------------------------- MODULE ProcessProofs ---------------------------
(***************************************************************************)
(* Proofs about Process, for any number of pids and any MAX_PROCESS, about *)
(* the pids of GetPid, and about the memory of processes, Paging.          *)
(*                                                                         *)
(* FamilyTree, NoLostWakeup and CurrentAlive hold only together.  do_exit  *)
(* finds everybody it must wake through the parent pointers, so a sleeper  *)
(* is woken only if the pointers are right; reaping is harmless to the     *)
(* tree only because the process taken out is nobody's parent; and the     *)
(* handlers run for a process that is linked and alive only because        *)
(* schedule() picked such a one.  Core is that conjunction, with the few   *)
(* facts about the process table that it needs.                            *)
(*                                                                         *)
(* In Paging the loops over areas, pages and tables are folds.  Each has a *)
(* lemma that gives its turns one by one, so that what a turn keeps the    *)
(* loop keeps.  Each operation also says what becomes of the pages that    *)
(* processes see (Holds), which is all that VirtualMemory knows of.        *)
(***************************************************************************)
EXTENDS Process, MCGetPid, MCPaging, SequenceLemmas

CoreType == /\ proc_list \in Seq(Pids)
            /\ state \in [Procs -> States]
            /\ parent \in [Procs -> Procs]
            /\ children \in [Procs -> Seq(Pids)]
            /\ wait_state \in [Procs -> {"none", "WT_CHILD"}]
            /\ target \in [Procs -> Procs]
            /\ current \in Procs

\* Every process is linked once, and what is linked is in use.
Table == /\ IsInjective(proc_list)
         /\ \A p \in Pids : state[p] = "UNUSED" <=> p \notin Linked
         /\ \A p \in Linked : parent[p] # p

\* The two processes that are always there.
Roots == /\ state[idleproc] = "RUNNABLE"
         /\ initproc \in Linked
         /\ state[initproc] # "ZOMBIE"
         /\ parent[initproc] = idleproc

\* Only do_wait puts processes to sleep, and wakeup_proc undoes all of it.
SleepersWait ==
    \A p \in Procs : state[p] = "SLEEPING" <=> wait_state[p] = "WT_CHILD"

\* NoLostWakeup in terms of the parent pointers alone: the processes that p
\* waits for in do_wait(t), and that a sleeper waits for some, all living.
Wanted(p, t) == {c \in Linked : parent[c] = p /\ (t = AnyChild \/ t = c)}

SleepersWaitForLiving ==
    \A p \in Linked : state[p] = "SLEEPING" =>
        /\ Wanted(p, target[p]) # {}
        /\ \A c \in Wanted(p, target[p]) : state[c] # "ZOMBIE"

Core == /\ CoreType
        /\ Table
        /\ Roots
        /\ SleepersWait
        /\ FamilyTree
        /\ SleepersWaitForLiving
        /\ CurrentAlive

RestType == /\ nr_process <= MAX_PROCESS
            /\ exiting \in [Procs -> BOOLEAN]
            /\ need_resched \in [Procs -> BOOLEAN]
            /\ mm \in [Procs -> BOOLEAN]
            /\ pc \in [Procs -> Places]
            /\ used \in [Resources -> Int]

IInv == Core /\ RestType

-----------------------------------------------------------------------------
\* Where a listed process is: Position is a CHOOSE.
LEMMA PositionOf ==
  ASSUME NEW S, NEW s \in Seq(S), NEW p \in ToSet(s)
  PROVE  Position(s, p) \in 1 .. Len(s) /\ s[Position(s, p)] = p
BY DEF Position, ToSet

\* What a scan for a runnable process finds is one from the list, or idle.
LEMMA PickNextSound ==
  ASSUME NEW list \in Seq(Pids), NEW st,
         current \in ToSet(list) \cup {idleproc},
         st[idleproc] = "RUNNABLE"
  PROVE  /\ PickNext(list, st) \in ToSet(list) \cup {idleproc}
         /\ st[PickNext(list, st)] = "RUNNABLE"
<1> DEFINE order == ScanOrder(list)
           ready == {i \in DOMAIN order : st[order[i]] = "RUNNABLE"}
<1>1. order \in Seq(Pids) /\ \A i \in 1 .. Len(order) : order[i] \in ToSet(list)
  <2>1. CASE current = idleproc
    BY <2>1 DEF ScanOrder, ToSet
  <2>2. CASE current # idleproc
    <3> DEFINE k == Position(list, current)
               a == SubSeq(list, k + 1, Len(list))
               b == SubSeq(list, 1, k)
    <3>1. k \in 1 .. Len(list)
      BY <2>2, PositionOf
    <3>2. /\ Len(list) \in Nat
          /\ DOMAIN list = 1 .. Len(list)
          /\ \A i \in 1 .. Len(list) : list[i] \in ToSet(list) /\ list[i] \in Pids
      BY DEF ToSet
    <3> HIDE DEF k
    <3>3. /\ a \in Seq(Pids)
          /\ Len(a) = Len(list) - k
          /\ \A i \in 1 .. Len(a) : a[i] \in ToSet(list)
      <4>1. k \in 0 .. Len(list)
        BY <3>1, <3>2
      <4>2. /\ a \in Seq(Pids) /\ Len(a) = Len(list) - k
            /\ \A i \in 1 .. Len(list) - k : a[i] = list[k + i]
        BY <4>1, SuffixElements
      <4>3. \A i \in 1 .. Len(list) - k : k + i \in 1 .. Len(list)
        BY <3>1, <3>2
      <4> HIDE DEF a
      <4>4. QED
        BY <3>2, <4>2, <4>3
    <3>4. /\ b \in Seq(Pids)
          /\ Len(b) = k
          /\ \A i \in 1 .. Len(b) : b[i] \in ToSet(list)
      BY <3>1, <3>2
    <3>5. order = a \o b
      BY <2>2 DEF ScanOrder, k
    <3> HIDE DEF a, b, order
    <3>6. /\ order \in Seq(Pids)
          /\ Len(order) = Len(a) + Len(b)
          /\ \A j \in 1 .. Len(a) + Len(b) :
                order[j] = IF j <= Len(a) THEN a[j] ELSE b[j - Len(a)]
      BY <3>3, <3>4, <3>5, ConcatElements
    <3>7. Len(a) \in Nat /\ Len(b) \in Nat
      BY <3>3, <3>4
    <3>8. QED
      <4> SUFFICES ASSUME NEW j \in 1 .. Len(a) + Len(b)
                   PROVE  order[j] \in ToSet(list)
        BY <3>6
      <4>1. CASE j <= Len(a)
        BY <4>1, <3>3, <3>6, <3>7
      <4>2. CASE ~(j <= Len(a))
        <5>1. j - Len(a) \in 1 .. Len(b)
          BY <4>2, <3>7
        <5>2. QED
          BY <5>1, <4>2, <3>4, <3>6
      <4>3. QED
        BY <4>1, <4>2
  <2>3. QED
    BY <2>1, <2>2
<1>2. CASE ready = {}
  BY <1>2 DEF PickNext
<1>3. CASE ready # {}
  <2>1. DOMAIN order = 1 .. Len(order) /\ Len(order) \in Nat
    BY <1>1
  <2>2. ready \subseteq Nat
    <3> HIDE DEF order
    <3> QED BY <2>1
  <2>3. Min(ready) \in ready
    <3> HIDE DEF ready
    <3> QED BY <1>3, <2>2, MinInSet
  <2>4. PickNext(list, st) = order[Min(ready)]
    BY <1>3 DEF PickNext
  <2> HIDE DEF order
  <2>5. QED
    BY <1>1, <2>1, <2>3, <2>4
<1>4. QED
  BY <1>2, <1>3

LEMMA LinkedArePids ==
  ASSUME CoreType
  PROVE  Linked \subseteq Pids /\ Pids \subseteq Procs
BY DEF CoreType, Linked, ToSet, Procs

\* The list do_wait walks holds the processes that are wanted.
LEMMA AwaitedAreWanted ==
  ASSUME CoreType, FamilyTree, NEW p \in Procs, NEW t \in Procs
  PROVE  /\ Awaited(p, t) \in Seq(Pids)
         /\ ToSet(Awaited(p, t)) = Wanted(p, t)
<1>1. CASE t = AnyChild
  <2>1. ToSet(children[p]) \subseteq Pids
    BY DEF CoreType, ToSet
  <2>2. QED
    BY <1>1, <2>1, LinkedArePids DEF CoreType, FamilyTree, Awaited, Wanted
<1>2. CASE t # AnyChild
  <2>1. CASE t \in Linked /\ parent[t] = p
    <3>1. Awaited(p, t) = <<t>>
      BY <1>2, <2>1 DEF Awaited
    <3>2. ToSet(<<t>>) = {t} /\ t \in Pids
      BY <2>1, LinkedArePids DEF ToSet
    <3>3. QED
      BY <1>2, <2>1, <3>1, <3>2 DEF Wanted
  <2>2. CASE ~(t \in Linked /\ parent[t] = p)
    <3>1. Awaited(p, t) = <<>>
      BY <1>2, <2>2 DEF Awaited
    <3>2. ToSet(<<>>) = {}
      BY DEF ToSet
    <3>3. QED
      BY <1>2, <2>2, <3>1, <3>2 DEF Wanted
  <2>3. QED
    BY <2>1, <2>2
<1>3. QED
  BY <1>1, <1>2

LEMMA CoreNoLostWakeup == Core => NoLostWakeup
<1> SUFFICES ASSUME Core, NEW p \in Linked, state[p] = "SLEEPING"
             PROVE  /\ Awaited(p, target[p]) # <<>>
                    /\ Zombies(p, target[p]) = {}
  BY DEF NoLostWakeup
<1>1. p \in Procs /\ target[p] \in Procs
  BY LinkedArePids DEF Core, CoreType
<1>2. ToSet(Awaited(p, target[p])) = Wanted(p, target[p])
  BY <1>1, AwaitedAreWanted DEF Core
<1>3. /\ Wanted(p, target[p]) # {}
      /\ \A c \in Wanted(p, target[p]) : state[c] # "ZOMBIE"
  BY DEF Core, SleepersWaitForLiving
<1>4. QED
  BY <1>2, <1>3 DEF ToSet, Zombies

\* schedule() keeps a live process running, given the table its caller leaves.
LEMMA ScheduleSound ==
  ASSUME Core, NEW list \in Seq(Pids), NEW st, st[idleproc] = "RUNNABLE",
         current \in ToSet(list) \cup {idleproc}, Schedule(list, st)
  PROVE  /\ current' \in Procs
         /\ current' \in ToSet(list) \cup {idleproc}
         /\ st[current'] = "RUNNABLE"
<1>1. ToSet(list) \subseteq Procs
  BY DEF ToSet, Procs
<1>2. QED
  BY <1>1, PickNextSound DEF Schedule, Procs

\* Steps that touch neither the process table nor who runs.
LEMMA SameCore ==
  ASSUME Core,
         UNCHANGED <<links, state, wait_state, target, current>>,
         panicked' = "no" => panicked = "no"
  PROVE  Core'
BY DEF Core, CoreType, Table, Roots, SleepersWait, FamilyTree,
       SleepersWaitForLiving, CurrentAlive, Wanted, Linked, links

\* Steps that only switch to another process.
LEMMA SwitchCore ==
  ASSUME Core, panicked = "no", Schedule(proc_list, state),
         UNCHANGED <<links, state, wait_state, target>>
  PROVE  Core'
<1>1. /\ current' \in Procs
      /\ current' \in Linked \cup {idleproc}
      /\ state[current'] = "RUNNABLE"
  BY ScheduleSound DEF Core, CoreType, Roots, CurrentAlive, Linked
<1>2. wait_state[current'] = "none"
  BY <1>1 DEF Core, CoreType, SleepersWait
<1>3. CurrentAlive'
  BY <1>1, <1>2 DEF CurrentAlive, Linked, links
<1>4. QED
  BY <1>1, <1>3 DEF Core, CoreType, Table, Roots, SleepersWait, FamilyTree,
                    SleepersWaitForLiving, Wanted, Linked, links

\* do_kill wakes a sleeper.
LEMMA KillCore ==
  ASSUME Core, panicked = "no", NEW q \in Linked,
         Wakeup(IF wait_state[q] = "WT_CHILD" THEN {q} ELSE {}, state),
         UNCHANGED <<links, target, current>>
  PROVE  Core'
<1>1. q \in Pids /\ q \in Procs
  BY DEF Core, CoreType, Linked, ToSet, Procs
<1>2. CASE wait_state[q] = "WT_CHILD"
  <2>1. /\ state' = [p \in Procs |-> IF p = q THEN "RUNNABLE" ELSE state[p]]
        /\ wait_state' = [p \in Procs |-> IF p = q THEN "none" ELSE wait_state[p]]
        /\ state[q] = "SLEEPING"
    BY <1>1, <1>2 DEF Wakeup, WaitStateCleared, Core, CoreType, SleepersWait
  <2>2. Linked' = Linked /\ Linked \subseteq Procs
    BY LinkedArePids DEF Core, Linked, links
  <2>3. \A p \in Procs : state'[p] = "ZOMBIE" <=> state[p] = "ZOMBIE"
    BY <2>1
  <2>4. CoreType'
    BY <2>1 DEF Core, CoreType, States, links
  <2>5. Table' /\ Roots' /\ SleepersWait'
    BY <2>1, <2>2, <1>1, LinkedArePids
       DEF Core, CoreType, Table, Roots, SleepersWait, links, Procs
  <2>6. FamilyTree'
    BY <2>2, <2>3 DEF Core, FamilyTree, links, Procs
  <2>7. SleepersWaitForLiving'
    <3>1. \A p \in Procs : state'[p] = "SLEEPING" => state[p] = "SLEEPING"
      BY <2>1
    <3>2. \A p, s : Wanted(p, s)' = Wanted(p, s)
      BY <2>2 DEF Wanted, links
    <3>3. QED
      BY <2>2, <2>3, <3>1, <3>2 DEF Core, SleepersWaitForLiving, Wanted, links
  <2>8. CurrentAlive'
    BY <2>1, <2>2 DEF Core, CoreType, CurrentAlive, links, Procs
  <2>9. QED
    BY <2>4, <2>5, <2>6, <2>7, <2>8 DEF Core
<1>3. CASE wait_state[q] # "WT_CHILD"
  <2>1. UNCHANGED <<links, state, wait_state, target, current>>
    BY <1>3 DEF Wakeup, WaitStateCleared, Core, CoreType
  <2>2. QED
    BY <2>1, SameCore
<1>4. QED
  BY <1>2, <1>3

\* Who makes a step runs, is linked and, being awake, waits for nobody.
LEMMA RunningProcess ==
  ASSUME Core, panicked = "no", NEW p \in Pids, current = p
  PROVE  /\ p \in Linked
         /\ p \in Procs
         /\ p # idleproc
         /\ state[p] = "RUNNABLE"
BY ProcessNames, LinkedArePids
   DEF Core, CoreType, CurrentAlive, Linked, ToSet, Pids, Procs

\* do_fork links the child.
LEMMA ForkCore ==
  ASSUME Core, panicked = "no", NEW p \in Pids, current = p,
         NEW c \in UserPids, ForkSucceeds(p, c), UNCHANGED <<target, current>>
  PROVE  Core' /\ Len(proc_list') = Len(proc_list) + 1
<1>1. /\ p \in Linked /\ p \in Procs /\ p # idleproc
      /\ state[p] = "RUNNABLE"
  BY RunningProcess
<1>2. /\ c \in Pids /\ c \in Procs
      /\ c # initproc /\ c # idleproc /\ c # p
      /\ c \notin Linked
      /\ state[c] = "UNUSED" /\ wait_state[c] = "none"
  BY <1>1, ProcessNames
     DEF ForkSucceeds, Pids, Procs, Core, CoreType, Table, SleepersWait
<1>3. /\ state' = [q \in Procs |-> IF q = c THEN "RUNNABLE" ELSE state[q]]
      /\ wait_state' = wait_state
      /\ panicked' = panicked
  BY <1>2 DEF ForkSucceeds, Wakeup, WaitStateCleared, Core, CoreType
<1>4. /\ proc_list' \in Seq(Pids)
      /\ Len(proc_list') = Len(proc_list) + 1
      /\ Linked' = Linked \cup {c}
      /\ IsInjective(proc_list')
  BY <1>2, ConsSet DEF ForkSucceeds, Core, CoreType, Table, Linked
<1>5. \A q \in Procs : c \notin ToSet(children[q])
  BY <1>2 DEF Core, FamilyTree
<1>6. /\ children' = [children EXCEPT ![p] = <<c>> \o children[p]]
      /\ <<c>> \o children[p] \in Seq(Pids)
      /\ ToSet(<<c>> \o children[p]) = ToSet(children[p]) \cup {c}
      /\ IsInjective(<<c>> \o children[p])
  BY <1>1, <1>2, <1>5, ConsSet DEF ForkSucceeds, Core, CoreType, FamilyTree
<1>7. parent' = [parent EXCEPT ![c] = p]
  BY DEF ForkSucceeds
<1>8. CoreType'
  BY <1>1, <1>3, <1>4, <1>6, <1>7 DEF Core, CoreType, States
<1>9. Table' /\ Roots' /\ SleepersWait'
  BY <1>1, <1>2, <1>3, <1>4, <1>7, ProcessNames, LinkedArePids
     DEF Core, CoreType, Table, Roots, SleepersWait, Pids, Procs
<1>10. FamilyTree'
  <2>1. \A q \in Procs : /\ IsInjective(children'[q])
                         /\ ToSet(children'[q]) =
                              IF q = p THEN ToSet(children[q]) \cup {c}
                                       ELSE ToSet(children[q])
    <3> SUFFICES ASSUME NEW q \in Procs
                 PROVE  /\ IsInjective(children'[q])
                        /\ ToSet(children'[q]) =
                             IF q = p THEN ToSet(children[q]) \cup {c}
                                      ELSE ToSet(children[q])
      OBVIOUS
    <3>1. children' = [children EXCEPT ![p] = <<c>> \o children[p]]
          /\ DOMAIN children = Procs /\ IsInjective(children[q])
      BY <1>6 DEF Core, CoreType, FamilyTree
    <3>2. CASE q = p
      <4>1. children'[q] = <<c>> \o children[p]
        BY <3>1, <3>2
      <4>2. QED
        BY <1>6, <3>2, <4>1
    <3>3. CASE q # p
      <4>1. children'[q] = children[q]
        BY <3>1, <3>3
      <4>2. QED
        BY <3>1, <3>3, <4>1
    <3>4. QED
      BY <3>2, <3>3
  <2>2. \A d \in Pids, q \in Procs :
           d \in ToSet(children'[q]) <=> d \in Linked' /\ parent'[d] = q
    <3> SUFFICES ASSUME NEW d \in Pids, NEW q \in Procs
                 PROVE  d \in ToSet(children'[q])
                          <=> d \in Linked' /\ parent'[d] = q
      OBVIOUS
    <3>1. d \in Procs
      BY DEF Procs
    <3>2. CASE d = c
      <4>1. parent'[d] = p /\ d \in Linked'
        BY <3>1, <3>2, <1>4, <1>7 DEF Core, CoreType
      <4>2. QED
        BY <4>1, <3>2, <2>1, <1>5
    <3>3. CASE d # c
      <4>1. parent'[d] = parent[d]
        BY <3>1, <3>3, <1>7 DEF Core, CoreType
      <4>2. d \in ToSet(children[q]) <=> d \in Linked /\ parent[d] = q
        BY DEF Core, FamilyTree
      <4>3. QED
        BY <4>1, <4>2, <3>3, <2>1, <1>4
    <3>4. QED
      BY <3>2, <3>3
  <2>3. \A d \in Linked' \ {initproc} :
           parent'[d] \in Linked' /\ state'[parent'[d]] # "ZOMBIE"
    BY <1>1, <1>2, <1>3, <1>4, <1>7, LinkedArePids DEF Core, CoreType, FamilyTree
  <2>4. QED
    BY <2>1, <2>2, <2>3 DEF FamilyTree
<1>11. SleepersWaitForLiving'
  <2> SUFFICES ASSUME NEW q \in Linked', state'[q] = "SLEEPING"
               PROVE  /\ Wanted(q, target[q])' # {}
                      /\ \A d \in Wanted(q, target[q])' : state'[d] # "ZOMBIE"
    BY DEF SleepersWaitForLiving, Wanted
  <2>1. q \in Linked /\ q # p /\ q # c /\ state[q] = "SLEEPING"
    BY <1>1, <1>2, <1>3, <1>4, LinkedArePids DEF Core
  <2>2. Wanted(q, target[q])' = Wanted(q, target[q])
    BY <2>1, <1>2, <1>4, <1>7, LinkedArePids DEF Core, CoreType, Wanted
  <2>3. QED
    BY <2>1, <2>2, <1>2, <1>3, LinkedArePids
       DEF Core, CoreType, SleepersWaitForLiving, Wanted
<1>12. CurrentAlive'
  BY <1>1, <1>2, <1>3, <1>4 DEF Core, CoreType, CurrentAlive
<1>13. QED
  BY <1>4, <1>8, <1>9, <1>10, <1>11, <1>12 DEF Core

\* do_wait puts its caller to sleep, having found some living child it wants.
LEMMA SleepCore ==
  ASSUME Core, panicked = "no", NEW p \in Pids, current = p,
         NEW t \in Procs, WaitSleeps(p, t)
  PROVE  Core'
<1>1. /\ p \in Linked /\ p \in Procs /\ p # idleproc
      /\ state[p] = "RUNNABLE"
  BY RunningProcess
<1>2. /\ state' = [state EXCEPT ![p] = "SLEEPING"]
      /\ wait_state' = [wait_state EXCEPT ![p] = "WT_CHILD"]
      /\ target' = [target EXCEPT ![p] = t]
      /\ UNCHANGED links /\ panicked' = panicked
      /\ Linked' = Linked
  BY DEF WaitSleeps, Linked, links
<1>3. /\ Wanted(p, t) # {}
      /\ \A c \in Wanted(p, t) : state[c] # "ZOMBIE"
  <2>1. ToSet(Awaited(p, t)) = Wanted(p, t) /\ Awaited(p, t) \in Seq(Pids)
    BY <1>1, AwaitedAreWanted DEF Core
  <2>2. Awaited(p, t) # <<>> /\ Zombies(p, t) = {}
    BY DEF WaitSleeps, MaySleep
  <2>3. 1 \in DOMAIN Awaited(p, t)
    BY <2>1, <2>2
  <2>4. QED
    BY <2>1, <2>2, <2>3 DEF ToSet, Zombies
<1>4. CoreType' /\ Table' /\ Roots' /\ SleepersWait'
  <2>1. current' \in Procs
    <3>1. state'[idleproc] = "RUNNABLE"
      BY <1>1, <1>2 DEF Core, CoreType, Roots
    <3>2. QED
      BY <3>1, <1>1, ScheduleSound DEF WaitSleeps, Core, CoreType, Linked
  <2>2. QED
    BY <2>1, <1>1, <1>2, LinkedArePids
       DEF Core, CoreType, Table, Roots, SleepersWait, States, links, Procs
<1>5. FamilyTree'
  BY <1>1, <1>2, LinkedArePids DEF Core, CoreType, FamilyTree, links
<1>6. SleepersWaitForLiving'
  <2> SUFFICES ASSUME NEW q \in Linked, state'[q] = "SLEEPING"
               PROVE  /\ Wanted(q, target'[q]) # {}
                      /\ \A d \in Wanted(q, target'[q]) : state'[d] # "ZOMBIE"
    BY <1>2 DEF SleepersWaitForLiving, Wanted, links
  <2>1. \A d \in Linked : state'[d] = "ZOMBIE" => state[d] = "ZOMBIE"
    BY <1>1, <1>2, LinkedArePids DEF Core, CoreType
  <2>2. CASE q = p
    BY <2>1, <2>2, <1>1, <1>2, <1>3 DEF Core, CoreType, Wanted
  <2>3. CASE q # p
    BY <2>1, <2>3, <1>1, <1>2, LinkedArePids
       DEF Core, CoreType, SleepersWaitForLiving, Wanted
  <2>4. QED
    BY <2>2, <2>3
<1>7. CurrentAlive'
  <2>1. /\ current' \in Linked \cup {idleproc}
        /\ state'[current'] = "RUNNABLE"
    <3>1. state'[idleproc] = "RUNNABLE"
      BY <1>1, <1>2 DEF Core, CoreType, Roots
    <3>2. QED
      BY <3>1, <1>1, ScheduleSound DEF WaitSleeps, Core, CoreType, Linked
  <2>2. QED
    BY <2>1, <1>2, <1>4 DEF CurrentAlive, CoreType, SleepersWait
<1>8. QED
  BY <1>4, <1>5, <1>6, <1>7 DEF Core

\* do_wait unlinks the zombie child c; init_main then calls schedule().
LEMMA ReapCore ==
  ASSUME Core, panicked = "no", NEW p \in Pids, current = p,
         NEW c \in Linked, parent[c] = p, state[c] = "ZOMBIE", Reap(c),
         target' = [target EXCEPT ![p] = AnyChild],
         current' = current \/ Schedule(proc_list', state')
  PROVE  Core' /\ Len(proc_list') = Len(proc_list) - 1
<1>1. /\ p \in Linked /\ p \in Procs /\ p # idleproc
      /\ state[p] = "RUNNABLE"
  BY RunningProcess
<1>2. /\ c \in Pids /\ c \in Procs
      /\ c # initproc /\ c # idleproc /\ c # p
      /\ wait_state[c] = "none"
  BY <1>1, LinkedArePids DEF Core, CoreType, Roots, SleepersWait
<1>3. /\ state' = [state EXCEPT ![c] = "UNUSED"]
      /\ parent' = [parent EXCEPT ![c] = idleproc]
      /\ UNCHANGED <<wait_state, panicked>>
  BY DEF Reap
<1>4. /\ proc_list' \in Seq(Pids)
      /\ Len(proc_list') = Len(proc_list) - 1
      /\ Linked' = Linked \ {c}
      /\ IsInjective(proc_list')
  <2>1. /\ Position(proc_list, c) \in 1 .. Len(proc_list)
        /\ proc_list[Position(proc_list, c)] = c
    BY PositionOf DEF Core, CoreType, Linked
  <2>2. QED
    BY <2>1, RemoveSet DEF Reap, Core, CoreType, Table, Linked
<1>5. /\ children'[p] \in Seq(Pids)
      /\ IsInjective(children'[p])
      /\ ToSet(children'[p]) = ToSet(children[p]) \ {c}
      /\ children' = [children EXCEPT ![p] = children'[p]]
  <2> DEFINE k == Position(children[p], c)
  <2>1. c \in ToSet(children[p])
    BY <1>1, <1>2 DEF Core, FamilyTree
  <2>2. children[p] \in Seq(Pids) /\ IsInjective(children[p])
    BY <1>1 DEF Core, CoreType, FamilyTree
  <2>3. k \in 1 .. Len(children[p]) /\ children[p][k] = c
    BY <2>1, <2>2, PositionOf
  <2>4. children' = [children EXCEPT ![p] = RemoveAt(children[p], k)]
    BY DEF Reap
  <2>5. children'[p] = RemoveAt(children[p], k)
    BY <2>4, <1>1 DEF Core, CoreType
  <2> DEFINE r == RemoveAt(children[p], k)
  <2>6. /\ r \in Seq(Pids)
        /\ IsInjective(r)
        /\ ToSet(r) = ToSet(children[p]) \ {c}
    <3> HIDE DEF k
    <3> QED BY <2>2, <2>3, RemoveSet
  <2> HIDE DEF k, r
  <2>7. children'[p] = r /\ children' = [children EXCEPT ![p] = r]
    BY <2>4, <2>5 DEF r
  <2>8. QED
    BY <2>6, <2>7
<1>6. CoreType' /\ Table' /\ Roots' /\ SleepersWait'
  <2>1. current' \in Procs
    <3>1. state'[idleproc] = "RUNNABLE"
      BY <1>2, <1>3 DEF Core, CoreType, Roots, Procs
    <3>2. current \in Linked'
      BY <1>1, <1>2, <1>4
    <3>3. QED
      BY <1>1, <1>4, <3>1, <3>2, ScheduleSound DEF Linked
  <2>2. CoreType'
    <3>1. /\ children' \in [Procs -> Seq(Pids)]
          /\ state' \in [Procs -> States]
          /\ parent' \in [Procs -> Procs]
      BY <1>1, <1>3, <1>5 DEF Core, CoreType, States, Procs
    <3>2. /\ target' \in [Procs -> Procs]
          /\ wait_state' \in [Procs -> {"none", "WT_CHILD"}]
      BY <1>3 DEF Core, CoreType, AnyChild, Procs
    <3>3. QED
      BY <2>1, <1>4, <3>1, <3>2 DEF CoreType
  <2>3. Table' /\ Roots' /\ SleepersWait'
    BY <1>1, <1>2, <1>3, <1>4, LinkedArePids
       DEF Core, CoreType, Table, Roots, SleepersWait, Procs, Pids
  <2>4. QED
    BY <2>2, <2>3
<1>7. FamilyTree'
  <2>1. \A q \in Procs : /\ IsInjective(children'[q])
                         /\ ToSet(children'[q]) =
                              IF q = p THEN ToSet(children[q]) \ {c}
                                       ELSE ToSet(children[q])
    BY <1>1, <1>5 DEF Core, CoreType, FamilyTree
  <2>2. \A d \in Pids, q \in Procs :
           d \in ToSet(children'[q]) <=> d \in Linked' /\ parent'[d] = q
    <3> SUFFICES ASSUME NEW d \in Pids, NEW q \in Procs
                 PROVE  d \in ToSet(children'[q])
                          <=> d \in Linked' /\ parent'[d] = q
      OBVIOUS
    <3>1. d \in ToSet(children[q]) <=> d \in Linked /\ parent[d] = q
      BY DEF Core, FamilyTree
    <3>2. CASE d = c
      BY <3>1, <3>2, <2>1, <1>4
    <3>3. CASE d # c
      <4>1. parent'[d] = parent[d]
        BY <3>3, <1>3 DEF Core, CoreType, Procs
      <4>2. QED
        BY <4>1, <3>1, <3>3, <2>1, <1>4
    <3>4. QED
      BY <3>2, <3>3
  <2>3. \A d \in Linked' \ {initproc} :
           parent'[d] \in Linked' /\ state'[parent'[d]] # "ZOMBIE"
    <3> SUFFICES ASSUME NEW d \in Linked \ {initproc}, d # c
                 PROVE  parent'[d] \in Linked' /\ state'[parent'[d]] # "ZOMBIE"
      BY <1>4
    <3>1. /\ d \in Procs
          /\ parent[d] \in Linked
          /\ parent[d] \in Procs
          /\ state[parent[d]] # "ZOMBIE"
      BY LinkedArePids DEF Core, FamilyTree
    <3>2. parent'[d] = parent[d] /\ parent[d] # c
      BY <3>1, <1>3 DEF Core, CoreType
    <3>3. QED
      BY <3>1, <3>2, <1>3, <1>4 DEF Core, CoreType
  <2>4. QED
    BY <2>1, <2>2, <2>3 DEF FamilyTree
<1>8. SleepersWaitForLiving'
  <2> SUFFICES ASSUME NEW q \in Linked', state'[q] = "SLEEPING"
               PROVE  /\ Wanted(q, target[q])' # {}
                      /\ \A d \in Wanted(q, target[q])' : state'[d] # "ZOMBIE"
    BY DEF SleepersWaitForLiving, Wanted
  <2>1. /\ q \in Linked /\ q # p /\ q # c /\ q \in Procs
        /\ state[q] = "SLEEPING" /\ target'[q] = target[q]
    BY <1>1, <1>3, <1>4, LinkedArePids DEF Core, CoreType
  <2>2. \A d \in Linked \ {c} : /\ d \in Procs
                                /\ parent'[d] = parent[d]
                                /\ state'[d] = state[d]
    BY <1>3, LinkedArePids DEF Core, CoreType
  <2>3. Wanted(q, target[q])' = Wanted(q, target[q])
    BY <2>1, <2>2, <1>4 DEF Wanted
  <2>4. c \notin Wanted(q, target[q])
    BY <2>1 DEF Wanted
  <2>5. QED
    BY <2>1, <2>2, <2>3, <2>4 DEF Core, SleepersWaitForLiving, Wanted
<1>9. CurrentAlive'
  <2>1. /\ current' \in Linked' \cup {idleproc}
        /\ state'[current'] = "RUNNABLE"
    <3>1. state'[idleproc] = "RUNNABLE"
      BY <1>2, <1>3 DEF Core, CoreType, Roots, Procs
    <3>2. current \in Linked' /\ state'[current] = "RUNNABLE"
      BY <1>1, <1>2, <1>3, <1>4 DEF Core, CoreType
    <3>3. QED
      BY <1>4, <3>1, <3>2, ScheduleSound DEF Linked
  <2>2. QED
    BY <2>1, <1>6 DEF CurrentAlive, CoreType, SleepersWait
<1>10. QED
  BY <1>4, <1>6, <1>7, <1>8, <1>9 DEF Core

\* do_exit: everybody who must learn of it is woken, the children get a parent
\* that lives, and who runs next is alive.
LEMMA ExitCore ==
  ASSUME Core, panicked = "no", NEW p \in UserPids, current = p,
         NEW taken, NEW freed, DoExit(p, taken, freed)
  PROVE  Core' /\ proc_list' = proc_list
<1>1. /\ p \in Pids /\ p \in Linked /\ p \in Procs
      /\ p # idleproc /\ p # initproc
      /\ state[p] = "RUNNABLE"
  BY RunningProcess, ProcessNames DEF Pids
<1> DEFINE W == ExitWakes(p)
           K == ToSet(children[p])
<1>2. /\ W \subseteq Procs /\ initproc \in Procs
      /\ \A w \in W : state[w] = "SLEEPING"
      /\ p \notin W
      /\ state[parent[p]] = "SLEEPING" => parent[p] \in W
      /\ \A c \in K : state[c] = "ZOMBIE" /\ state[initproc] = "SLEEPING" =>
                       initproc \in W
  BY <1>1 DEF ExitWakes, Core, CoreType, SleepersWait, Pids, Procs
<1>3. /\ state' = [q \in Procs |-> IF q = p THEN "ZOMBIE"
                                    ELSE IF q \in W THEN "RUNNABLE"
                                                     ELSE state[q]]
      /\ wait_state' = [q \in Procs |-> IF q \in W THEN "none"
                                                     ELSE wait_state[q]]
  <2> HIDE DEF W
  <2>1. Wakeup(W, [state EXCEPT ![p] = "ZOMBIE"])
    BY <1>1 DEF DoExit, W
  <2>2. [state EXCEPT ![p] = "ZOMBIE"]
          = [q \in Procs |-> IF q = p THEN "ZOMBIE" ELSE state[q]]
    BY <1>1 DEF Core, CoreType
  <2>3. \A q \in W : /\ q \in Procs
                     /\ q # p
                     /\ [state EXCEPT ![p] = "ZOMBIE"][q] = "SLEEPING"
    BY <1>2, <2>2
  <2>4. {q \in W : [state EXCEPT ![p] = "ZOMBIE"][q] \notin {"RUNNABLE", "ZOMBIE"}}
          = W
    BY <2>3
  <2>5. QED
    BY <2>1, <2>2, <2>3, <2>4 DEF Wakeup, WaitStateCleared
<1>4. /\ proc_list' = proc_list /\ Linked' = Linked
      /\ parent' = [c \in Procs |-> IF c \in K THEN initproc ELSE parent[c]]
      /\ children' = [children EXCEPT
                        ![p] = <<>>,
                        ![initproc] = Reverse(children[p]) \o children[initproc]]
      /\ target' = [target EXCEPT ![p] = AnyChild]
      /\ Schedule(proc_list, state')
  BY <1>1 DEF DoExit, Reparent, Linked, Core, CoreType
<1>5. \A c \in K : c \in Pids /\ c \in Linked /\ parent[c] = p /\ c # p /\ c # initproc
  <2>1. K \subseteq Pids
    BY <1>1 DEF Core, CoreType, ToSet
  <2>2. QED
    BY <2>1, <1>1 DEF Core, FamilyTree, Table, Roots
<1>6. \A c \in Linked \ K : parent[c] # p
  BY <1>1, LinkedArePids DEF Core, FamilyTree
<1> HIDE DEF W, K
<1>7. /\ state'[idleproc] = "RUNNABLE"
      /\ state' \in [Procs -> States]
      /\ wait_state' \in [Procs -> {"none", "WT_CHILD"}]
  BY <1>1, <1>2, <1>3 DEF Core, CoreType, Roots, States, Procs
<1>8. /\ current' \in Procs
      /\ current' \in Linked \cup {idleproc}
      /\ state'[current'] = "RUNNABLE"
  BY <1>1, <1>4, <1>7, ScheduleSound DEF Core, CoreType, Linked
<1>9. \A q \in Procs :
         /\ IsInjective(children'[q])
         /\ children'[q] \in Seq(Pids)
         /\ q = p => ToSet(children'[q]) = {}
         /\ q = initproc => ToSet(children'[q]) = ToSet(children[q]) \cup K
         /\ q # p /\ q # initproc => ToSet(children'[q]) = ToSet(children[q])
  <2>1. /\ children[p] \in Seq(Pids) /\ IsInjective(children[p])
        /\ children[initproc] \in Seq(Pids) /\ IsInjective(children[initproc])
    BY <1>1, <1>2 DEF Core, CoreType, FamilyTree
  <2>2. ToSet(children[p]) \cap ToSet(children[initproc]) = {}
    BY <1>1, <1>2, <1>5 DEF K, Core, FamilyTree
  <2> DEFINE r == Reverse(children[p]) \o children[initproc]
  <2>3. /\ r \in Seq(Pids)
        /\ IsInjective(r)
        /\ ToSet(r) = K \cup ToSet(children[initproc])
    BY <2>1, <2>2, ReverseConcatSet DEF K
  <2>4. /\ <<>> \in Seq(Pids)
        /\ IsInjective(<<>>)
        /\ ToSet(<<>>) = {}
    BY DEF IsInjective, ToSet
  <2>5. /\ children'[p] = <<>>
        /\ children'[initproc] = r
        /\ \A q \in Procs : q # p /\ q # initproc => children'[q] = children[q]
    BY <1>1, <1>2, <1>4 DEF Core, CoreType
  <2> HIDE DEF r
  <2>6. \A q \in Procs : children[q] \in Seq(Pids) /\ IsInjective(children[q])
    BY DEF Core, CoreType, FamilyTree
  <2>7. QED
    <3> SUFFICES ASSUME NEW q \in Procs
                 PROVE  /\ IsInjective(children'[q])
                        /\ children'[q] \in Seq(Pids)
                        /\ q = p => ToSet(children'[q]) = {}
                        /\ q = initproc =>
                             ToSet(children'[q]) = ToSet(children[q]) \cup K
                        /\ q # p /\ q # initproc =>
                             ToSet(children'[q]) = ToSet(children[q])
      OBVIOUS
    <3>1. CASE q = p
      BY <3>1, <2>4, <2>5, <1>1
    <3>2. CASE q = initproc
      BY <3>2, <2>3, <2>5, <1>1
    <3>3. CASE q # p /\ q # initproc
      BY <3>3, <2>5, <2>6
    <3>4. QED
      BY <3>1, <3>2, <3>3
<1>10. CoreType'
  <2>1. children' \in [Procs -> Seq(Pids)]
    <3>1. DOMAIN children' = Procs /\ children' = [q \in Procs |-> children'[q]]
      BY <1>4 DEF Core, CoreType
    <3>2. QED
      BY <3>1, <1>9
  <2>2. /\ parent' \in [Procs -> Procs]
        /\ target' \in [Procs -> Procs]
    BY <1>2, <1>4 DEF Core, CoreType, AnyChild, Procs
  <2>3. QED
    BY <2>1, <2>2, <1>4, <1>7, <1>8 DEF Core, CoreType
<1>11. Table' /\ Roots' /\ SleepersWait'
  <2>1. Table'
    BY <1>1, <1>2, <1>3, <1>4, <1>5, LinkedArePids DEF Core, CoreType, Table
  <2>2. Roots'
    BY <1>1, <1>2, <1>3, <1>4, <1>5, <1>7 DEF Core, CoreType, Roots
  <2>3. SleepersWait'
    BY <1>1, <1>2, <1>3 DEF Core, CoreType, SleepersWait
  <2>4. QED
    BY <2>1, <2>2, <2>3
<1>12. FamilyTree'
  <2>1. \A d \in Pids, q \in Procs :
           d \in ToSet(children'[q]) <=> d \in Linked' /\ parent'[d] = q
    <3> SUFFICES ASSUME NEW d \in Pids, NEW q \in Procs
                 PROVE  d \in ToSet(children'[q])
                          <=> d \in Linked' /\ parent'[d] = q
      OBVIOUS
    <3>1. d \in ToSet(children[q]) <=> d \in Linked /\ parent[d] = q
      BY DEF Core, FamilyTree
    <3>2. CASE d \in K
      <4>1. parent'[d] = initproc /\ d \in Linked' /\ parent[d] = p
        BY <3>2, <1>4, <1>5 DEF Procs
      <4>2. QED
        BY <4>1, <3>1, <3>2, <1>1, <1>2, <1>9
    <3>3. CASE d \notin K
      <4>1. parent'[d] = parent[d] /\ (d \in Linked => parent[d] # p)
        BY <3>3, <1>4, <1>6 DEF Procs
      <4>2. CASE q = p
        BY <4>1, <4>2, <3>1, <1>4, <1>9
      <4>3. CASE q # p
        <5>1. d \in ToSet(children'[q]) <=> d \in ToSet(children[q])
          BY <4>3, <3>3, <1>9
        <5>2. QED
          BY <5>1, <4>1, <3>1, <1>4
      <4>4. QED
        BY <4>2, <4>3
    <3>4. QED
      BY <3>2, <3>3
  <2>2. \A d \in Linked' \ {initproc} :
           parent'[d] \in Linked' /\ state'[parent'[d]] # "ZOMBIE"
    <3> SUFFICES ASSUME NEW d \in Linked \ {initproc}
                 PROVE  parent'[d] \in Linked /\ state'[parent'[d]] # "ZOMBIE"
      BY <1>4
    <3>1. d \in Procs
      BY LinkedArePids DEF Core
    <3>2. CASE d \in K
      <4>1. parent'[d] = initproc
        BY <3>1, <3>2, <1>4
      <4>2. QED
        BY <4>1, <1>1, <1>2, <1>3 DEF Core, Roots
    <3>3. CASE d \notin K
      <4>1. parent'[d] = parent[d] /\ parent[d] # p
        BY <3>1, <3>3, <1>4, <1>6
      <4>2. parent[d] \in Linked /\ state[parent[d]] # "ZOMBIE"
        BY DEF Core, FamilyTree
      <4>3. parent[d] \in Procs
        BY <3>1 DEF Core, CoreType
      <4>4. QED
        BY <4>1, <4>2, <4>3, <1>3
    <3>4. QED
      BY <3>2, <3>3
  <2>3. QED
    BY <2>1, <2>2, <1>9 DEF FamilyTree
<1>13. SleepersWaitForLiving'
  <2> SUFFICES ASSUME NEW q \in Linked, state'[q] = "SLEEPING"
               PROVE  /\ Wanted(q, target[q])' # {}
                      /\ \A d \in Wanted(q, target[q])' : state'[d] # "ZOMBIE"
    BY <1>4 DEF SleepersWaitForLiving, Wanted
  <2>1. /\ q \in Procs /\ q # p /\ q \notin W
        /\ state[q] = "SLEEPING" /\ target'[q] = target[q]
        /\ q # parent[p]
    BY <1>1, <1>2, <1>3, <1>4, LinkedArePids DEF Core, CoreType
  <2>2. /\ Wanted(q, target[q]) # {}
        /\ \A d \in Wanted(q, target[q]) : state[d] # "ZOMBIE"
    BY <2>1 DEF Core, SleepersWaitForLiving
  <2>3. \A d \in Linked : /\ d \in Procs
                          /\ state'[d] = "ZOMBIE" => d = p \/ state[d] = "ZOMBIE"
    BY <1>3, LinkedArePids DEF Core
  <2>4. p \notin K
    BY <1>5
  <2>5. ASSUME NEW d \in Wanted(q, target[q])
        PROVE  d \in Wanted(q, target[q])' /\ state'[d] # "ZOMBIE"
    <3>1. d \in Linked /\ parent[d] = q
      BY DEF Wanted
    <3>2. d # p /\ d \notin K
      BY <3>1, <2>1, <1>5
    <3>3. parent'[d] = q
      BY <3>1, <3>2, <2>3, <1>4
    <3>4. QED
      BY <3>1, <3>2, <3>3, <2>1, <2>2, <2>3, <1>4 DEF Wanted
  <2>6. ASSUME NEW d \in Wanted(q, target[q])', d \notin Wanted(q, target[q])
        PROVE  state'[d] # "ZOMBIE"
    <3>1. d \in Linked /\ parent'[d] = q /\ parent[d] # q
      BY <2>1, <2>6, <1>4 DEF Wanted
    <3>2. d \in K /\ q = initproc
      BY <3>1, <2>3, <1>4
    <3>3. state[d] # "ZOMBIE"
      BY <3>2, <2>1, <1>2 DEF K, W
    <3>4. QED
      BY <3>1, <3>2, <3>3, <2>3, <2>4
  <2>7. QED
    BY <2>2, <2>5, <2>6
<1>14. CurrentAlive'
  BY <1>4, <1>8, <1>10, <1>11 DEF CurrentAlive, CoreType, SleepersWait
<1>15. QED
  BY <1>4, <1>10, <1>11, <1>12, <1>13, <1>14 DEF Core

-----------------------------------------------------------------------------
\* The handlers, each with all it changes.
LEMMA ScheduleFlags ==
  ASSUME RestType, NEW list, NEW st, Schedule(list, st)
  PROVE  need_resched' \in [Procs -> BOOLEAN]
BY DEF RestType, Schedule

LEMMA ChargeType ==
  ASSUME NEW taken, NEW freed, RestType, Charge(taken, freed)
  PROVE  used' \in [Resources -> Int]
BY DEF Charge, One, RestType

LEMMA PanicInv ==
  ASSUME IInv, NEW why, why # "no", Panic(why)
  PROVE  IInv'
<1>1. Core'
  BY SameCore DEF IInv, Panic, links
<1>2. RestType'
  BY DEF IInv, RestType, Panic, links, fields, nr_process
<1>3. QED
  BY <1>1, <1>2 DEF IInv

LEMMA ExitInv ==
  ASSUME IInv, panicked = "no", NEW p \in UserPids, current = p,
         NEW taken, NEW freed, DoExit(p, taken, freed)
  PROVE  IInv'
<1>1. Core' /\ proc_list' = proc_list
  BY ExitCore DEF IInv
<1>2. p # initproc /\ p \in Procs
  BY ProcessNames DEF Procs, Pids
<1>3. /\ mm' = [mm EXCEPT ![p] = FALSE]
      /\ pc' = [pc EXCEPT ![p] = "none"]
      /\ Schedule(proc_list, state')
      /\ exiting' = exiting
      /\ used' = [r \in Resources |-> used[r] + One(r, taken) - One(r, freed)
                                             - One(r, Memory(p))]
  BY <1>2 DEF DoExit, Goto
<1>4. need_resched' \in [Procs -> BOOLEAN]
  BY <1>3, ScheduleFlags DEF IInv
<1>5. used' \in [Resources -> Int]
  BY <1>3 DEF One, IInv, RestType
<1>6. QED
  BY <1>1, <1>3, <1>4, <1>5 DEF IInv, RestType, nr_process, Places

\* The zombie do_wait finds is a linked child of its caller.
LEMMA WaitFindsChild ==
  ASSUME Core, NEW p \in Procs, NEW t \in Procs, WaitFinds(p, t)
  PROVE  \E c \in Linked : /\ parent[c] = p /\ state[c] = "ZOMBIE"
                          /\ Reap(c)
                          /\ target' = [target EXCEPT ![p] = AnyChild]
<1> DEFINE s == Awaited(p, t)
           c == s[Min(Zombies(p, t))]
<1>1. s \in Seq(Pids) /\ ToSet(s) = Wanted(p, t)
  BY AwaitedAreWanted DEF Core
<1>2. DOMAIN s = 1 .. Len(s) /\ Len(s) \in Nat
  BY <1>1
<1>3. Min(Zombies(p, t)) \in Zombies(p, t)
  <2>1. Zombies(p, t) \subseteq DOMAIN s /\ Zombies(p, t) # {}
    BY DEF Zombies, WaitFinds
  <2>2. Zombies(p, t) \subseteq Nat
    <3> HIDE DEF s
    <3> QED BY <2>1, <1>2
  <2>3. QED
    BY <2>1, <2>2, MinInSet
<1>4. c \in ToSet(s) /\ state[c] = "ZOMBIE"
  BY <1>3 DEF Zombies, ToSet
<1>5. Reap(c) /\ target' = [target EXCEPT ![p] = AnyChild]
  BY DEF WaitFinds
<1>6. QED
  BY <1>1, <1>4, <1>5 DEF Wanted

LEMMA ReapInv ==
  ASSUME IInv, panicked = "no", NEW p \in Pids, current = p, NEW t \in Procs,
         WaitFinds(p, t), NEW place \in Places, Goto(p, place),
         \/ UNCHANGED <<need_resched, current>>
         \/ Schedule(proc_list', state')
  PROVE  IInv'
<1>1. p \in Procs
  BY DEF Procs
<1>2. PICK c \in Linked : /\ parent[c] = p /\ state[c] = "ZOMBIE"
                          /\ Reap(c)
                          /\ target' = [target EXCEPT ![p] = AnyChild]
  BY <1>1, WaitFindsChild DEF IInv
<1>3. Core' /\ Len(proc_list') = Len(proc_list) - 1
  BY <1>2, ReapCore DEF IInv
<1>4. used' \in [Resources -> Int]
  BY <1>2, ChargeType DEF Reap, IInv
<1>5. need_resched' \in [Procs -> BOOLEAN]
  BY ScheduleFlags DEF IInv, RestType
<1>6. Len(proc_list) \in Nat /\ MAX_PROCESS \in Nat
  BY RoomForInit DEF IInv, Core, CoreType
<1>7. nr_process' <= MAX_PROCESS
  BY <1>3, <1>6 DEF IInv, RestType, nr_process
<1>8. /\ exiting' \in [Procs -> BOOLEAN]
      /\ mm' \in [Procs -> BOOLEAN]
      /\ pc' \in [Procs -> Places]
  BY <1>2 DEF Reap, Goto, IInv, RestType
<1>9. QED
  BY <1>3, <1>4, <1>5, <1>7, <1>8 DEF IInv, RestType

LEMMA SleepInv ==
  ASSUME IInv, panicked = "no", NEW p \in Pids, current = p, NEW t \in Procs,
         WaitSleeps(p, t)
  PROVE  IInv'
<1>1. Core'
  BY SleepCore DEF IInv
<1>2. need_resched' \in [Procs -> BOOLEAN]
  BY ScheduleFlags DEF WaitSleeps, IInv
<1>3. QED
  BY <1>1, <1>2 DEF WaitSleeps, IInv, RestType, Goto, Places, nr_process,
                    links, fields

LEMMA UserWaitInv ==
  ASSUME IInv, panicked = "no", NEW p \in UserPids, current = p,
         NEW t \in Procs, UserWait(p, t)
  PROVE  IInv'
<1>1. p \in Pids
  BY DEF Pids
<1>2. CASE /\ WaitFinds(p, t)
           /\ Goto(p, "trapret")
           /\ UNCHANGED <<need_resched, current>>
  BY <1>1, <1>2, ReapInv DEF Places
<1>3. CASE WaitSleeps(p, t)
  BY <1>1, <1>3, SleepInv
<1>4. CASE /\ Goto(p, "trapret")
           /\ target' = [target EXCEPT ![p] = AnyChild]
           /\ UNCHANGED <<links, fields, state, wait_state, need_resched,
                          current, used, panicked>>
  <2>1. /\ p \in Linked /\ p \in Procs /\ p # idleproc
        /\ state[p] = "RUNNABLE"
    BY <1>1, RunningProcess DEF IInv
  <2>2. CoreType'
    BY <1>4 DEF IInv, Core, CoreType, AnyChild, Procs, links
  <2>3. SleepersWaitForLiving'
    <3> SUFFICES ASSUME NEW q \in Linked, state[q] = "SLEEPING"
                 PROVE  /\ Wanted(q, target[q])' # {}
                        /\ \A d \in Wanted(q, target[q])' : state[d] # "ZOMBIE"
      BY <1>4 DEF SleepersWaitForLiving, Wanted, Linked, links
    <3>1. q # p /\ q \in Procs
      BY <2>1, LinkedArePids DEF IInv, Core
    <3>2. Wanted(q, target[q])' = Wanted(q, target[q])
      BY <3>1, <1>4 DEF IInv, Core, CoreType, Wanted, Linked, links
    <3>3. QED
      BY <3>2 DEF IInv, Core, SleepersWaitForLiving
  <2>4. Table' /\ Roots' /\ SleepersWait' /\ FamilyTree' /\ CurrentAlive'
    BY <1>4 DEF IInv, Core, Table, Roots, SleepersWait, FamilyTree,
                CurrentAlive, Linked, links
  <2>5. RestType'
    BY <1>4 DEF IInv, RestType, Goto, Places, nr_process, links, fields
  <2>6. QED
    BY <2>2, <2>3, <2>4, <2>5 DEF IInv, Core
<1>5. QED
  BY <1>2, <1>3, <1>4 DEF UserWait

LEMMA ForkInv ==
  ASSUME IInv, panicked = "no", NEW p \in Pids, current = p,
         NEW c \in UserPids, ForkSucceeds(p, c),
         NEW place1 \in Places, NEW place2 \in Places,
         pc' = [pc EXCEPT ![p] = place1, ![c] = place2],
         UNCHANGED <<exiting, need_resched, target, current>>
  PROVE  IInv'
<1>1. Core' /\ Len(proc_list') = Len(proc_list) + 1
  BY ForkCore DEF IInv
<1>2. used' \in [Resources -> Int]
  BY ChargeType DEF ForkSucceeds, IInv
<1>3. p \in Procs /\ mm[p] \in BOOLEAN
  BY DEF Procs, IInv, RestType
<1>4. mm' \in [Procs -> BOOLEAN]
  BY <1>3 DEF ForkSucceeds, IInv, RestType
<1>5. nr_process' <= MAX_PROCESS
  BY <1>1, RoomForInit
     DEF ForkSucceeds, RoomToFork, nr_process, IInv, Core, CoreType
<1>6. QED
  BY <1>1, <1>2, <1>4, <1>5 DEF IInv, RestType

\* Steps of the running process that only move it on.
LEMMA MoveInv ==
  ASSUME IInv, UNCHANGED <<links, exiting, state, wait_state, target, current>>,
         panicked' = panicked, mm' \in [Procs -> BOOLEAN],
         used' \in [Resources -> Int], need_resched' \in [Procs -> BOOLEAN],
         pc' \in [Procs -> Places]
  PROVE  IInv'
<1>1. Core'
  BY SameCore DEF IInv
<1>2. QED
  BY <1>1 DEF IInv, RestType, nr_process, links

-----------------------------------------------------------------------------
LEMMA InitInv == Init => IInv
<1> SUFFICES ASSUME Init PROVE IInv
  OBVIOUS
<1> USE ProcessNames DEF Init
<1>1. /\ Linked = {initproc}
      /\ proc_list \in Seq(Pids)
      /\ IsInjective(proc_list)
      /\ Len(proc_list) = 1
  BY DEF Linked, ToSet, IsInjective, Pids
<1>2. CoreType /\ Table /\ Roots /\ SleepersWait
  <2>1. children \in [Procs -> Seq(Pids)]
    <3>1. <<initproc>> \in Seq(Pids) /\ <<>> \in Seq(Pids)
      BY DEF Pids
    <3>2. children = [p \in Procs |-> IF p = idleproc THEN <<initproc>> ELSE <<>>]
      OBVIOUS
    <3>3. \A p \in Procs : children[p] \in Seq(Pids)
      BY <3>1, <3>2
    <3>4. QED
      BY <3>2, <3>3
  <2>2. QED
    BY <1>1, <2>1 DEF CoreType, Table, Roots, SleepersWait, States, AnyChild,
                      Pids, Procs
<1>3. FamilyTree
  <2>1. /\ ToSet(<<>>) = {} /\ IsInjective(<<>>)
        /\ ToSet(<<initproc>>) = {initproc} /\ IsInjective(<<initproc>>)
    BY DEF ToSet, IsInjective
  <2>2. QED
    BY <1>1, <2>1 DEF FamilyTree, Pids, Procs
<1>4. SleepersWaitForLiving /\ CurrentAlive
  BY <1>1 DEF SleepersWaitForLiving, CurrentAlive, Pids, Procs
<1>5. RestType
  BY <1>1, RoomForInit DEF RestType, nr_process, Places, Pids, Procs
<1>6. QED
  BY <1>2, <1>3, <1>4, <1>5 DEF IInv, Core

\* Every system call and trap of a user process keeps the invariant.
LEMMA UserStepInv ==
  ASSUME IInv, NEW p \in UserPids, UserStep(p)
  PROVE  IInv'
<1>1. p \in Pids /\ p \in Procs /\ p # initproc
  BY ProcessNames DEF Pids, Procs
<1>2. panicked = "no" /\ current = p
  BY DEF UserStep, SysFork, SysForkNoPage, SysExit, SysWait, SysYield, SysKill,
         SysExec, TrapNoEffect, TrapUnhandled, TrapPanics, At
<1>3. CASE SysFork(p)
  <2>1. CASE /\ ForkFails(p)
             /\ Goto(p, "trapret")
             /\ UNCHANGED <<links, fields, state, wait_state, panicked>>
             /\ UNCHANGED <<need_resched, target, current>>
    <3>1. used' \in [Resources -> Int]
      BY <2>1, ChargeType DEF ForkFails, IInv
    <3>2. QED
      BY <2>1, <3>1, MoveInv DEF IInv, RestType, Goto, Places, fields
  <2>2. ASSUME NEW c \in UserPids, ForkSucceeds(p, c),
               pc' = [pc EXCEPT ![p] = "trapret", ![c] = "user"],
               UNCHANGED <<exiting, need_resched, target, current>>
        PROVE  IInv'
    BY <2>2, <1>1, <1>2, ForkInv DEF Places
  <2>3. QED
    BY <1>3, <2>1, <2>2 DEF SysFork
<1>4. CASE SysForkNoPage(p) \/ TrapPanics(p)
  BY <1>4, PanicInv DEF SysForkNoPage, TrapPanics
<1>5. CASE SysExit(p) \/ TrapUnhandled(p)
  BY <1>2, <1>5, ExitInv DEF SysExit, TrapUnhandled
<1>6. CASE SysWait(p)
  BY <1>2, <1>6, UserWaitInv DEF SysWait, AnyChild, Procs
<1>7. CASE SysYield(p) \/ TrapNoEffect(p)
  BY <1>7, MoveInv
     DEF SysYield, TrapNoEffect, Goto, IInv, RestType, Places, fields
<1>8. CASE SysKill(p)
  <2>1. PICK q \in Linked :
           /\ exiting' = [exiting EXCEPT ![q] = TRUE]
           /\ Wakeup(IF wait_state[q] = "WT_CHILD" THEN {q} ELSE {}, state)
    BY <1>8 DEF SysKill
  <2>2. UNCHANGED <<links, mm, need_resched, target, current, used>>
    BY <1>8 DEF SysKill
  <2>3. Core'
    BY <1>2, <2>1, <2>2, KillCore DEF IInv
  <2>4. QED
    BY <1>8, <2>1, <2>2, <2>3
       DEF SysKill, Goto, IInv, RestType, Places, nr_process, links
<1>9. CASE SysExec(p)
  <2>1. CASE Execve(p, "trapret")
    <3>1. CASE /\ mm' = [mm EXCEPT ![p] = TRUE]
               /\ Charge(MemResources, Memory(p))
               /\ Goto(p, "trapret")
               /\ UNCHANGED <<links, exiting, state, wait_state, need_resched,
                              target, current, panicked>>
      <4>1. used' \in [Resources -> Int]
        BY <3>1, ChargeType DEF IInv
      <4>2. QED
        BY <3>1, <4>1, MoveInv DEF IInv, RestType, Goto, Places
    <3>2. ASSUME NEW stage \in LoadStages,
                 DoExit(p, LoadAcquired(stage), LoadCleanup(stage))
          PROVE  IInv'
      BY <3>2, <1>2, ExitInv
    <3>3. CASE Panic("no page")
      BY <3>3, PanicInv
    <3>4. QED
      BY <2>1, <3>1, <3>2, <3>3 DEF Execve
  <2>2. QED
    BY <1>9, <2>1 DEF SysExec
<1>10. QED
  BY <1>3, <1>4, <1>5, <1>6, <1>7, <1>8, <1>9 DEF UserStep

\* So does the kernel code that other processes, init and idle run.
LEMMA KernelStepInv ==
  ASSUME IInv, KernelStep
  PROVE  IInv'
<1>1. ASSUME NEW p \in UserPids, UserMain(p)
      PROVE  IInv'
  <2>1. panicked = "no" /\ current = p /\ Execve(p, "user")
    BY <1>1 DEF UserMain, At
  <2>2. CASE /\ mm' = [mm EXCEPT ![p] = TRUE]
             /\ Charge(MemResources, Memory(p))
             /\ Goto(p, "user")
             /\ UNCHANGED <<links, exiting, state, wait_state, need_resched,
                            target, current, panicked>>
    <3>1. used' \in [Resources -> Int]
      BY <2>2, ChargeType DEF IInv
    <3>2. QED
      BY <2>2, <3>1, MoveInv DEF IInv, RestType, Goto, Places
  <2>3. ASSUME NEW stage \in LoadStages,
               DoExit(p, LoadAcquired(stage), LoadCleanup(stage))
        PROVE  IInv'
    BY <2>1, <2>3, ExitInv
  <2>4. CASE Panic("no page")
    BY <2>4, PanicInv
  <2>5. QED
    BY <2>1, <2>2, <2>3, <2>4 DEF Execve
<1>2. ASSUME NEW p \in UserPids, TrapReturn(p)
      PROVE  IInv'
  <2>1. panicked = "no" /\ current = p
    BY <1>2 DEF TrapReturn, At
  <2>2. CASE DoExit(p, {}, {})
    BY <2>1, <2>2, ExitInv
  <2>3. CASE ReturnToUser(p)
    <3>1. need_resched' \in [Procs -> BOOLEAN]
      BY <2>3, ScheduleFlags DEF ReturnToUser, IInv, RestType
    <3>2. Core'
      BY <2>1, <2>3, SwitchCore, SameCore DEF ReturnToUser, IInv, links
    <3>3. QED
      BY <2>3, <3>1, <3>2
         DEF ReturnToUser, IInv, RestType, Goto, Places, nr_process, links, fields
  <2>4. QED
    BY <1>2, <2>2, <2>3 DEF TrapReturn
<1>3. ASSUME NEW p \in UserPids, WaitResumes(p)
      PROVE  IInv'
  <2>1. panicked = "no" /\ current = p /\ target[p] \in Procs
    BY <1>3 DEF WaitResumes, At, IInv, Core, CoreType, Pids, Procs
  <2>2. QED
    BY <1>3, <2>1, ExitInv, UserWaitInv DEF WaitResumes
<1>4. CASE InitStarts
  <2>1. panicked = "no" /\ current = initproc /\ initproc \in Pids
    BY <1>4 DEF InitStarts, At, Pids
  <2>2. CASE Panic("create user_main failed")
    BY <2>2, PanicInv
  <2>3. ASSUME NEW c \in UserPids, ForkSucceeds(initproc, c),
               pc' = [pc EXCEPT ![initproc] = "reap", ![c] = "exec"],
               UNCHANGED <<exiting, need_resched, target, current>>
        PROVE  IInv'
    BY <2>1, <2>3, ForkInv DEF Places
  <2>4. QED
    BY <1>4, <2>2, <2>3 DEF InitStarts
<1>5. CASE InitWaits
  <2>1. /\ panicked = "no" /\ current = initproc
        /\ initproc \in Pids /\ AnyChild \in Procs
    BY <1>5 DEF InitWaits, At, AnyChild, Pids, Procs
  <2>2. CASE DoExit(initproc, {}, {})
    BY <2>2, PanicInv DEF DoExit
  <2>3. CASE /\ WaitFinds(initproc, AnyChild)
             /\ Goto(initproc, "reap")
             /\ Schedule(proc_list', state')
    BY <2>1, <2>3, ReapInv DEF Places
  <2>4. CASE WaitSleeps(initproc, AnyChild)
    BY <2>1, <2>4, SleepInv
  <2>5. CASE Panic("init check failed")
    BY <2>5, PanicInv
  <2>6. QED
    BY <1>5, <2>2, <2>3, <2>4, <2>5 DEF InitWaits
<1>6. CASE IdleYields
  <2>1. Core'
    BY <1>6, SwitchCore DEF IdleYields, At, IInv, links
  <2>2. need_resched' \in [Procs -> BOOLEAN]
    BY <1>6, ScheduleFlags DEF IdleYields, IInv
  <2>3. QED
    BY <1>6, <2>1, <2>2 DEF IdleYields, IInv, RestType, nr_process, links, fields
<1>7. QED
  BY <1>1, <1>2, <1>3, <1>4, <1>5, <1>6 DEF KernelStep

LEMMA NextInv == IInv /\ [Next]_vars => IInv'
<1> SUFFICES ASSUME IInv, [Next]_vars PROVE IInv'
  OBVIOUS
<1>1. CASE Tick
  <2>1. /\ need_resched' \in [Procs -> BOOLEAN]
        /\ pc' \in [Procs -> Places]
    BY <1>1 DEF Tick, IInv, RestType, Places
  <2>2. QED
    BY <1>1, <2>1, MoveInv DEF Tick, IInv, RestType, fields
<1>2. CASE Panicked \/ UNCHANGED vars
  <2>1. UNCHANGED vars
    BY <1>2 DEF Panicked
  <2>2. QED
    BY <2>1, MoveInv DEF vars, IInv, RestType, fields
<1>3. QED
  BY <1>1, <1>2, UserStepInv, KernelStepInv DEF Next

\* Every reachable state satisfies the inductive invariant.
THEOREM Invariance == Spec => []IInv
BY InitInv, NextInv, PTL DEF Spec

\* The tables keep their types and nr_process stays within MAX_PROCESS.
THEOREM TypeCorrect == Spec => []TypeOK
<1>1. IInv => TypeOK
  BY DEF IInv, Core, CoreType, RestType, TypeOK
<1>2. QED
  BY <1>1, Invariance, PTL

\* The sibling chains and parent pointers always describe one forest, in which
\* every parent is a living process.
THEOREM FamilyStaysTree == Spec => []FamilyTree
<1>1. IInv => FamilyTree
  BY DEF IInv, Core
<1>2. QED
  BY <1>1, Invariance, PTL

\* No wakeup is lost: whoever sleeps in do_wait has a child to wait for, and
\* none that could be reaped.
THEOREM WakeupsNotLost == Spec => []NoLostWakeup
<1>1. IInv => NoLostWakeup
  BY CoreNoLostWakeup DEF IInv
<1>2. QED
  BY <1>1, Invariance, PTL

\* schedule() only ever switches to a process that is linked, runnable and
\* waits for nothing.
THEOREM RunningIsAlive == Spec => []CurrentAlive
<1>1. IInv => CurrentAlive
  BY DEF IInv, Core
<1>2. QED
  BY <1>1, Invariance, PTL

-----------------------------------------------------------------------------
(***************************************************************************)
(* That somebody can always run rests on a fact nothing in the code        *)
(* states.  set_links puts a child at the head of proc_list and do_exit    *)
(* hands orphans to init, which is at the tail, so a process is always     *)
(* behind its children.  Hence of the processes that are no zombies the    *)
(* first on the list has no child alive, and as nobody sleeps who has not, *)
(* it can run.                                                             *)
(*                                                                         *)
(* Every step of Process is one of eight effects on the process table;     *)
(* StepHasEffect shows it once, and NoStall, NoSpuriousWakeup and the      *)
(* balance of resources are then proved about the effects.                 *)
(***************************************************************************)

Behind ==
    /\ proc_list # <<>>
    /\ proc_list[Len(proc_list)] = initproc
    /\ \A i, j \in 1 .. Len(proc_list) :
          parent[proc_list[i]] = proc_list[j] => i < j

\* NoSpuriousWakeup in terms of the parent pointers.
WokenForReason ==
    \A p \in Linked :
        pc[p] = "woken" /\ state[p] = "RUNNABLE" =>
            exiting[p] \/ \E c \in Linked : parent[c] = p /\ state[c] = "ZOMBIE"

\* Only live user processes have an mm: do_exit gives it back.
MemoryOfTheLiving ==
    \A p \in Procs :
        mm[p] => p \in Linked /\ p # initproc /\ state[p] # "ZOMBIE"

Owners(r) == {p \in Linked : r \in MemResources => mm[p]}

SInv == /\ IInv
        /\ Behind
        /\ WokenForReason
        /\ MemoryOfTheLiving
        /\ Accounting
        /\ AssertionsHold
        /\ CleanShutdown

-----------------------------------------------------------------------------
\* What a step does to the process table.
NobodyNewWoken == \A q \in Linked : pc'[q] = "woken" => pc[q] = "woken"

Forked(p, c) ==
    /\ panicked = "no"
    /\ p \in Linked /\ c \in Pids \ Linked
    /\ proc_list' = <<c>> \o proc_list
    /\ parent' = [parent EXCEPT ![c] = p]
    /\ state' = [state EXCEPT ![c] = "RUNNABLE"]
    /\ mm' = [mm EXCEPT ![c] = mm[p]]
    /\ Charge(Stages(p), {})
    /\ pc'[c] # "woken" /\ NobodyNewWoken
    /\ UNCHANGED <<exiting, panicked>>

Exited(p) ==
    /\ panicked = "no"
    /\ p \in Linked \ {initproc}
    /\ state[p] = "RUNNABLE"
    /\ proc_list' = proc_list
    /\ parent' = [c \in Procs |-> IF c \in Linked /\ parent[c] = p
                                  THEN initproc ELSE parent[c]]
    /\ state' = [q \in Procs |-> IF q = p THEN "ZOMBIE"
                                 ELSE IF q \in ExitWakes(p) THEN "RUNNABLE"
                                                            ELSE state[q]]
    /\ mm' = [mm EXCEPT ![p] = FALSE]
    /\ used' = [r \in Resources |-> used[r] - One(r, Memory(p))]
    /\ NobodyNewWoken
    /\ UNCHANGED <<exiting, panicked>>

Reaped(p, c) ==
    /\ panicked = "no"
    /\ p \in Linked /\ c \in Linked \ {p, initproc}
    /\ current = p /\ parent[c] = p /\ state[c] = "ZOMBIE"
    /\ proc_list' = RemoveAt(proc_list, Position(proc_list, c))
    /\ parent' = [parent EXCEPT ![c] = idleproc]
    /\ state' = [state EXCEPT ![c] = "UNUSED"]
    /\ Charge({}, ReapFrees)
    /\ pc'[p] # "woken" /\ NobodyNewWoken
    /\ exiting' = [exiting EXCEPT ![c] = FALSE]
    /\ UNCHANGED <<mm, panicked>>

Slept(p) ==
    /\ panicked = "no"
    /\ p \in Linked
    /\ state[p] = "RUNNABLE"
    /\ state' = [state EXCEPT ![p] = "SLEEPING"]
    /\ \A q \in Linked \ {p} : pc'[q] = pc[q]
    /\ UNCHANGED <<links, fields, used, panicked>>

Killed(q) ==
    /\ panicked = "no"
    /\ q \in Linked
    /\ exiting' = [exiting EXCEPT ![q] = TRUE]
    /\ state' = [state EXCEPT ![q] = IF @ = "SLEEPING" THEN "RUNNABLE" ELSE @]
    /\ NobodyNewWoken
    /\ UNCHANGED <<links, mm, used, panicked>>

Loaded(p) ==
    /\ panicked = "no"
    /\ p \in Linked \ {initproc}
    /\ state[p] = "RUNNABLE"
    /\ mm' = [mm EXCEPT ![p] = TRUE]
    /\ Charge(MemResources, Memory(p))
    /\ NobodyNewWoken
    /\ UNCHANGED <<links, exiting, state, panicked>>

Calm ==
    /\ NobodyNewWoken
    /\ UNCHANGED <<links, fields, state, used, panicked>>

\* init's children are gone when init_main's do_wait finds nobody to wait for.
Panics ==
    /\ panicked = "no"
    /\ panicked' # "wakeup of a zombie"
    /\ panicked' = "init check failed" =>
          children[initproc] = <<>> /\ ~InitChecks
    /\ panicked' = "initproc exit" =>
          exiting[initproc] \/ Linked = {initproc}
    /\ UNCHANGED <<links, fields, state, pc, used>>

Effect ==
    \/ \E p, c \in Pids : Forked(p, c)
    \/ \E p \in Pids : Exited(p)
    \/ \E p, c \in Pids : Reaped(p, c)
    \/ \E p \in Pids : Slept(p)
    \/ \E q \in Pids : Killed(q)
    \/ \E p \in Pids : Loaded(p)
    \/ Calm
    \/ Panics

-----------------------------------------------------------------------------
LEMMA ForkEffect ==
  ASSUME IInv, panicked = "no", NEW p \in Pids, current = p,
         NEW c \in UserPids, ForkSucceeds(p, c),
         NEW place1, NEW place2, place1 # "woken", place2 # "woken",
         pc' = [pc EXCEPT ![p] = place1, ![c] = place2], exiting' = exiting
  PROVE  Effect
<1>1. p \in Linked /\ p \in Procs /\ c \in Pids /\ c \in Procs /\ c # idleproc
  BY RunningProcess, ProcessNames DEF IInv, Pids, Procs
<1>2. c \notin Linked /\ c # p /\ state[c] = "UNUSED" /\ wait_state[c] = "none"
  BY <1>1 DEF ForkSucceeds, IInv, Core, CoreType, Table, SleepersWait
<1>3. state' = [state EXCEPT ![c] = "RUNNABLE"] /\ panicked' = panicked
  BY <1>1 DEF ForkSucceeds, Wakeup, IInv, Core, CoreType
<1>4. pc'[c] # "woken" /\ NobodyNewWoken
  BY <1>1, <1>2, LinkedArePids DEF NobodyNewWoken, IInv, Core, RestType
<1>5. Forked(p, c)
  BY <1>1, <1>2, <1>3, <1>4 DEF Forked, ForkSucceeds
<1>6. QED
  BY <1>1, <1>5 DEF Effect

LEMMA ExitEffect ==
  ASSUME IInv, panicked = "no", NEW p \in UserPids, current = p,
         NEW taken, NEW freed, taken = freed, DoExit(p, taken, freed)
  PROVE  Effect
<1>1. /\ p \in Pids /\ p \in Linked /\ p \in Procs /\ p # initproc
      /\ state[p] = "RUNNABLE"
  BY RunningProcess, ProcessNames DEF IInv, Pids
<1> DEFINE st == [state EXCEPT ![p] = "ZOMBIE"]
<1>2. \A q \in ExitWakes(p) : q \in Procs /\ q # p /\ st[q] = "SLEEPING"
  BY <1>1 DEF ExitWakes, IInv, Core, CoreType, SleepersWait, Pids, Procs
<1>3. /\ state' = [q \in Procs |-> IF q = p THEN "ZOMBIE"
                                   ELSE IF q \in ExitWakes(p) THEN "RUNNABLE"
                                                              ELSE state[q]]
      /\ panicked' = panicked
  <2>1. Wakeup(ExitWakes(p), st)
    BY <1>1 DEF DoExit
  <2>2. st = [q \in Procs |-> IF q = p THEN "ZOMBIE" ELSE state[q]]
    BY <1>1 DEF IInv, Core, CoreType
  <2>3. {q \in ExitWakes(p) : st[q] \notin {"RUNNABLE", "ZOMBIE"}} = ExitWakes(p)
    BY <1>2
  <2>4. ~ \E q \in ExitWakes(p) : st[q] = "ZOMBIE"
    BY <1>2
  <2> HIDE DEF st
  <2>5. QED
    BY <2>1, <2>2, <2>3, <2>4, <1>2 DEF Wakeup
<1>4. parent' = [c \in Procs |-> IF c \in Linked /\ parent[c] = p
                                 THEN initproc ELSE parent[c]]
  <2>1. \A c \in Procs :
           c \in ToSet(children[p]) <=> c \in Linked /\ parent[c] = p
    <3>1. ToSet(children[p]) \subseteq Pids
      BY <1>1 DEF IInv, Core, CoreType, ToSet
    <3>2. Linked \subseteq Pids
      BY LinkedArePids DEF IInv, Core
    <3>3. QED
      BY <1>1, <3>1, <3>2 DEF IInv, Core, FamilyTree
  <2>2. QED
    BY <1>1, <2>1 DEF DoExit, Reparent
<1>5. /\ proc_list' = proc_list
      /\ exiting' = exiting
      /\ mm' = [mm EXCEPT ![p] = FALSE]
      /\ pc' = [pc EXCEPT ![p] = "none"]
  BY <1>1 DEF DoExit, Goto
<1>6. used' = [r \in Resources |-> used[r] - One(r, Memory(p))]
  <2>1. used' = [r \in Resources |-> used[r] + One(r, taken) - One(r, freed)
                                             - One(r, Memory(p))]
    BY <1>1 DEF DoExit
  <2>2. \A r \in Resources : used[r] \in Int
    BY DEF IInv, RestType
  <2>3. \A r \in Resources : used[r] + One(r, taken) - One(r, freed)
                                - One(r, Memory(p)) = used[r] - One(r, Memory(p))
    BY <2>2 DEF One
  <2>4. QED
    BY <2>1, <2>3
<1>7. NobodyNewWoken
  BY <1>1, <1>5, LinkedArePids DEF NobodyNewWoken, IInv, Core, RestType
<1>8. Exited(p)
  BY <1>1, <1>3, <1>4, <1>5, <1>6, <1>7 DEF Exited
<1>9. QED
  BY <1>1, <1>8 DEF Effect

LEMMA ReapEffect ==
  ASSUME IInv, panicked = "no", NEW p \in Pids, current = p, NEW t \in Procs,
         WaitFinds(p, t), NEW place, place # "woken", Goto(p, place)
  PROVE  Effect
<1>1. p \in Linked /\ p \in Procs /\ p # idleproc /\ state[p] = "RUNNABLE"
  BY RunningProcess DEF IInv
<1>2. PICK c \in Linked : /\ parent[c] = p /\ state[c] = "ZOMBIE"
                          /\ Reap(c)
  BY <1>1, WaitFindsChild DEF IInv
<1>3. c \in Pids /\ c # initproc /\ c # p
  BY <1>1, <1>2, LinkedArePids DEF IInv, Core, Roots
<1>4. pc'[p] # "woken" /\ NobodyNewWoken
  BY <1>1, LinkedArePids DEF Goto, NobodyNewWoken, IInv, Core, RestType
<1>5. Reaped(p, c)
  BY <1>1, <1>2, <1>3, <1>4 DEF Reaped, Reap
<1>6. QED
  BY <1>3, <1>5 DEF Effect

LEMMA SleepEffect ==
  ASSUME IInv, panicked = "no", NEW p \in Pids, current = p, NEW t,
         WaitSleeps(p, t)
  PROVE  Effect
<1>1. p \in Linked /\ p \in Procs /\ state[p] = "RUNNABLE"
  BY RunningProcess DEF IInv
<1>2. \A q \in Linked \ {p} : pc'[q] = pc[q]
  BY <1>1, LinkedArePids DEF WaitSleeps, Goto, IInv, Core, RestType
<1>3. Slept(p)
  BY <1>1, <1>2 DEF Slept, WaitSleeps
<1>4. QED
  BY <1>3 DEF Effect

\* Steps that leave the table alone and move the running process on.
LEMMA CalmEffect ==
  ASSUME IInv, UNCHANGED <<links, fields, state, used, panicked>>,
         NEW p \in Procs, NEW place, place # "woken",
         pc' = [pc EXCEPT ![p] = place] \/ pc' = pc
  PROVE  Effect
BY LinkedArePids DEF NobodyNewWoken, Calm, Effect, IInv, Core, RestType

LEMMA PanicEffect ==
  ASSUME panicked = "no", NEW why, Panic(why),
         why # "wakeup of a zombie",
         why = "init check failed" => children[initproc] = <<>> /\ ~InitChecks,
         why = "initproc exit" => exiting[initproc] \/ Linked = {initproc}
  PROVE  Effect
BY DEF Panic, Panics, Effect

LEMMA UserWaitEffect ==
  ASSUME IInv, panicked = "no", NEW p \in UserPids, current = p,
         NEW t \in Procs, UserWait(p, t)
  PROVE  Effect
<1>1. p \in Pids /\ p \in Procs
  BY DEF Pids, Procs
<1>2. QED
  BY <1>1, ReapEffect, SleepEffect, CalmEffect DEF UserWait, Goto

\* Where load_icode fails, it has given back what it acquired.
LEMMA LoadUndone ==
  ASSUME NEW stage \in LoadStages
  PROVE  LoadAcquired(stage) = LoadCleanup(stage)
BY DEF LoadStages, LoadAcquired, LoadCleanup, MemResources

LEMMA ExecveEffect ==
  ASSUME IInv, panicked = "no", NEW p \in UserPids, current = p,
         NEW place, place # "woken", Execve(p, place)
  PROVE  Effect
<1>1. CASE /\ mm' = [mm EXCEPT ![p] = TRUE]
           /\ Charge(MemResources, Memory(p))
           /\ Goto(p, place)
           /\ UNCHANGED <<links, exiting, state, wait_state, need_resched,
                          target, current, panicked>>
  <2>1. /\ p \in Pids /\ p \in Linked /\ p \in Procs /\ p # initproc
        /\ state[p] = "RUNNABLE"
    BY RunningProcess, ProcessNames DEF IInv, Pids
  <2>2. NobodyNewWoken
    BY <1>1, <2>1, LinkedArePids DEF Goto, NobodyNewWoken, IInv, Core, RestType
  <2>3. Loaded(p)
    BY <1>1, <2>1, <2>2 DEF Loaded
  <2>4. QED
    BY <2>1, <2>3 DEF Effect
<1>2. ASSUME NEW stage \in LoadStages,
             DoExit(p, LoadAcquired(stage), LoadCleanup(stage))
      PROVE  Effect
  BY <1>2, ExitEffect, LoadUndone
<1>3. CASE Panic("no page")
  BY <1>3, PanicEffect
<1>4. QED
  BY <1>1, <1>2, <1>3 DEF Execve

\* Where do_fork fails, it has given back what it acquired.
LEMMA ForkUndone ==
  ASSUME IInv, NEW p, ForkFails(p)
  PROVE  used' = used
<1>1. \A stage \in Resources : Acquired(stage) = ForkCleanup(stage)
  BY DEF Resources, Acquired, ForkCleanup, bad_fork_cleanup_proc,
         bad_fork_cleanup_kstack, bad_pgdir_cleanup_mm, bad_dup_cleanup_mmap
<1>2. PICK set : Charge(set, set)
  BY <1>1 DEF ForkFails, Stages
<1>3. \A r \in Resources : used[r] + One(r, set) - One(r, set) = used[r]
  BY DEF IInv, RestType, One
<1>4. QED
  BY <1>2, <1>3 DEF Charge, IInv, RestType

LEMMA KillEffect ==
  ASSUME IInv, panicked = "no", NEW p \in UserPids, current = p, SysKill(p)
  PROVE  Effect
<1>1. PICK q \in Linked :
         /\ exiting' = [exiting EXCEPT ![q] = TRUE]
         /\ Wakeup(IF wait_state[q] = "WT_CHILD" THEN {q} ELSE {}, state)
  BY DEF SysKill
<1>2. q \in Pids /\ q \in Procs /\ p \in Procs
  BY LinkedArePids DEF IInv, Core, Pids, Procs
<1>3. NobodyNewWoken
  BY <1>2, LinkedArePids DEF SysKill, Goto, NobodyNewWoken, IInv, Core, RestType
<1>4. /\ state' = [state EXCEPT ![q] = IF @ = "SLEEPING" THEN "RUNNABLE" ELSE @]
      /\ panicked' = panicked
  BY <1>1, <1>2 DEF Wakeup, IInv, Core, CoreType, SleepersWait
<1>5. Killed(q)
  BY <1>1, <1>3, <1>4 DEF Killed, SysKill
<1>6. QED
  BY <1>2, <1>5 DEF Effect

LEMMA UserStepEffect ==
  ASSUME IInv, NEW p \in UserPids, UserStep(p)
  PROVE  Effect
<1>1. panicked = "no" /\ current = p /\ p \in Pids /\ p \in Procs
  BY DEF UserStep, SysFork, SysForkNoPage, SysExit, SysWait, SysYield, SysKill,
         SysExec, TrapNoEffect, TrapUnhandled, TrapPanics, At, Pids, Procs
<1>2. CASE SysFork(p)
  <2>1. CASE /\ ForkFails(p)
             /\ Goto(p, "trapret")
             /\ UNCHANGED <<links, fields, state, wait_state, panicked>>
    BY <1>1, <2>1, ForkUndone, CalmEffect DEF Goto
  <2>2. ASSUME NEW c \in UserPids, ForkSucceeds(p, c),
               pc' = [pc EXCEPT ![p] = "trapret", ![c] = "user"],
               UNCHANGED exiting
        PROVE  Effect
    BY <1>1, <2>2, ForkEffect
  <2>3. QED
    BY <1>2, <2>1, <2>2 DEF SysFork
<1>3. CASE SysForkNoPage(p) \/ TrapPanics(p)
  BY <1>1, <1>3, PanicEffect DEF SysForkNoPage, TrapPanics
<1>4. CASE SysExit(p) \/ TrapUnhandled(p)
  BY <1>1, <1>4, ExitEffect DEF SysExit, TrapUnhandled
<1>5. CASE SysWait(p)
  BY <1>1, <1>5, UserWaitEffect DEF SysWait, AnyChild, Procs
<1>6. CASE SysYield(p) \/ TrapNoEffect(p)
  BY <1>1, <1>6, CalmEffect DEF SysYield, TrapNoEffect, Goto
<1>7. CASE SysKill(p)
  BY <1>1, <1>7, KillEffect
<1>8. CASE SysExec(p)
  BY <1>1, <1>8, ExecveEffect DEF SysExec
<1>9. QED
  BY <1>2, <1>3, <1>4, <1>5, <1>6, <1>7, <1>8 DEF UserStep

LEMMA KernelStepEffect ==
  ASSUME IInv, KernelStep
  PROVE  Effect
<1>1. ASSUME NEW p \in UserPids, UserMain(p)
      PROVE  Effect
  BY <1>1, ExecveEffect DEF UserMain, At
<1>2. ASSUME NEW p \in UserPids, TrapReturn(p)
      PROVE  Effect
  BY <1>2, ExitEffect, CalmEffect
     DEF TrapReturn, At, ReturnToUser, Goto, Pids, Procs
<1>3. ASSUME NEW p \in UserPids, WaitResumes(p)
      PROVE  Effect
  <2>1. panicked = "no" /\ current = p /\ target[p] \in Procs
    BY <1>3 DEF WaitResumes, At, IInv, Core, CoreType, Pids, Procs
  <2>2. QED
    BY <1>3, <2>1, ExitEffect, UserWaitEffect DEF WaitResumes
<1>4. CASE InitStarts
  <2>1. panicked = "no" /\ current = initproc /\ initproc \in Pids
    BY <1>4 DEF InitStarts, At, Pids
  <2>2. CASE Panic("create user_main failed")
    BY <2>1, <2>2, PanicEffect
  <2>3. ASSUME NEW c \in UserPids, ForkSucceeds(initproc, c),
               pc' = [pc EXCEPT ![initproc] = "reap", ![c] = "exec"],
               exiting' = exiting
        PROVE  Effect
    BY <2>1, <2>3, ForkEffect
  <2>4. QED
    BY <1>4, <2>2, <2>3 DEF InitStarts
<1>5. CASE InitWaits
  <2>1. /\ panicked = "no" /\ current = initproc
        /\ initproc \in Pids /\ AnyChild \in Procs
    BY <1>5 DEF InitWaits, At, AnyChild, Pids, Procs
  <2>2. CASE exiting[initproc] /\ DoExit(initproc, {}, {})
    BY <2>1, <2>2, PanicEffect DEF DoExit
  <2>3. CASE WaitFinds(initproc, AnyChild) /\ Goto(initproc, "reap")
    BY <2>1, <2>3, ReapEffect
  <2>4. CASE WaitSleeps(initproc, AnyChild)
    BY <2>1, <2>4, SleepEffect
  <2>5. CASE InitChecks /\ DoExit(initproc, {}, {})
    <3>1. Linked = {initproc}
      BY <2>5 DEF InitChecks, Linked, ToSet
    <3>2. QED
      BY <2>1, <2>5, <3>1, PanicEffect DEF DoExit
  <2>6. CASE /\ Awaited(initproc, AnyChild) = <<>>
             /\ ~InitChecks /\ Panic("init check failed")
    BY <2>1, <2>6, PanicEffect DEF Awaited
  <2>7. QED
    BY <1>5, <2>2, <2>3, <2>4, <2>5, <2>6 DEF InitWaits
<1>6. CASE IdleYields
  BY <1>6, CalmEffect DEF IdleYields, Procs
<1>7. QED
  BY <1>1, <1>2, <1>3, <1>4, <1>5, <1>6 DEF KernelStep

LEMMA StepHasEffect ==
  ASSUME IInv, [Next]_vars
  PROVE  Effect
<1>1. CASE Tick
  <2>1. NobodyNewWoken
    BY <1>1 DEF Tick, NobodyNewWoken, IInv, RestType
  <2>2. QED
    BY <1>1, <2>1 DEF Tick, Calm, Effect
<1>2. CASE Panicked \/ UNCHANGED vars
  BY <1>2, CalmEffect DEF Panicked, vars, Procs
<1>3. QED
  BY <1>1, <1>2, UserStepEffect, KernelStepEffect DEF Next

-----------------------------------------------------------------------------
\* The order of the list, and who can run.
LEMMA LinkedPositions ==
  ASSUME Core
  PROVE  /\ Len(proc_list) \in Nat
         /\ \A i \in 1 .. Len(proc_list) : proc_list[i] \in Linked
         /\ \A p \in Linked : \E i \in 1 .. Len(proc_list) : proc_list[i] = p
         /\ \A i, j \in 1 .. Len(proc_list) :
               proc_list[i] = proc_list[j] => i = j
<1>1. proc_list \in Seq(Pids) /\ IsInjective(proc_list)
  BY DEF Core, CoreType, Table
<1>2. DOMAIN proc_list = 1 .. Len(proc_list) /\ Len(proc_list) \in Nat
  BY <1>1
<1>3. QED
  BY <1>1, <1>2 DEF Linked, ToSet, IsInjective

LEMMA ForkBehind ==
  ASSUME IInv, Behind, NEW p \in Pids, NEW c \in Pids, Forked(p, c)
  PROVE  Behind'
<1> DEFINE n == Len(proc_list)
<1>1. /\ n \in Nat
      /\ Len(proc_list') = n + 1
      /\ \A i \in 1 .. n + 1 :
            proc_list'[i] = IF i = 1 THEN c ELSE proc_list[i - 1]
      /\ proc_list' \in Seq(Pids)
  BY ConsProperties DEF Forked, IInv, Core, CoreType
<1>2. n > 0
  BY DEF Behind, IInv, Core, CoreType
<1>3. /\ proc_list' # <<>>
      /\ proc_list'[Len(proc_list')] = initproc
  <2>1. proc_list'[n + 1] = proc_list[n] /\ n + 1 # 0
    BY <1>1, <1>2
  <2>2. QED
    BY <2>1, <1>1 DEF Behind
<1>4. ASSUME NEW i \in 1 .. n + 1, NEW j \in 1 .. n + 1,
             parent'[proc_list'[i]] = proc_list'[j]
      PROVE  i < j
  <2>1. \A k \in 2 .. n + 1 : /\ k - 1 \in 1 .. n
                              /\ proc_list'[k] = proc_list[k - 1]
                              /\ proc_list[k - 1] \in Linked
    <3>1. \A k \in 1 .. n : proc_list[k] \in Linked
      BY LinkedPositions DEF IInv
    <3>2. \A k \in 2 .. n + 1 : k - 1 \in 1 .. n /\ k \in 1 .. n + 1 /\ k # 1
      BY <1>1
    <3> HIDE DEF n
    <3>3. QED
      BY <1>1, <3>1, <3>2
  <2>2. \A q \in Linked : /\ q \in Procs /\ q # c
                          /\ parent'[q] = parent[q]
                          /\ parent[q] # c
    <3>1. Linked \subseteq Procs /\ c \notin Linked /\ initproc \in Linked
      BY LinkedArePids DEF IInv, Core, Forked, Roots
    <3>2. c \in Procs /\ c # idleproc
      BY ProcessNames DEF Pids, Procs
    <3>3. parent[initproc] = idleproc
      BY DEF IInv, Core, Roots
    <3>4. \A q \in Linked : parent[q] # c
      BY <3>1, <3>2, <3>3 DEF IInv, Core, FamilyTree
    <3>5. QED
      BY <3>1, <3>4 DEF IInv, Core, CoreType, Forked
  <2>3. CASE i = 1
    <3>1. parent'[c] = p /\ p # c
      BY DEF Forked, IInv, Core, CoreType, Procs
    <3>2. j # 1
      BY <2>3, <3>1, <1>1, <1>4
    <3>3. QED
      BY <2>3, <3>2, <1>1
  <2>4. CASE i # 1
    <3>1. i \in 2 .. n + 1
      BY <2>4, <1>1
    <3>2. j # 1
      BY <3>1, <2>1, <2>2, <1>1, <1>4
    <3>3. j \in 2 .. n + 1
      BY <3>2, <1>1
    <3>4. parent[proc_list[i - 1]] = proc_list[j - 1]
      BY <3>1, <3>3, <2>1, <2>2, <1>4
    <3>5. i - 1 < j - 1
      BY <3>1, <3>3, <3>4, <2>1 DEF Behind
    <3>6. QED
      BY <3>5, <3>1, <3>3
  <2>5. QED
    BY <2>3, <2>4
<1>5. QED
  BY <1>1, <1>3, <1>4 DEF Behind

LEMMA ExitBehind ==
  ASSUME IInv, Behind, NEW p \in Pids, Exited(p)
  PROVE  Behind'
<1> DEFINE n == Len(proc_list)
<1>1. proc_list' = proc_list /\ n \in Nat
  BY LinkedPositions DEF Exited, IInv
<1>2. ASSUME NEW i \in 1 .. n, NEW j \in 1 .. n,
             parent'[proc_list[i]] = proc_list[j]
      PROVE  i < j
  <2>1. proc_list[i] \in Linked /\ proc_list[i] \in Procs
    BY LinkedPositions, LinkedArePids DEF IInv, Core
  <2>2. CASE parent[proc_list[i]] = p
    <3>1. proc_list[j] = initproc
      BY <1>2, <2>1, <2>2 DEF Exited
    <3>2. proc_list[n] = initproc /\ n \in 1 .. n
      BY <1>1 DEF Behind, IInv, Core, CoreType
    <3>3. j = n
      BY <3>1, <3>2, LinkedPositions DEF IInv
    <3>4. proc_list[i] # initproc
      BY <2>2, ProcessNames DEF IInv, Core, Roots, Pids
    <3>5. QED
      BY <3>2, <3>3, <3>4, <1>1
  <2>3. CASE parent[proc_list[i]] # p
    BY <1>2, <2>1, <2>3 DEF Exited, Behind
  <2>4. QED
    BY <2>2, <2>3
<1>3. QED
  BY <1>1, <1>2 DEF Behind

LEMMA ReapBehind ==
  ASSUME IInv, Behind, NEW p \in Pids, NEW c \in Pids, Reaped(p, c)
  PROVE  Behind'
<1> DEFINE n == Len(proc_list)
           k == Position(proc_list, c)
           old(i) == IF i < k THEN i ELSE i + 1
<1>1. k \in 1 .. n /\ proc_list[k] = c /\ n \in Nat
  BY PositionOf DEF Reaped, Linked, IInv, Core, CoreType
<1> HIDE DEF k
<1>2. /\ proc_list' \in Seq(Pids)
      /\ Len(proc_list') = n - 1
      /\ \A i \in 1 .. n - 1 : proc_list'[i] = proc_list[old(i)]
  <2>1. proc_list' = RemoveAt(proc_list, k) /\ proc_list \in Seq(Pids)
    BY DEF Reaped, k, IInv, Core, CoreType
  <2>2. QED
    BY <2>1, <1>1, RemoveAtProperties
<1>3. k # n
  BY <1>1 DEF Behind, Reaped
<1>4. /\ proc_list' # <<>>
      /\ proc_list'[Len(proc_list')] = initproc
  <2>1. n - 1 \in 1 .. n - 1 /\ old(n - 1) = n
    BY <1>1, <1>3
  <2>2. QED
    BY <2>1, <1>2 DEF Behind
<1>5. ASSUME NEW i \in 1 .. n - 1, NEW j \in 1 .. n - 1,
             parent'[proc_list'[i]] = proc_list'[j]
      PROVE  i < j
  <2>1. /\ old(i) \in 1 .. n /\ old(j) \in 1 .. n
        /\ old(i) # k /\ old(i) < old(j) => i < j
    BY <1>1
  <2>2. proc_list[old(i)] \in Procs /\ proc_list[old(i)] # c
    BY <2>1, <1>1, LinkedPositions, LinkedArePids DEF IInv, Core
  <2>3. parent'[proc_list[old(i)]] = parent[proc_list[old(i)]]
    BY <2>2 DEF Reaped, IInv, Core, CoreType
  <2>4. parent[proc_list[old(i)]] = proc_list[old(j)]
    BY <2>3, <1>2, <1>5
  <2>5. old(i) < old(j)
    <3> HIDE DEF old
    <3> QED BY <2>1, <2>4 DEF Behind
  <2>6. QED
    BY <2>1, <2>5
<1>6. QED
  BY <1>2, <1>4, <1>5 DEF Behind

LEMMA BehindInv ==
  ASSUME IInv, Behind, Effect
  PROVE  Behind'
<1>1. CASE UNCHANGED links
  BY <1>1 DEF Behind, links
<1>2. QED
  BY <1>1, ForkBehind, ExitBehind, ReapBehind
     DEF Effect, Slept, Killed, Loaded, Calm, Panics

\* The first on the list that is no zombie can run.
LEMMA SomebodyRuns ==
  ASSUME IInv, Behind
  PROVE  \E p \in Linked : state[p] = "RUNNABLE"
<1> DEFINE n == Len(proc_list)
           Alive == {i \in 1 .. n : state[proc_list[i]] # "ZOMBIE"}
           p == proc_list[Min(Alive)]
<1>1. n \in Nat /\ n \in 1 .. n /\ initproc = proc_list[n]
  BY LinkedPositions DEF Behind, IInv, Core, CoreType
<1>2. n \in Alive
  BY <1>1 DEF IInv, Core, Roots
<1>3. Min(Alive) \in Alive /\ \A i \in Alive : Min(Alive) <= i
  <2>1. Alive \in SUBSET Nat /\ Alive # {}
    BY <1>1, <1>2
  <2> HIDE DEF Alive
  <2>2. QED
    BY <2>1, MinInSet
<1>4. Min(Alive) \in 1 .. n /\ state[p] # "ZOMBIE"
  BY <1>3
<1> HIDE DEF Alive
<1>5. p \in Linked /\ p \in Procs /\ p \in Pids
  BY <1>4, LinkedPositions, LinkedArePids DEF IInv, Core
<1>6. state[p] # "SLEEPING"
  <2> SUFFICES ASSUME state[p] = "SLEEPING" PROVE FALSE
    OBVIOUS
  <2>1. PICK c \in Linked : parent[c] = p /\ state[c] # "ZOMBIE"
    BY <1>5 DEF IInv, Core, SleepersWaitForLiving, Wanted
  <2>2. PICK i \in 1 .. n : proc_list[i] = c
    BY LinkedPositions DEF IInv
  <2>3. i < Min(Alive)
    BY <2>1, <2>2, <1>4 DEF Behind
  <2>4. i \in Alive
    BY <2>1, <2>2 DEF Alive
  <2>5. QED
    BY <2>3, <2>4, <1>1, <1>3, <1>4
<1>7. state[p] # "UNUSED"
  BY <1>5 DEF IInv, Core, Table
<1>8. state[p] \in States
  BY <1>5 DEF IInv, Core, CoreType
<1>9. QED
  BY <1>4, <1>5, <1>6, <1>7, <1>8 DEF States

-----------------------------------------------------------------------------
\* What init_main asserts at its end is so when it has no child left: every
\* process has a parent behind it, and the last but one only init.
LEMMA InitFindsChecks ==
  ASSUME IInv, Behind, children[initproc] = <<>>
  PROVE  InitChecks
<1> DEFINE n == Len(proc_list)
<1>1. n \in Nat /\ n # 0 /\ proc_list[n] = initproc /\ proc_list \in Seq(Pids)
  BY DEF Behind, IInv, Core, CoreType
<1>2. \A c \in Linked \ {initproc} :
         parent[c] \in Linked /\ parent[c] # initproc
  <2>1. initproc \in Procs /\ ToSet(children[initproc]) = {}
    BY DEF Pids, Procs, ToSet
  <2>2. QED
    BY <2>1, LinkedArePids DEF IInv, Core, FamilyTree
<1>3. n = 1
  <2> SUFFICES ASSUME n # 1 PROVE FALSE
    OBVIOUS
  <2>1. n - 1 \in 1 .. n /\ n \in 1 .. n /\ n - 1 # n
    <3>1. n \in Nat /\ n # 0
      BY <1>1
    <3> HIDE DEF n
    <3>2. QED
      BY <3>1
  <2>2. proc_list[n - 1] \in Linked \ {initproc}
    BY <2>1, <1>1, LinkedPositions DEF IInv
  <2>3. PICK j \in 1 .. n : proc_list[j] = parent[proc_list[n - 1]]
    BY <2>2, <1>2, LinkedPositions DEF IInv
  <2>4. n - 1 < j
    BY <2>1, <2>3 DEF Behind
  <2>5. j = n
    BY <2>4, <1>1
  <2>6. QED
    BY <2>2, <2>3, <2>5, <1>1, <1>2
<1>4. proc_list = <<initproc>> /\ Linked = {initproc}
  BY <1>1, <1>3 DEF Linked, ToSet
<1>5. children[idleproc] = <<initproc>>
  <2> DEFINE s == children[idleproc]
  <2>1. s \in Seq(Pids) /\ IsInjective(s)
    BY DEF IInv, Core, CoreType, FamilyTree, Procs
  <2>2. ToSet(s) = {initproc}
    <3>1. idleproc \in Procs /\ initproc \in Pids /\ ToSet(s) \subseteq Pids
      BY <2>1 DEF Pids, Procs, ToSet
    <3>2. \A c \in Pids : c \in ToSet(s) <=> c = initproc
      BY <3>1, <1>4 DEF IInv, Core, FamilyTree, Roots
    <3>3. QED
      BY <3>1, <3>2
  <2> HIDE DEF s
  <2>3. DOMAIN s = 1 .. Len(s) /\ Len(s) \in Nat
    BY <2>1
  <2>4. \A i \in 1 .. Len(s) : s[i] = initproc
    BY <2>2, <2>3 DEF ToSet
  <2>5. Len(s) # 0
    BY <2>2, <2>3 DEF ToSet
  <2>6. \A i, j \in 1 .. Len(s) : i = j
    BY <2>1, <2>3, <2>4 DEF IsInjective
  <2>7. Len(s) = 1
    <3>1. 1 \in 1 .. Len(s) /\ Len(s) \in 1 .. Len(s)
      BY <2>3, <2>5
    <3>2. QED
      BY <3>1, <2>6
  <2>8. s = <<initproc>>
    BY <2>1, <2>4, <2>7
  <2>9. QED
    BY <2>8 DEF s
<1>6. QED
  BY <1>1, <1>3, <1>4, <1>5 DEF InitChecks, nr_process

LEMMA AssertionsInv ==
  ASSUME SInv, Effect
  PROVE  AssertionsHold'
<1>1. CASE panicked' = panicked
  BY <1>1 DEF SInv, AssertionsHold
<1>2. CASE Panics
  BY <1>2, InitFindsChecks DEF Panics, SInv, AssertionsHold
<1>3. QED
  BY <1>1, <1>2
     DEF Effect, Forked, Exited, Reaped, Slept, Killed, Loaded, Calm

-----------------------------------------------------------------------------
LEMMA ReasonInv ==
  ASSUME SInv, Effect
  PROVE  WokenForReason'
<1> SUFFICES ASSUME NEW q \in Linked', pc'[q] = "woken", state'[q] = "RUNNABLE"
             PROVE  \/ exiting'[q]
                    \/ \E c \in Linked' : parent'[c] = q /\ state'[c] = "ZOMBIE"
  BY DEF WokenForReason
<1> DEFINE Reason == \/ exiting[q]
                     \/ \E c \in Linked : parent[c] = q /\ state[c] = "ZOMBIE"
<1>1. Linked \subseteq Pids /\ Pids \subseteq Procs
  BY LinkedArePids DEF SInv, IInv, Core
<1>2. q \in Linked /\ pc[q] = "woken" /\ state[q] = "RUNNABLE" => Reason
  BY DEF SInv, WokenForReason
<1>3. UNCHANGED proc_list => Linked' = Linked
  BY DEF Linked
<1>4. /\ state \in [Procs -> States] /\ parent \in [Procs -> Procs]
      /\ exiting \in [Procs -> BOOLEAN]
  BY DEF SInv, IInv, Core, CoreType, RestType
<1>5. ASSUME NEW p \in Pids, NEW c \in Pids, Forked(p, c)
      PROVE  exiting'[q] \/ \E d \in Linked' : parent'[d] = q /\ state'[d] = "ZOMBIE"
  <2>1. Linked' = Linked \cup {c}
    BY <1>5, ConsSet DEF Forked, SInv, IInv, Core, CoreType, Table, Linked
  <2>2. q \in Linked /\ q # c /\ pc[q] = "woken" /\ state[q] = "RUNNABLE"
    BY <1>1, <1>4, <1>5, <2>1 DEF Forked, NobodyNewWoken
  <2>3. \A d \in Linked : parent'[d] = parent[d] /\ state'[d] = state[d]
    BY <1>1, <1>4, <1>5 DEF Forked
  <2>4. QED
    BY <1>2, <1>5, <2>1, <2>2, <2>3 DEF Forked
<1>6. ASSUME NEW p \in Pids, Exited(p)
      PROVE  exiting'[q] \/ \E d \in Linked' : parent'[d] = q /\ state'[d] = "ZOMBIE"
  <2>1. /\ Linked' = Linked /\ q \in Linked /\ q \in Procs /\ p \in Procs
        /\ pc[q] = "woken" /\ q # p /\ exiting' = exiting
        /\ p \in Linked /\ state[p] = "RUNNABLE"
    BY <1>1, <1>3, <1>6 DEF Exited, NobodyNewWoken
  <2>2. \A d \in Linked : /\ d \in Procs
                          /\ state[d] = "ZOMBIE" => state'[d] = "ZOMBIE"
    BY <1>1, <1>6
       DEF Exited, ExitWakes, SInv, IInv, Core, SleepersWait, CoreType, Pids, Procs
  <2>3. state'[p] = "ZOMBIE" /\ (parent[p] # p => parent'[p] = parent[p])
    BY <1>6, <2>1 DEF Exited
  <2>4. parent[p] # p
    BY <2>1 DEF SInv, IInv, Core, Table
  <2>5. CASE q \in ExitWakes(p)
    <3>1. CASE q = parent[p]
      BY <2>1, <2>3, <2>4, <3>1
    <3>2. CASE q # parent[p]
      <4>1. PICK c \in ToSet(children[p]) : q = initproc /\ state[c] = "ZOMBIE"
        BY <2>5, <3>2 DEF ExitWakes
      <4>2. c \in Linked /\ parent[c] = p
        <5>1. c \in Pids
          BY <2>1 DEF ToSet, SInv, IInv, Core, CoreType
        <5>2. QED
          BY <5>1, <2>1 DEF SInv, IInv, Core, FamilyTree
      <4>3. parent'[c] = initproc
        BY <1>6, <2>2, <4>2 DEF Exited
      <4>4. QED
        BY <2>1, <2>2, <4>1, <4>2, <4>3
    <3>3. QED
      BY <3>1, <3>2
  <2>6. CASE q \notin ExitWakes(p)
    <3>1. state[q] = "RUNNABLE"
      BY <1>6, <2>1, <2>6 DEF Exited
    <3>2. CASE exiting[q]
      BY <2>1, <3>2
    <3>3. ASSUME NEW c \in Linked, parent[c] = q, state[c] = "ZOMBIE"
          PROVE  parent'[c] = q /\ state'[c] = "ZOMBIE"
      BY <1>6, <2>1, <2>2, <3>3 DEF Exited
    <3>4. QED
      BY <1>2, <2>1, <3>1, <3>2, <3>3
  <2>7. QED
    BY <2>5, <2>6
<1>7. ASSUME NEW p \in Pids, NEW c \in Pids, Reaped(p, c)
      PROVE  exiting'[q] \/ \E d \in Linked' : parent'[d] = q /\ state'[d] = "ZOMBIE"
  <2>1. Linked' = Linked \ {c}
    <3>1. /\ Position(proc_list, c) \in 1 .. Len(proc_list)
          /\ proc_list[Position(proc_list, c)] = c
      BY <1>7, PositionOf DEF Reaped, SInv, IInv, Core, CoreType, Linked
    <3>2. QED
      BY <1>7, <3>1, RemoveSet
         DEF Reaped, SInv, IInv, Core, CoreType, Table, Linked
  <2>2. q \in Linked /\ q # c /\ q # p /\ pc[q] = "woken" /\ state[q] = "RUNNABLE"
    BY <1>1, <1>4, <1>7, <2>1 DEF Reaped, NobodyNewWoken
  <2>3. parent[c] = p /\ exiting'[q] = exiting[q]
    BY <1>1, <1>4, <1>7, <2>2 DEF Reaped
  <2>4. \A d \in Linked \ {c} : parent'[d] = parent[d] /\ state'[d] = state[d]
    BY <1>1, <1>4, <1>7 DEF Reaped
  <2>5. QED
    BY <1>2, <2>1, <2>2, <2>3, <2>4
<1>8. ASSUME NEW p \in Pids, Slept(p)
      PROVE  exiting'[q] \/ \E d \in Linked' : parent'[d] = q /\ state'[d] = "ZOMBIE"
  <2>1. q # p /\ UNCHANGED <<proc_list, parent, exiting>>
    BY <1>1, <1>4, <1>8 DEF Slept, links, fields
  <2>2. \A d \in Linked : state[d] = "ZOMBIE" => state'[d] = "ZOMBIE"
    BY <1>1, <1>4, <1>8 DEF Slept
  <2>3. pc[q] = "woken" /\ state[q] = "RUNNABLE"
    BY <1>1, <1>3, <1>4, <1>8, <2>1 DEF Slept
  <2>4. QED
    BY <1>2, <1>3, <2>1, <2>2, <2>3
<1>9. ASSUME NEW r \in Pids, Killed(r)
      PROVE  exiting'[q] \/ \E d \in Linked' : parent'[d] = q /\ state'[d] = "ZOMBIE"
  <2>1. UNCHANGED <<proc_list, parent>>
    BY <1>9 DEF Killed, links
  <2>2. \A d \in Linked : state[d] = "ZOMBIE" => state'[d] = "ZOMBIE"
    BY <1>1, <1>4, <1>9 DEF Killed
  <2>3. CASE q = r
    BY <1>1, <1>4, <1>9, <2>3 DEF Killed
  <2>4. CASE q # r
    <3>1. pc[q] = "woken" /\ state[q] = "RUNNABLE" /\ exiting'[q] = exiting[q]
      BY <1>1, <1>3, <1>4, <1>9, <2>1, <2>4 DEF Killed, NobodyNewWoken
    <3>2. QED
      BY <1>2, <1>3, <2>1, <2>2, <3>1
  <2>5. QED
    BY <2>3, <2>4
<1>10. CASE UNCHANGED <<links, exiting, state>> /\ NobodyNewWoken
  BY <1>2, <1>3, <1>10 DEF links, NobodyNewWoken
<1>11. CASE Panics
  BY <1>2, <1>3, <1>11 DEF Panics, links, fields
<1>12. QED
  BY <1>5, <1>6, <1>7, <1>8, <1>9, <1>10, <1>11 DEF Effect, Loaded, Calm, fields

-----------------------------------------------------------------------------
\* How Linked changes.
LEMMA ForkLinks ==
  ASSUME IInv, NEW p \in Pids, NEW c \in Pids, Forked(p, c)
  PROVE  Linked' = Linked \cup {c}
BY ConsSet DEF Forked, IInv, Core, CoreType, Table, Linked

LEMMA ReapUnlinks ==
  ASSUME IInv, NEW p \in Pids, NEW c \in Pids, Reaped(p, c)
  PROVE  Linked' = Linked \ {c}
<1>1. /\ Position(proc_list, c) \in 1 .. Len(proc_list)
      /\ proc_list[Position(proc_list, c)] = c
  BY PositionOf DEF Reaped, IInv, Core, CoreType, Linked
<1>2. QED
  BY <1>1, RemoveSet DEF Reaped, IInv, Core, CoreType, Table, Linked

LEMMA MemoryInv ==
  ASSUME SInv, Effect
  PROVE  MemoryOfTheLiving'
<1> SUFFICES ASSUME NEW q \in Procs, mm'[q]
             PROVE  q \in Linked' /\ q # initproc /\ state'[q] # "ZOMBIE"
  BY DEF MemoryOfTheLiving
<1>1. /\ mm \in [Procs -> BOOLEAN]
      /\ state \in [Procs -> States]
      /\ Pids \subseteq Procs
      /\ mm[q] => q \in Linked /\ q # initproc /\ state[q] # "ZOMBIE"
  BY LinkedArePids
     DEF SInv, IInv, Core, CoreType, RestType, MemoryOfTheLiving
<1>2. UNCHANGED proc_list => Linked' = Linked
  BY DEF Linked
<1>3. ASSUME NEW p \in Pids, NEW c \in Pids, Forked(p, c)
      PROVE  q \in Linked' /\ q # initproc /\ state'[q] # "ZOMBIE"
  <2>1. initproc \in Linked /\ Linked' = Linked \cup {c} /\ c \notin Linked
    BY <1>3, ForkLinks DEF Forked, SInv, IInv, Core, Roots
  <2>2. QED
    BY <1>1, <1>3, <2>1 DEF Forked
<1>4. ASSUME NEW p \in Pids, Exited(p)
      PROVE  q \in Linked' /\ q # initproc /\ state'[q] # "ZOMBIE"
  BY <1>1, <1>2, <1>4 DEF Exited
<1>5. ASSUME NEW p \in Pids, NEW c \in Pids, Reaped(p, c)
      PROVE  q \in Linked' /\ q # initproc /\ state'[q] # "ZOMBIE"
  <2>1. Linked' = Linked \ {c}
    BY <1>5, ReapUnlinks DEF SInv
  <2>2. mm[q] /\ state[c] = "ZOMBIE" /\ state' = [state EXCEPT ![c] = "UNUSED"]
    BY <1>5 DEF Reaped
  <2>3. q # c
    BY <1>1, <2>2
  <2>4. QED
    BY <1>1, <2>1, <2>2, <2>3
<1>6. ASSUME NEW p \in Pids, Slept(p)
      PROVE  q \in Linked' /\ q # initproc /\ state'[q] # "ZOMBIE"
  BY <1>1, <1>2, <1>6 DEF Slept, links, fields
<1>7. ASSUME NEW r \in Pids, Killed(r)
      PROVE  q \in Linked' /\ q # initproc /\ state'[q] # "ZOMBIE"
  BY <1>1, <1>2, <1>7 DEF Killed, links
<1>8. ASSUME NEW p \in Pids, Loaded(p)
      PROVE  q \in Linked' /\ q # initproc /\ state'[q] # "ZOMBIE"
  BY <1>1, <1>2, <1>8 DEF Loaded, links
<1>9. CASE Calm \/ Panics
  BY <1>1, <1>2, <1>9 DEF Calm, Panics, links, fields
<1>10. QED
  BY <1>3, <1>4, <1>5, <1>6, <1>7, <1>8, <1>9 DEF Effect

LEMMA OwnersFinite ==
  ASSUME Core, NEW r
  PROVE  IsFiniteSet(Owners(r)) /\ Cardinality(Owners(r)) \in Nat
<1>1. proc_list \in Seq(Pids)
  BY DEF Core, CoreType
<1>2. IsFiniteSet(1 .. Len(proc_list))
  BY <1>1, FS_Interval
<1>3. DOMAIN proc_list = 1 .. Len(proc_list)
  BY <1>1
<1>4. proc_list \in Surjection(1 .. Len(proc_list), Linked)
  BY <1>1, <1>3 DEF Surjection, Linked, ToSet
<1>5. IsFiniteSet(Linked)
  BY <1>2, <1>4, FS_Surjection DEF ExistsSurjection
<1>6. Owners(r) \in SUBSET Linked
  BY DEF Owners
<1>7. QED
  BY <1>5, <1>6, FS_Subset, FS_CardinalityType

\* Every resource that is allocated belongs to a linked process.
LEMMA AccountingInv ==
  ASSUME SInv, Effect
  PROVE  Accounting'
<1> SUFFICES ASSUME NEW r \in Resources
             PROVE  used'[r] = Cardinality(Owners(r)')
  BY DEF Accounting, Owners
<1>1. /\ used[r] = Cardinality(Owners(r))
      /\ Cardinality(Owners(r)) \in Nat
      /\ IsFiniteSet(Owners(r))
  BY OwnersFinite DEF SInv, IInv, Accounting, Owners
<1>2. /\ Linked \subseteq Procs
      /\ Pids \subseteq Procs
      /\ mm \in [Procs -> BOOLEAN]
      /\ MemResources \subseteq Resources
  BY LinkedArePids
     DEF SInv, IInv, Core, RestType, MemResources, Resources
<1>3. UNCHANGED proc_list => Linked' = Linked
  BY DEF Linked
<1>4. \A S, x : /\ S = Owners(r) \cup {x} /\ x \notin Owners(r) =>
                      Cardinality(S) = Cardinality(Owners(r)) + 1
                /\ S = Owners(r) \ {x} /\ x \in Owners(r) =>
                      Cardinality(S) = Cardinality(Owners(r)) - 1
  BY <1>1, FS_AddElement, FS_RemoveElement
<1>5. ASSUME NEW p \in Pids, NEW c \in Pids, Forked(p, c)
      PROVE  used'[r] = Cardinality(Owners(r)')
  <2>1. Linked' = Linked \cup {c} /\ c \notin Linked /\ p \in Linked
    BY <1>5, ForkLinks DEF Forked, SInv
  <2>2. \A q \in Linked : mm'[q] = mm[q]
    BY <1>2, <1>5, <2>1 DEF Forked
  <2>3. mm'[c] = mm[p]
    BY <1>2, <1>5 DEF Forked
  <2>4. used'[r] = used[r] + One(r, Stages(p)) - One(r, {})
    BY <1>5 DEF Forked, Charge
  <2>5. CASE r \in Stages(p)
    <3>1. r \in MemResources => mm[p]
      BY <2>5 DEF Stages
    <3>2. Owners(r)' = Owners(r) \cup {c} /\ c \notin Owners(r)
      BY <2>1, <2>2, <2>3, <3>1 DEF Owners
    <3>3. QED
      BY <1>1, <1>4, <2>4, <2>5, <3>2 DEF One
  <2>6. CASE r \notin Stages(p)
    <3>1. r \in MemResources /\ ~mm[p]
      BY <2>6 DEF Stages
    <3>2. Owners(r)' = Owners(r)
      BY <2>1, <2>2, <2>3, <3>1 DEF Owners
    <3>3. QED
      BY <1>1, <2>4, <2>6, <3>2 DEF One
  <2>7. QED
    BY <2>5, <2>6
<1>6. ASSUME NEW p \in Pids, Exited(p)
      PROVE  used'[r] = Cardinality(Owners(r)')
  <2>1. p \in Linked /\ Linked' = Linked /\ mm' = [mm EXCEPT ![p] = FALSE]
    BY <1>3, <1>6 DEF Exited
  <2>2. used'[r] = used[r] - One(r, Memory(p))
    BY <1>6 DEF Exited
  <2>3. CASE r \in MemResources /\ mm[p]
    <3>1. Owners(r)' = Owners(r) \ {p} /\ p \in Owners(r)
      BY <1>2, <2>1, <2>3 DEF Owners
    <3>2. QED
      BY <1>1, <1>4, <2>2, <2>3, <3>1 DEF One, Memory
  <2>4. CASE ~(r \in MemResources /\ mm[p])
    <3>1. Owners(r)' = Owners(r)
      BY <1>2, <2>1, <2>4 DEF Owners
    <3>2. QED
      BY <1>1, <2>2, <2>4, <3>1 DEF One, Memory
  <2>5. QED
    BY <2>3, <2>4
<1>7. ASSUME NEW p \in Pids, NEW c \in Pids, Reaped(p, c)
      PROVE  used'[r] = Cardinality(Owners(r)')
  <2>1. Linked' = Linked \ {c} /\ c \in Linked /\ mm' = mm /\ ~mm[c]
    BY <1>2, <1>7, ReapUnlinks DEF Reaped, SInv, MemoryOfTheLiving
  <2>2. used'[r] = used[r] + One(r, {}) - One(r, ReapFrees)
    BY <1>7 DEF Reaped, Charge
  <2>3. CASE r \in MemResources
    <3>1. Owners(r)' = Owners(r)
      BY <2>1, <2>3 DEF Owners
    <3>2. r \notin ReapFrees
      BY <2>3 DEF MemResources, ReapFrees
    <3>3. QED
      BY <1>1, <2>2, <3>1, <3>2 DEF One
  <2>4. CASE r \notin MemResources
    <3>1. Owners(r)' = Owners(r) \ {c} /\ c \in Owners(r)
      BY <2>1, <2>4 DEF Owners
    <3>2. r \in ReapFrees
      BY <2>4 DEF Resources, MemResources, ReapFrees
    <3>3. QED
      BY <1>1, <1>4, <2>2, <3>1, <3>2 DEF One
  <2>5. QED
    BY <2>3, <2>4
<1>8. ASSUME NEW p \in Pids, Loaded(p)
      PROVE  used'[r] = Cardinality(Owners(r)')
  <2>1. p \in Linked /\ Linked' = Linked /\ mm' = [mm EXCEPT ![p] = TRUE]
    BY <1>3, <1>8 DEF Loaded, links
  <2>2. used'[r] = used[r] + One(r, MemResources) - One(r, Memory(p))
    BY <1>8 DEF Loaded, Charge
  <2>3. CASE r \in MemResources /\ ~mm[p]
    <3>1. Owners(r)' = Owners(r) \cup {p} /\ p \notin Owners(r)
      BY <1>2, <2>1, <2>3 DEF Owners
    <3>2. QED
      BY <1>1, <1>4, <2>2, <2>3, <3>1 DEF One, Memory
  <2>4. CASE ~(r \in MemResources /\ ~mm[p])
    <3>1. Owners(r)' = Owners(r)
      BY <1>2, <2>1, <2>4 DEF Owners
    <3>2. QED
      BY <1>1, <2>2, <2>4, <3>1 DEF One, Memory
  <2>5. QED
    BY <2>3, <2>4
<1>9. CASE UNCHANGED <<links, mm, used>>
  <2>1. Owners(r)' = Owners(r)
    BY <1>3, <1>9 DEF Owners, links
  <2>2. QED
    BY <1>1, <1>9, <2>1
<1>10. QED
  BY <1>5, <1>6, <1>7, <1>8, <1>9
     DEF Effect, Slept, Killed, Calm, Panics, fields

LEMMA ShutdownInv ==
  ASSUME SInv, Effect, Accounting', MemoryOfTheLiving'
  PROVE  CleanShutdown'
<1> SUFFICES ASSUME panicked' = "initproc exit", ~exiting'[initproc]
             PROVE  /\ Linked' = {initproc}
                    /\ \A r \in Resources :
                          used'[r] = IF r \in MemResources THEN 0 ELSE 1
  BY DEF CleanShutdown
<1>1. UNCHANGED proc_list => Linked' = Linked
  BY DEF Linked
<1>2. CASE Calm
  BY <1>1, <1>2 DEF Calm, links, fields, SInv, CleanShutdown
<1>3. CASE Panics
  <2>1. Linked' = {initproc} /\ ~mm'[initproc]
    BY <1>1, <1>3 DEF Panics, links, fields, MemoryOfTheLiving, Pids, Procs
  <2>2. ASSUME NEW r \in Resources
        PROVE  used'[r] = IF r \in MemResources THEN 0 ELSE 1
    <3> DEFINE O == {p \in Linked' : r \in MemResources => mm'[p]}
    <3>1. used'[r] = Cardinality(O)
      BY DEF Accounting
    <3>2. O = IF r \in MemResources THEN {} ELSE {initproc}
      BY <2>1
    <3>3. QED
      BY <3>1, <3>2, FS_EmptySet, FS_Singleton
  <2>3. QED
    BY <2>1, <2>2
<1>4. QED
  BY <1>2, <1>3 DEF Effect, Forked, Exited, Reaped, Slept, Killed, Loaded

-----------------------------------------------------------------------------
LEMMA InitSInv == Init => SInv
<1> SUFFICES ASSUME Init PROVE SInv
  OBVIOUS
<1>1. IInv
  BY InitInv
<1>2. Linked = {initproc} /\ proc_list = <<initproc>>
  BY DEF Init, Linked, ToSet
<1>3. Behind
  BY <1>2, ProcessNames DEF Behind, Init, Pids, Procs
<1>4. WokenForReason /\ MemoryOfTheLiving /\ AssertionsHold /\ CleanShutdown
  BY <1>2, ProcessNames
     DEF Init, WokenForReason, MemoryOfTheLiving, AssertionsHold, CleanShutdown,
         Pids, Procs
<1>5. ASSUME NEW r \in Resources
      PROVE  used[r] = Cardinality({p \in Linked : r \in MemResources => mm[p]})
  <2> DEFINE O == {p \in Linked : r \in MemResources => mm[p]}
  <2>1. O = IF r \in MemResources THEN {} ELSE {initproc}
    BY <1>2 DEF Init, Pids, Procs
  <2>2. used[r] = IF r \in MemResources THEN 0 ELSE 1
    BY DEF Init
  <2>3. QED
    BY <2>1, <2>2, FS_EmptySet, FS_Singleton
<1>6. QED
  BY <1>1, <1>3, <1>4, <1>5 DEF SInv, Accounting

LEMMA NextSInv == SInv /\ [Next]_vars => SInv'
<1> SUFFICES ASSUME SInv, [Next]_vars PROVE SInv'
  OBVIOUS
<1>1. IInv /\ IInv' /\ Effect
  BY NextInv, StepHasEffect DEF SInv
<1>2. Behind' /\ WokenForReason' /\ MemoryOfTheLiving'
  BY <1>1, BehindInv, ReasonInv, MemoryInv DEF SInv
<1>3. Accounting' /\ AssertionsHold'
  BY <1>1, AccountingInv, AssertionsInv
<1>4. CleanShutdown'
  BY <1>1, <1>2, <1>3, ShutdownInv
<1>5. QED
  BY <1>1, <1>2, <1>3, <1>4 DEF SInv

\* Every reachable state satisfies the stronger invariant.
THEOREM StrongInvariance == Spec => []SInv
BY InitSInv, NextSInv, PTL DEF Spec

\* Who wakes up in do_wait has a zombie child or was killed, and there is
\* always a linked process that can run: schedule() falls back on idle only
\* until the next one, however many processes wait for one another.
THEOREM SchedulingStaysSound == Spec => []SchedulingSound
<1>1. SInv => SchedulingSound
  <2> SUFFICES ASSUME SInv PROVE SchedulingSound
    OBVIOUS
  <2>1. NoStall
    BY SomebodyRuns DEF SInv, NoStall
  <2>2. NoSpuriousWakeup
    <3> SUFFICES ASSUME NEW p \in Linked, pc[p] = "woken", state[p] = "RUNNABLE",
                        ~exiting[p]
                 PROVE  \E c \in ToSet(children[p]) : state[c] = "ZOMBIE"
      BY DEF NoSpuriousWakeup
    <3>1. PICK c \in Linked : parent[c] = p /\ state[c] = "ZOMBIE"
      BY DEF SInv, WokenForReason
    <3>2. c \in ToSet(children[p])
      BY <3>1, LinkedArePids DEF SInv, IInv, Core, FamilyTree
    <3>3. QED
      BY <3>1, <3>2
  <2>3. QED
    BY <2>1, <2>2 DEF SchedulingSound
<1>2. QED
  BY <1>1, StrongInvariance, PTL

\* At every moment what is allocated is what the linked processes own, however
\* do_fork and load_icode fail; init ends with all of it given back, and
\* neither wakeup_proc's assertion nor those at the end of init_main fail.
THEOREM ResourcesStayBalanced == Spec => []ResourcesBalanced
<1>1. SInv => ResourcesBalanced
  BY DEF SInv, ResourcesBalanced
<1>2. QED
  BY <1>1, StrongInvariance, PTL

\* A zombie stays one until its parent, running, reaps it.
THEOREM ZombiesAwaitParents == Spec => ZombieReapedByParent
<1> DEFINE Step == \A p \in Pids : state[p] = "ZOMBIE" =>
                      \/ state'[p] = "ZOMBIE"
                      \/ state'[p] = "UNUSED" /\ current = parent[p]
<1>1. ASSUME IInv, [Next]_vars
      PROVE  Step
  <2> SUFFICES ASSUME NEW q \in Pids, state[q] = "ZOMBIE"
               PROVE  \/ state'[q] = "ZOMBIE"
                      \/ state'[q] = "UNUSED" /\ current = parent[q]
    OBVIOUS
  <2>1. Effect
    BY <1>1, StepHasEffect
  <2>2. /\ state \in [Procs -> States] /\ q \in Procs
        /\ \A c \in Pids \ Linked : state[c] = "UNUSED"
    BY <1>1 DEF IInv, Core, CoreType, Table, Procs
  <2>3. \A p \in Pids : q \notin ExitWakes(p)
    BY <1>1, <2>2 DEF IInv, Core, SleepersWait, ExitWakes
  <2>4. ASSUME NEW p \in Pids, NEW c \in Pids, Forked(p, c)
        PROVE  state'[q] = "ZOMBIE"
    BY <2>2, <2>4 DEF Forked
  <2>5. ASSUME NEW p \in Pids, Exited(p)
        PROVE  state'[q] = "ZOMBIE"
    BY <2>2, <2>3, <2>5 DEF Exited
  <2>6. ASSUME NEW p \in Pids, NEW c \in Pids, Reaped(p, c)
        PROVE  \/ state'[q] = "ZOMBIE"
               \/ state'[q] = "UNUSED" /\ current = parent[q]
    BY <2>2, <2>6 DEF Reaped
  <2>7. ASSUME NEW p \in Pids, Slept(p) \/ Killed(p) \/ Loaded(p)
        PROVE  state'[q] = "ZOMBIE"
    BY <2>2, <2>7 DEF Slept, Killed, Loaded
  <2>8. CASE Calm \/ Panics
    BY <2>8 DEF Calm, Panics
  <2>9. QED
    BY <2>1, <2>4, <2>5, <2>6, <2>7, <2>8 DEF Effect
<1>2. QED
  <2>1. IInv /\ [Next]_vars => [Step]_vars
    BY <1>1
  <2>2. QED
    BY <2>1, Invariance, PTL DEF Spec, ZombieReapedByParent

-----------------------------------------------------------------------------
(***************************************************************************)
(* Pids, for every MAX_PROCESS and every MAX_PID above it.                 *)
(*                                                                         *)
(* UniquePids is not inductive by itself: a cached answer is fresh only    *)
(* because of CacheSound, a scanned one only because of ScanInv, and the   *)
(* scan starts within bounds only because do_fork's check of nr_process    *)
(* still holds while it runs.                                              *)
(***************************************************************************)
\* While get_pid scans, the room that do_fork found is still there.
RoomWhileScanning == scanning = "scan" => GetPid!nr_process < MaxProcess

PidInv == /\ GetPid!TypeOK
          /\ GetPid!UniquePids
          /\ GetPid!CacheSound
          /\ GetPid!ScanInv
          /\ RoomWhileScanning

LEMMA PidsStart == GetPid!Init => PidInv
BY GetPidAssumption DEF GetPid!PidBounds, GetPid!Init, PidInv, GetPid!TypeOK,
       GetPid!UniquePids, GetPid!CacheSound, GetPid!ScanInv, RoomWhileScanning,
       GetPid!nr_process, GetPid!Pids

\* Linking a fresh pid p that the scan or the cache has vouched for keeps the
\* pids apart and the cache sound.
LEMMA LinkFresh ==
  ASSUME PidInv, NEW p \in GetPid!Pids, GetPid!SetLinks(p),
         \A i \in 1 .. Len(linked) : linked[i] # p
  PROVE  /\ linked' \in Seq(GetPid!Pids)
         /\ Len(linked') = Len(linked) + 1
         /\ GetPid!UniquePids'
         /\ \A i \in 1 .. Len(linked') :
               \/ linked'[i] = p
               \/ \E j \in 1 .. Len(linked) : linked'[i] = linked[j]
<1>1. /\ linked' \in Seq(GetPid!Pids)
      /\ Len(linked') = Len(linked) + 1
      /\ \A i \in 1 .. Len(linked) + 1 :
            linked'[i] = IF i = 1 THEN p ELSE linked[i - 1]
  BY ConsProperties DEF GetPid!SetLinks, PidInv, GetPid!TypeOK
<1>2. Len(linked) \in Nat
  BY DEF PidInv, GetPid!TypeOK
<1>3. \A i \in 2 .. Len(linked) + 1 :
         /\ i - 1 \in 1 .. Len(linked)
         /\ linked'[i] = linked[i - 1]
  BY <1>1, <1>2
<1>4. GetPid!UniquePids'
  <2> SUFFICES ASSUME NEW i \in 1 .. Len(linked) + 1,
                      NEW j \in 1 .. Len(linked) + 1,
                      linked'[i] = linked'[j]
               PROVE  i = j
    BY <1>1 DEF GetPid!UniquePids
  <2>1. CASE i = 1 /\ j = 1
    BY <2>1
  <2>2. CASE i = 1 /\ j # 1
    BY <1>1, <1>2, <1>3, <2>2
  <2>3. CASE i # 1 /\ j = 1
    BY <1>1, <1>2, <1>3, <2>3
  <2>4. CASE i # 1 /\ j # 1
    <3>1. /\ i \in 2 .. Len(linked) + 1
          /\ j \in 2 .. Len(linked) + 1
      BY <1>2, <2>4
    <3>2. linked[i - 1] = linked[j - 1]
      BY <1>3, <3>1
    <3>3. i - 1 = j - 1
      BY <1>3, <3>1, <3>2 DEF PidInv, GetPid!UniquePids
    <3>4. QED
      BY <3>1, <3>3
  <2>5. QED
    BY <2>1, <2>2, <2>3, <2>4
<1>5. \A i \in 1 .. Len(linked') :
               \/ linked'[i] = p
               \/ \E j \in 1 .. Len(linked) : linked'[i] = linked[j]
  <2> SUFFICES ASSUME NEW i \in 1 .. Len(linked) + 1, i # 1
               PROVE  \E j \in 1 .. Len(linked) :
                         linked'[i] = linked[j]
    BY <1>1
  <2>1. i \in 2 .. Len(linked) + 1
    BY <1>2
  <2>2. QED
    BY <1>3, <2>1
<1>6. QED
  BY <1>1, <1>4, <1>5

LEMMA PidsNext == PidInv /\ [GetPid!Next]_(GetPid!vars) => PidInv'
<1> SUFFICES ASSUME PidInv, [GetPid!Next]_(GetPid!vars) PROVE PidInv'
  OBVIOUS
<1> USE GetPidAssumption DEF GetPid!PidBounds
<1>1. CASE GetPid!EnterCached
  <2>1. last_pid + 1 \in GetPid!Pids
    BY <1>1 DEF GetPid!EnterCached, PidInv, GetPid!TypeOK, GetPid!Pids
  <2>2. \A i \in 1 .. Len(linked) : linked[i] # last_pid + 1
    BY <1>1 DEF GetPid!EnterCached, GetPid!Enter, PidInv, GetPid!TypeOK,
           GetPid!CacheSound, GetPid!Pids
  <2>3. GetPid!SetLinks(last_pid + 1)
    BY <1>1 DEF GetPid!EnterCached, GetPid!SetLinks
  <2>4. /\ linked' \in Seq(GetPid!Pids)
        /\ Len(linked') = Len(linked) + 1
        /\ GetPid!UniquePids'
        /\ \A i \in 1 .. Len(linked') :
              \/ linked'[i] = last_pid + 1
              \/ \E j \in 1 .. Len(linked) : linked'[i] = linked[j]
    BY <2>1, <2>2, <2>3, LinkFresh
  <2>5. GetPid!TypeOK'
    BY <1>1, <2>1, <2>4 DEF GetPid!EnterCached, GetPid!Enter, PidInv,
           GetPid!TypeOK, GetPid!nr_process, GetPid!Pids
  <2>6. GetPid!CacheSound'
    <3> SUFFICES ASSUME NEW i \in 1 .. Len(linked')
                 PROVE  ~(last_pid' < linked'[i] /\ linked'[i] < next_safe')
      BY DEF GetPid!CacheSound
    <3>1. CASE linked'[i] = last_pid + 1
      BY <1>1, <3>1 DEF GetPid!EnterCached, PidInv, GetPid!TypeOK
    <3>2. ASSUME NEW j \in 1 .. Len(linked), linked'[i] = linked[j]
          PROVE  ~(last_pid' < linked'[i] /\ linked'[i] < next_safe')
      <4>1. linked[j] \in GetPid!Pids
        BY DEF PidInv, GetPid!TypeOK
      <4>2. ~(last_pid < linked[j] /\ linked[j] < next_safe)
        BY <1>1 DEF GetPid!EnterCached, GetPid!Enter, PidInv, GetPid!CacheSound
      <4>3. QED
        BY <1>1, <3>2, <4>1, <4>2 DEF GetPid!EnterCached, PidInv,
               GetPid!TypeOK, GetPid!Pids
    <3>3. QED
      BY <2>4, <3>1, <3>2
  <2>7. GetPid!ScanInv' /\ RoomWhileScanning'
    BY <1>1 DEF GetPid!EnterCached, GetPid!Enter, GetPid!ScanInv,
           RoomWhileScanning
  <2>8. QED
    BY <2>4, <2>5, <2>6, <2>7 DEF PidInv
<1>2. CASE GetPid!EnterScan
  BY <1>2 DEF GetPid!EnterScan, GetPid!Enter, PidInv, GetPid!TypeOK,
         GetPid!UniquePids, GetPid!CacheSound, GetPid!ScanInv,
         RoomWhileScanning, GetPid!nr_process, GetPid!Pids
<1>3. CASE GetPid!ScanTaken
  BY <1>3 DEF GetPid!ScanTaken, GetPid!Scanning, PidInv, GetPid!TypeOK,
         GetPid!UniquePids, GetPid!CacheSound, GetPid!ScanInv,
         RoomWhileScanning, GetPid!nr_process, GetPid!Pids
<1>4. CASE GetPid!ScanRepeat
  BY <1>4 DEF GetPid!ScanRepeat, GetPid!Scanning, PidInv, GetPid!TypeOK,
         GetPid!UniquePids, GetPid!CacheSound, GetPid!ScanInv,
         RoomWhileScanning, GetPid!nr_process, GetPid!Pids
<1>5. CASE GetPid!ScanOther
  <2>1. /\ scanning = "scan" /\ scanning' = "scan" /\ le \in 1 .. Len(linked)
        /\ linked[le] # last_pid /\ linked[le] \in GetPid!Pids
        /\ linked' = linked /\ last_pid' = last_pid /\ le' = le + 1
    BY <1>5 DEF GetPid!ScanOther, GetPid!Scanning, PidInv, GetPid!TypeOK
  <2>2. \/ /\ linked[le] > last_pid /\ next_safe > linked[le]
           /\ next_safe' = linked[le]
        \/ /\ ~(linked[le] > last_pid /\ next_safe > linked[le])
           /\ next_safe' = next_safe
    BY <1>5 DEF GetPid!ScanOther
  <2>3. GetPid!TypeOK'
    BY <2>1, <2>2 DEF PidInv, GetPid!TypeOK, GetPid!Pids, GetPid!nr_process
  <2>4. GetPid!UniquePids' /\ GetPid!CacheSound' /\ RoomWhileScanning'
    BY <2>1 DEF PidInv, GetPid!UniquePids, GetPid!CacheSound,
           RoomWhileScanning, GetPid!nr_process
  <2>5. last_pid < next_safe' /\ next_safe' <= next_safe
    BY <2>1, <2>2 DEF PidInv, GetPid!TypeOK, GetPid!ScanInv, GetPid!Pids
  <2>6. ASSUME NEW i \in 1 .. le
        PROVE  ~(last_pid <= linked[i] /\ linked[i] < next_safe')
    <3>1. CASE i = le
      BY <2>1, <2>2, <3>1 DEF PidInv, GetPid!TypeOK, GetPid!Pids
    <3>2. CASE i \in 1 .. le - 1
      <4>1. linked[i] \in GetPid!Pids
        BY <2>1, <3>2 DEF PidInv, GetPid!TypeOK
      <4>2. ~(last_pid <= linked[i] /\ linked[i] < next_safe)
        BY <2>1, <3>2 DEF PidInv, GetPid!ScanInv
      <4>3. QED
        BY <2>3, <2>5, <4>1, <4>2 DEF PidInv, GetPid!TypeOK, GetPid!Pids
    <3>3. QED
      BY <2>1, <3>1, <3>2
  <2>7. GetPid!ScanInv'
    BY <2>1, <2>5, <2>6 DEF GetPid!ScanInv
  <2>8. QED
    BY <2>3, <2>4, <2>7 DEF PidInv
<1>6. CASE GetPid!ScanReturn
  <2>1. last_pid \in GetPid!Pids
    BY <1>6 DEF GetPid!ScanReturn, PidInv, GetPid!TypeOK, GetPid!ScanInv,
           GetPid!Pids
  <2>2. \A i \in 1 .. Len(linked) :
           ~(last_pid <= linked[i] /\ linked[i] < next_safe)
    BY <1>6 DEF GetPid!ScanReturn, PidInv, GetPid!TypeOK, GetPid!ScanInv
  <2>3. \A i \in 1 .. Len(linked) : linked[i] # last_pid
    BY <1>6, <2>1, <2>2 DEF GetPid!ScanReturn, PidInv, GetPid!TypeOK,
           GetPid!ScanInv, GetPid!Pids
  <2>4. /\ linked' \in Seq(GetPid!Pids)
        /\ Len(linked') = Len(linked) + 1
        /\ GetPid!UniquePids'
        /\ \A i \in 1 .. Len(linked') :
              \/ linked'[i] = last_pid
              \/ \E j \in 1 .. Len(linked) : linked'[i] = linked[j]
    BY <1>6, <2>1, <2>3, LinkFresh DEF GetPid!ScanReturn
  <2>5. GetPid!TypeOK'
    BY <1>6, <2>4 DEF GetPid!ScanReturn, PidInv, GetPid!TypeOK,
           RoomWhileScanning, GetPid!nr_process, GetPid!Pids
  <2>6. GetPid!CacheSound'
    <3> SUFFICES ASSUME NEW i \in 1 .. Len(linked')
                 PROVE  ~(last_pid' < linked'[i] /\ linked'[i] < next_safe')
      BY DEF GetPid!CacheSound
    <3>1. CASE linked'[i] = last_pid
      BY <1>6, <3>1 DEF GetPid!ScanReturn, PidInv, GetPid!TypeOK
    <3>2. ASSUME NEW j \in 1 .. Len(linked), linked'[i] = linked[j]
          PROVE  ~(last_pid' < linked'[i] /\ linked'[i] < next_safe')
      <4>1. linked[j] \in GetPid!Pids
        BY DEF PidInv, GetPid!TypeOK
      <4>2. QED
        BY <1>6, <2>2, <3>2, <4>1 DEF GetPid!ScanReturn, PidInv, GetPid!TypeOK,
               GetPid!Pids
    <3>3. QED
      BY <2>4, <3>1, <3>2
  <2>7. GetPid!ScanInv' /\ RoomWhileScanning'
    BY <1>6 DEF GetPid!ScanReturn, GetPid!ScanInv, RoomWhileScanning
  <2>8. QED
    BY <2>4, <2>5, <2>6, <2>7 DEF PidInv
<1>7. ASSUME NEW i \in 1 .. Len(linked), GetPid!Unlink(i)
      PROVE  PidInv'
  <2>1. /\ linked' \in Seq(GetPid!Pids)
        /\ Len(linked') = Len(linked) - 1
        /\ \A j \in 1 .. Len(linked) - 1 :
              linked'[j] = IF j < i THEN linked[j] ELSE linked[j + 1]
    <3>1. linked' = RemoveAt(linked, i) /\ linked \in Seq(GetPid!Pids)
      BY <1>7 DEF GetPid!Unlink, GetPid!RemoveAt, RemoveAt, PidInv,
             GetPid!TypeOK
    <3>2. QED
      BY <3>1, RemoveAtProperties
  <2>2. GetPid!TypeOK' /\ RoomWhileScanning' /\ GetPid!ScanInv'
    BY <1>7, <2>1 DEF GetPid!Unlink, PidInv, GetPid!TypeOK, GetPid!nr_process,
           RoomWhileScanning, GetPid!ScanInv
  <2>3. GetPid!UniquePids'
    <3> SUFFICES ASSUME NEW j \in 1 .. Len(linked) - 1,
                        NEW k \in 1 .. Len(linked) - 1,
                        linked'[j] = linked'[k]
                 PROVE  j = k
      BY <2>1 DEF GetPid!UniquePids
    <3>1. Len(linked) \in Nat
      BY DEF PidInv, GetPid!TypeOK
    <3> DEFINE up(n) == IF n < i THEN n ELSE n + 1
    <3>2. up(j) \in 1 .. Len(linked) /\ up(k) \in 1 .. Len(linked)
      BY <3>1
    <3>3. linked'[j] = linked[up(j)] /\ linked'[k] = linked[up(k)]
      BY <2>1
    <3>4. up(j) = up(k)
      <4> HIDE DEF up
      <4> QED BY <3>2, <3>3 DEF PidInv, GetPid!UniquePids
    <3>5. QED
      BY <3>4, <3>1
  <2>4. GetPid!CacheSound'
    BY <1>7, <2>1 DEF GetPid!Unlink, GetPid!CacheSound, PidInv, GetPid!TypeOK
  <2>5. QED
    BY <2>2, <2>3, <2>4 DEF PidInv
<1>8. CASE UNCHANGED GetPid!vars
  BY <1>8 DEF GetPid!vars, PidInv, GetPid!TypeOK, GetPid!UniquePids,
         GetPid!CacheSound, GetPid!ScanInv, RoomWhileScanning,
         GetPid!nr_process
<1>9. QED
  BY <1>1, <1>2, <1>3, <1>4, <1>5, <1>6, <1>7, <1>8 DEF GetPid!Next,
         GetPid!GetPidStep

\* Every reachable state satisfies the inductive invariant.
THEOREM PidsInvariance == GetPidSpec => []PidInv
BY PidsStart, PidsNext, PTL DEF GetPidSpec, GetPid!Spec

\* get_pid never hands out a pid that a linked process has: however forks and
\* reclaims follow each other, the pids in proc_list stay distinct.
THEOREM PidsStayUnique == GetPidSpec => []UniquePids
<1>1. PidInv => UniquePids
  BY DEF PidInv, UniquePids
<1>2. QED
  BY <1>1, PidsInvariance, PTL

\* The cache is right when get_pid is entered, and the scan's interval is free
\* of the pids it has passed, whatever do_wait has unlinked in between.
THEOREM CacheStaysKept == GetPidSpec => []CacheKept
<1>1. PidInv => CacheKept
  BY DEF PidInv, CacheKept, GetPid!CacheKept
<1>2. QED
  BY <1>1, PidsInvariance, PTL

\* The counters and the list keep their types, nr_process its bound.
THEOREM PidTypeCorrect == GetPidSpec => []GetPid!TypeOK
<1>1. PidInv => GetPid!TypeOK
  BY DEF PidInv
<1>2. QED
  BY <1>1, PidsInvariance, PTL

-----------------------------------------------------------------------------
(* Paging (pmm.c of lab5): who uses each frame.  Kept is what every        *)
(* operation on physical memory takes and gives back, a loop at each turn: *)
(* the mms D use every frame for one thing or it is free, but for those in *)
(* the hands of the caller (K), the counts go with the uses, and entries   *)
(* and page tables are where areas are.  That last part is what lets       *)
(* exit_mmap, which goes from area to area, find all that it must free.    *)

\* Physical memory, in the shape the operations keep it.
Phys == [free : SUBSET Paging!Frames, ref : [Paging!Frames -> Nat],
         content : [Paging!Frames -> Contents \cup {None}],
         dir : [Paging!Frames -> [Paging!Dirs -> Paging!Frames \cup {0}]],
         table : [Paging!Frames -> [0 .. NPTEENTRY - 1 -> Paging!Entry \cup {None}]],
         got : Paging!Frames \cup {0}, ok : BOOLEAN]

\* The frame behind a page, 0 for none.
FrameAt(ph, d, a) ==
    IF Paging!Pte(ph, d, a) = None THEN 0 ELSE Paging!Pte(ph, d, a).frame

\* An mm has a directory, tables and pages: what it may use a frame for.
Keys == Paging!Frames \X {"dir", "table", "page"} \X Paging!Pages

\* The frame the mms D use for each of these, 0 for none.
Uses(ph, D) ==
    [q \in Keys |->
        IF q[1] \notin D THEN 0
        ELSE IF q[2] = "dir" THEN IF q[3] = 0 THEN q[1] ELSE 0
        ELSE IF q[2] = "table"
             THEN IF q[3] \in Paging!Dirs THEN ph.dir[q[1]][q[3]] ELSE 0
        ELSE FrameAt(ph, q[1], q[3])]

\* A frame has one use, or is free, or is one of K, those in hand.
Owned(u, avail, K) ==
    /\ u \in [Keys -> Paging!Frames \cup {0}]
    /\ \A q, r \in Keys : u[q] # 0 /\ u[q] = u[r] => q = r
    /\ \A f \in Paging!Frames : f \in avail \cup K <=> \A q \in Keys : u[q] # f
    /\ avail \cap K = {}

\* The entry that leads to a frame is counted.
Counted(u, avail, ref) ==
    /\ \A q \in Keys : u[q] # 0 => ref[u[q]] = IF q[2] = "dir" THEN 0 ELSE 1
    /\ \A f \in avail : ref[f] = 0

\* What is mapped, and what page tables there are, the areas of d say.
Follows(ph, d, list) ==
    /\ \A a \in Paging!Pages :
          Paging!Pte(ph, d, a) # None =>
             /\ Paging!AreaAt(list, a) # {}
             /\ Paging!Pte(ph, d, a).write <=> Paging!Writable(list, a)
    /\ \A i \in Paging!Dirs :
          ph.dir[d][i] # 0 =>
             \E vma \in ToSet(list) : /\ Paging!PDX(vma.vm_start) <= i
                                      /\ i <= Paging!PDX(vma.vm_end - 1)

\* The memory of the mms D, whose areas A lists, with the frames K in hand.
Kept(ph, D, A, K) ==
    /\ ph \in Phys /\ ph.ok
    /\ D \subseteq Paging!Frames
    /\ Owned(Uses(ph, D), ph.free, K)
    /\ Counted(Uses(ph, D), ph.free, ph.ref)
    /\ \A d \in D : A[d] \in Seq(Paging!Area) /\ Follows(ph, d, A[d])

\* What is in the page a of d, in a set, which is empty while it is not mapped.
Holds(ph, d, a) ==
    IF Paging!Pte(ph, d, a) = None THEN {}
                                   ELSE {ph.content[Paging!Pte(ph, d, a).frame]}

\* The pages of the mms D hold in r what they hold in ph, but for page a of d.
Same(ph, r, D) ==
    \A e \in D, b \in Paging!Pages : Holds(r, e, b) = Holds(ph, e, b)

SameBut(ph, r, D, d, a, h) ==
    \A e \in D, b \in Paging!Pages :
        Holds(r, e, b) = IF e = d /\ b = a THEN h ELSE Holds(ph, e, b)

\* What is mapped holds something.
Filled(ph, D) == \A d \in D, a \in Paging!Pages : Holds(ph, d, a) \subseteq Contents

\* The processes that share an mm, and the mms there are.
Shares(m, d) == {q \in Tasks : m[q] = d}

LiveOf(m) == {m[q] : q \in Tasks} \ {0}

\* mm_count counts them.
CountedIn(m, c) ==
    /\ m \in [Tasks -> Paging!Frames \cup {0}] /\ c \in [Paging!Frames -> Int]
    /\ \A q \in Tasks : m[q] # 0 => c[m[q]] = Cardinality(Shares(m, m[q]))

KeptBy(ph, m, B, c) ==
    /\ CountedIn(m, c)
    /\ B \in [Paging!Frames -> Seq(Paging!Area)]
    /\ Kept(ph, LiveOf(m), B, {})
    /\ Filled(ph, LiveOf(m))

PagingInv == KeptBy(phys, mm_of, mmaps, mm_count)

PagingPart == running = "paging" => PagingInv
-----------------------------------------------------------------------------
LEMMA PagingConstants ==
  /\ NFrames \in Nat /\ NFrames > 0 /\ NPages \in Nat /\ NPages > 0
  /\ NPTEENTRY \in Nat /\ NPTEENTRY > 0
  /\ IsFiniteSet(Tasks)
  /\ None \notin Paging!Frames \cup Paging!Entry \cup Contents
  /\ 0 \notin Paging!Frames /\ 0 \in Paging!Pages
<1>1. Paging!PagingAssumption
  BY PagingAndHeapAssumption
<1>2. /\ {NFrames, NPages, NPTEENTRY} \subseteq Nat \ {0} /\ IsFiniteSet(Tasks)
      /\ None \notin Paging!Frames \cup Paging!Entry \cup Contents
  BY <1>1, Zenon DEF Paging!PagingAssumption, Paging!IsFiniteSet, IsFiniteSet
<1>3. QED
  BY <1>2 DEF Paging!Frames, Paging!Pages

\* Division by NPTEENTRY.
LEMMA DivisionBy ==
  ASSUME NEW n \in Nat, n > 0, NEW a \in Nat
  PROVE  /\ a \div n \in Nat /\ a % n \in 0 .. n - 1
         /\ a = n * (a \div n) + (a % n)
         /\ a \div n <= a
OBVIOUS

LEMMA DivisionGrows ==
  ASSUME NEW n \in Nat, n > 0, NEW a \in Nat, NEW b \in Nat, a <= b
  PROVE  a \div n <= b \div n
<1>1. /\ a \div n \in Nat /\ b \div n \in Nat /\ a % n \in 0 .. n - 1 /\ b % n \in 0 .. n - 1
      /\ a = n * (a \div n) + (a % n) /\ b = n * (b \div n) + (b % n)
  BY DivisionBy
<1> DEFINE x == a \div n
           y == b \div n
<1>2. SUFFICES ASSUME x >= y + 1 PROVE FALSE
  BY <1>1
<1>3. n * x >= n * (y + 1)
  <2> HIDE DEF x, y
  <2>1. x \in Nat /\ y \in Nat
    BY <1>1 DEF x, y
  <2>2. QED
    BY <1>2, <2>1
<1>4. n * (y + 1) = n * y + n
  <2> HIDE DEF x, y
  <2>1. y \in Nat
    BY <1>1 DEF y
  <2>2. QED
    BY <2>1
<1>5. QED
  BY <1>1, <1>3, <1>4

\* Where the entry of a page is.
LEMMA EntryOf ==
  /\ Paging!Dirs \subseteq Paging!Pages /\ 0 \in Paging!Dirs
  /\ \A a \in Paging!Pages : /\ Paging!PDX(a) \in Paging!Dirs
                             /\ Paging!PTX(a) \in 0 .. NPTEENTRY - 1
  /\ \A a, b \in Paging!Pages : a <= b => Paging!PDX(a) <= Paging!PDX(b)
  /\ \A a, b \in Paging!Pages :
        Paging!PDX(a) = Paging!PDX(b) /\ Paging!PTX(a) = Paging!PTX(b) => a = b
<1>1. /\ NPages \in Nat /\ NPages > 0 /\ NPTEENTRY \in Nat /\ NPTEENTRY > 0
      /\ Paging!Pages \subseteq Nat
  BY PagingConstants DEF Paging!Pages
<1>2. NPages - 1 \in Nat
  BY <1>1
<1>3. (NPages - 1) \div NPTEENTRY \in Nat /\ (NPages - 1) \div NPTEENTRY <= NPages - 1
  BY <1>1, <1>2, DivisionBy
<1>4. Paging!Dirs \subseteq Paging!Pages /\ 0 \in Paging!Dirs
  BY <1>1, <1>3 DEF Paging!Dirs, Paging!Pages, Paging!PDX
<1>5. ASSUME NEW a \in Paging!Pages
      PROVE  Paging!PDX(a) \in Paging!Dirs /\ Paging!PTX(a) \in 0 .. NPTEENTRY - 1
  <2>1. a \in Nat /\ a <= NPages - 1
    BY <1>1, <1>5 DEF Paging!Pages
  <2>2. a \div NPTEENTRY \in Nat /\ a % NPTEENTRY \in 0 .. NPTEENTRY - 1
    BY <1>1, <2>1, DivisionBy
  <2>3. a \div NPTEENTRY <= (NPages - 1) \div NPTEENTRY
    BY <1>1, <1>2, <2>1, DivisionGrows
  <2>4. QED
    BY <1>3, <2>2, <2>3 DEF Paging!Dirs, Paging!PDX, Paging!PTX
<1>6. ASSUME NEW a \in Paging!Pages, NEW b \in Paging!Pages, a <= b
      PROVE  Paging!PDX(a) <= Paging!PDX(b)
  <2>1. a \in Nat /\ b \in Nat
    BY <1>1
  <2>2. QED
    BY <1>1, <1>6, <2>1, DivisionGrows DEF Paging!PDX
<1>7. ASSUME NEW a \in Paging!Pages, NEW b \in Paging!Pages,
             Paging!PDX(a) = Paging!PDX(b), Paging!PTX(a) = Paging!PTX(b)
      PROVE  a = b
  <2>1. a \in Nat /\ b \in Nat
    BY <1>1
  <2>2. /\ a = NPTEENTRY * (a \div NPTEENTRY) + (a % NPTEENTRY)
        /\ b = NPTEENTRY * (b \div NPTEENTRY) + (b % NPTEENTRY)
    BY <1>1, <2>1, DivisionBy
  <2>3. QED
    BY <1>7, <2>2, Zenon DEF Paging!PDX, Paging!PTX
<1>8. QED
  BY <1>4, <1>5, <1>6, <1>7

\* A frame in hand is given a use; a frame is taken from its use.
LEMMA UsePut ==
  ASSUME NEW u, NEW avail, NEW K, Owned(u, avail, K),
         NEW q \in Keys, NEW f \in K, f \in Paging!Frames, u[q] = 0,
         NEW v, v = [u EXCEPT ![q] = f]
  PROVE  Owned(v, avail, K \ {f})
<1>1. /\ v \in [Keys -> Paging!Frames \cup {0}]
      /\ \A r \in Keys : v[r] = IF r = q THEN f ELSE u[r]
  BY DEF Owned
<1>2. \A r \in Keys : u[r] # f
  BY DEF Owned
<1>3. \A r, s \in Keys : v[r] # 0 /\ v[r] = v[s] => r = s
  BY <1>1, <1>2 DEF Owned
<1>4. \A g \in Paging!Frames : g \in avail \cup (K \ {f}) <=> \A r \in Keys : v[r] # g
  <2> SUFFICES ASSUME NEW g \in Paging!Frames
               PROVE  g \in avail \cup (K \ {f}) <=> \A r \in Keys : v[r] # g
    OBVIOUS
  <2>1. g \in avail \cup K <=> \A r \in Keys : u[r] # g
    BY DEF Owned
  <2>2. CASE g = f
    BY <1>1, <2>2 DEF Owned
  <2>3. CASE g # f
    <3>1. \A r \in Keys : v[r] # g <=> u[r] # g
      BY <1>1, <2>3, PagingConstants
    <3>2. QED
      BY <2>1, <2>3, <3>1
  <2>4. QED
    BY <2>2, <2>3
<1>5. QED
  BY <1>1, <1>3, <1>4 DEF Owned

LEMMA UseDrop ==
  ASSUME NEW u, NEW avail, NEW K, Owned(u, avail, K),
         NEW q \in Keys, u[q] # 0,
         NEW v, v = [u EXCEPT ![q] = 0]
  PROVE  /\ u[q] \in Paging!Frames /\ u[q] \notin avail \cup K
         /\ Owned(v, avail \cup {u[q]}, K)
<1>1. /\ v \in [Keys -> Paging!Frames \cup {0}]
      /\ \A r \in Keys : v[r] = IF r = q THEN 0 ELSE u[r]
  BY DEF Owned
<1>2. u[q] \in Paging!Frames /\ u[q] \notin avail \cup K
  BY DEF Owned
<1>3. \A r, s \in Keys : v[r] # 0 /\ v[r] = v[s] => r = s
  BY <1>1 DEF Owned
<1>4. ASSUME NEW g \in Paging!Frames
      PROVE  g \in (avail \cup {u[q]}) \cup K <=> \A r \in Keys : v[r] # g
  <2>1. g \in avail \cup K <=> \A r \in Keys : u[r] # g
    BY DEF Owned
  <2>2. CASE g = u[q]
    <3>1. \A r \in Keys : v[r] # g
      BY <1>1, <1>2, <2>2, PagingConstants DEF Owned
    <3>2. QED
      BY <2>2, <3>1
  <2>3. CASE g # u[q]
    <3>1. \A r \in Keys : v[r] # g <=> u[r] # g
      BY <1>1, <2>3, PagingConstants
    <3>2. QED
      BY <2>1, <2>3, <3>1
  <2>4. QED
    BY <2>2, <2>3
<1>5. QED
  BY <1>1, <1>2, <1>3, <1>4 DEF Owned

\* A free frame comes into the hands of the caller.
LEMMA UseTake ==
  ASSUME NEW u, NEW avail, NEW K, Owned(u, avail, K), NEW f \in avail
  PROVE  Owned(u, avail \ {f}, K \cup {f})
BY DEF Owned

-----------------------------------------------------------------------------
\* The uses, kind by kind.
LEMMA UsesAt ==
  ASSUME NEW ph, NEW D
  PROVE  /\ \A d \in Paging!Frames :
               /\ <<d, "dir", 0>> \in Keys
               /\ Uses(ph, D)[<<d, "dir", 0>>] = IF d \in D THEN d ELSE 0
         /\ \A d \in Paging!Frames, i \in Paging!Dirs :
               /\ <<d, "table", i>> \in Keys
               /\ Uses(ph, D)[<<d, "table", i>>] =
                     IF d \in D THEN ph.dir[d][i] ELSE 0
         /\ \A d \in Paging!Frames, a \in Paging!Pages :
               /\ <<d, "page", a>> \in Keys
               /\ Uses(ph, D)[<<d, "page", a>>] =
                     IF d \in D THEN FrameAt(ph, d, a) ELSE 0
<1>1. 0 \in Paging!Pages /\ Paging!Dirs \subseteq Paging!Pages
  BY EntryOf, PagingConstants
<1>2. QED
  BY <1>1 DEF Keys, Uses

\* There is nothing else.
LEMMA UsesOnly ==
  ASSUME NEW ph, NEW D, NEW q \in Keys, Uses(ph, D)[q] # 0
  PROVE  /\ q[1] \in D /\ q[1] \in Paging!Frames
         /\ \/ q = <<q[1], "dir", 0>> /\ Uses(ph, D)[q] = q[1]
            \/ /\ q[3] \in Paging!Dirs /\ q = <<q[1], "table", q[3]>>
               /\ Uses(ph, D)[q] = ph.dir[q[1]][q[3]]
            \/ /\ q[3] \in Paging!Pages /\ q = <<q[1], "page", q[3]>>
               /\ Uses(ph, D)[q] = FrameAt(ph, q[1], q[3])
<1>1. /\ q[1] \in Paging!Frames /\ q[2] \in {"dir", "table", "page"}
      /\ q[3] \in Paging!Pages /\ q = <<q[1], q[2], q[3]>>
  BY DEF Keys
<1>2. QED
  BY <1>1 DEF Uses

\* Uses(r, E) is what Uses(ph, D) is, but for one key.
UsesBut(ph, r, D, E, k) ==
    /\ \A d \in Paging!Frames : <<d, "dir", 0>> # k =>
          Uses(r, E)[<<d, "dir", 0>>] = Uses(ph, D)[<<d, "dir", 0>>]
    /\ \A d \in Paging!Frames, i \in Paging!Dirs : <<d, "table", i>> # k =>
          Uses(r, E)[<<d, "table", i>>] = Uses(ph, D)[<<d, "table", i>>]
    /\ \A d \in Paging!Frames, a \in Paging!Pages : <<d, "page", a>> # k =>
          Uses(r, E)[<<d, "page", a>>] = Uses(ph, D)[<<d, "page", a>>]

LEMMA UsesExcept ==
  ASSUME NEW ph, NEW r, NEW D, NEW E, NEW k \in Keys, NEW f,
         UsesBut(ph, r, D, E, k),
         Uses(r, E)[k] = f
  PROVE  Uses(r, E) = [Uses(ph, D) EXCEPT ![k] = f]
<1>1. ASSUME NEW q \in Keys, q # k
      PROVE  Uses(r, E)[q] = Uses(ph, D)[q]
  <2>1. CASE Uses(r, E)[q] # 0
    BY <1>1, <2>1, UsesOnly DEF UsesBut
  <2>2. CASE Uses(ph, D)[q] # 0
    BY <1>1, <2>2, UsesOnly DEF UsesBut
  <2>3. QED
    BY <2>1, <2>2
<1>2. Uses(r, E) = [q \in Keys |-> Uses(r, E)[q]]
      /\ DOMAIN Uses(ph, D) = Keys
  BY DEF Uses
<1>3. [Uses(ph, D) EXCEPT ![k] = f] =
         [q \in Keys |-> IF q = k THEN f ELSE Uses(ph, D)[q]]
  BY <1>2
<1> DEFINE x == Uses(r, E)
           y == Uses(ph, D)
<1> HIDE DEF x, y
<1>4. x = [q \in Keys |-> IF q = k THEN f ELSE y[q]]
  BY <1>1, <1>2 DEF x, y
<1>5. QED
  BY <1>3, <1>4 DEF x, y

\* What Owned says of directories and tables.
LEMMA TablesApart ==
  ASSUME NEW ph \in Phys, NEW D \in SUBSET Paging!Frames, NEW avail, NEW K,
         Owned(Uses(ph, D), avail, K)
  PROVE  /\ \A d \in D : d \notin avail \cup K
         /\ \A d, e \in D, i, j \in Paging!Dirs :
               ph.dir[d][i] # 0 /\ ph.dir[d][i] = ph.dir[e][j] => d = e /\ i = j
         /\ \A d \in D, i \in Paging!Dirs : ph.dir[d][i] # 0 =>
               ph.dir[d][i] \in Paging!Frames \ (avail \cup K \cup D)
<1> DEFINE u == Uses(ph, D)
<1>1. ASSUME NEW d \in D
      PROVE  d \notin avail \cup K
  <2>1. <<d, "dir", 0>> \in Keys /\ u[<<d, "dir", 0>>] = d /\ d \in Paging!Frames
    BY UsesAt
  <2> HIDE DEF u
  <2>2. QED
    BY <2>1 DEF u, Owned
<1>2. ASSUME NEW d \in D, NEW e \in D, NEW i \in Paging!Dirs, NEW j \in Paging!Dirs,
             ph.dir[d][i] # 0, ph.dir[d][i] = ph.dir[e][j]
      PROVE  d = e /\ i = j
  <2>1. /\ <<d, "table", i>> \in Keys /\ u[<<d, "table", i>>] = ph.dir[d][i]
        /\ <<e, "table", j>> \in Keys /\ u[<<e, "table", j>>] = ph.dir[e][j]
    BY UsesAt
  <2>2. <<d, "table", i>> = <<e, "table", j>>
    <3> HIDE DEF u
    <3>1. QED
      BY <1>2, <2>1 DEF u, Owned
  <2>3. QED
    BY <2>2
<1>3. ASSUME NEW d \in D, NEW i \in Paging!Dirs, ph.dir[d][i] # 0
      PROVE  ph.dir[d][i] \in Paging!Frames \ (avail \cup K \cup D)
  <2>1. <<d, "table", i>> \in Keys /\ u[<<d, "table", i>>] = ph.dir[d][i]
    BY UsesAt
  <2>2. u[<<d, "table", i>>] \in Paging!Frames
        /\ u[<<d, "table", i>>] \notin avail \cup K
    <3> HIDE DEF u
    <3>1. QED
      BY <1>3, <2>1 DEF u, Owned
  <2>3. ASSUME u[<<d, "table", i>>] \in D
        PROVE  FALSE
    <3> DEFINE e == u[<<d, "table", i>>]
    <3>1. <<e, "dir", 0>> \in Keys /\ u[<<e, "dir", 0>>] = e
      BY <2>3, UsesAt
    <3>2. <<e, "dir", 0>> = <<d, "table", i>>
      <4> HIDE DEF u
      <4>1. QED
        BY <1>3, <2>1, <3>1 DEF u, Owned
    <3>3. QED
      BY <3>2
  <2>4. QED
    BY <2>1, <2>2, <2>3
<1>4. QED
  BY <1>1, <1>2, <1>3

\* The entry at T and PTX(a), in the table of one page of one mm, is that of
\* no other page.
LEMMA EntrySet ==
  ASSUME NEW ph \in Phys, NEW D \in SUBSET Paging!Frames, NEW avail, NEW K,
         Owned(Uses(ph, D), avail, K),
         NEW d \in D, NEW a \in Paging!Pages,
         Paging!TableOf(ph, d, a) # 0, NEW x,
         NEW r, r.dir = ph.dir,
         r.table = [ph.table EXCEPT ![Paging!TableOf(ph, d, a)][Paging!PTX(a)] = x]
  PROVE  \A e \in D, b \in Paging!Pages :
            Paging!Pte(r, e, b) = IF e = d /\ b = a THEN x ELSE Paging!Pte(ph, e, b)
<1> DEFINE T == Paging!TableOf(ph, d, a)
<1> SUFFICES ASSUME NEW e \in D, NEW b \in Paging!Pages
             PROVE  Paging!Pte(r, e, b) = IF e = d /\ b = a THEN x
                                                            ELSE Paging!Pte(ph, e, b)
  OBVIOUS
<1>1. /\ Paging!PDX(a) \in Paging!Dirs /\ Paging!PDX(b) \in Paging!Dirs
      /\ Paging!PTX(a) \in 0 .. NPTEENTRY - 1 /\ Paging!PTX(b) \in 0 .. NPTEENTRY - 1
      /\ Paging!PDX(a) = Paging!PDX(b) /\ Paging!PTX(a) = Paging!PTX(b) => a = b
  BY EntryOf
<1>2. T \in Paging!Frames
      /\ ph.table \in [Paging!Frames -> [0 .. NPTEENTRY - 1 -> Paging!Entry \cup {None}]]
  BY <1>1 DEF Phys, Paging!TableOf
<1>3. Paging!TableOf(r, e, b) = Paging!TableOf(ph, e, b)
  BY DEF Paging!TableOf
<1>4. Paging!TableOf(ph, e, b) \in Paging!Frames \cup {0}
  BY <1>1 DEF Phys, Paging!TableOf
<1>5. Paging!TableOf(ph, e, b) = T => e = d /\ Paging!PDX(b) = Paging!PDX(a)
  BY <1>1, TablesApart DEF Paging!TableOf
<1>6. CASE Paging!TableOf(ph, e, b) = 0
  BY <1>3, <1>6 DEF Paging!Pte
<1>7. CASE Paging!TableOf(ph, e, b) # 0 /\ Paging!TableOf(ph, e, b) # T
  <2>1. r.table[Paging!TableOf(ph, e, b)] = ph.table[Paging!TableOf(ph, e, b)]
    BY <1>2, <1>4, <1>7
  <2>2. QED
    BY <1>3, <1>7, <2>1 DEF Paging!Pte
<1>8. CASE Paging!TableOf(ph, e, b) = T
  <2>1. r.table[T] = [ph.table[T] EXCEPT ![Paging!PTX(a)] = x]
    BY <1>2
  <2>2. r.table[T][Paging!PTX(b)] = IF Paging!PTX(b) = Paging!PTX(a) THEN x
                                    ELSE ph.table[T][Paging!PTX(b)]
    BY <1>1, <1>2, <2>1
  <2>3. Paging!PTX(b) = Paging!PTX(a) <=> b = a
    BY <1>1, <1>5, <1>8
  <2>4. QED
    BY <1>3, <1>5, <1>8, <2>2, <2>3 DEF Paging!Pte
<1>9. QED
  BY <1>6, <1>7, <1>8

\* What the entries of one mm decide.
LEMMA FollowsSame ==
  ASSUME NEW ph, NEW r, NEW d, NEW list, Follows(ph, d, list),
         \A b \in Paging!Pages : Paging!Pte(r, d, b) \in {Paging!Pte(ph, d, b), None},
         \A i \in Paging!Dirs : r.dir[d][i] \in {ph.dir[d][i], 0}
  PROVE  Follows(r, d, list)
BY DEF Follows

-----------------------------------------------------------------------------
\* The counts that go with the uses.
LEMMA CountDropped ==
  ASSUME NEW u, NEW avail, NEW K, Owned(u, avail, K),
         NEW ref \in [Paging!Frames -> Nat], Counted(u, avail, ref),
         NEW q \in Keys, u[q] # 0
  PROVE  Counted([u EXCEPT ![q] = 0], avail \cup {u[q]}, [ref EXCEPT ![u[q]] = 0])
<1> DEFINE f == u[q]
           v == [u EXCEPT ![q] = 0]
           n == [ref EXCEPT ![f] = 0]
<1>1. /\ f \in Paging!Frames
      /\ u \in [Keys -> Paging!Frames \cup {0}]
      /\ \A r \in Keys : u[r] = f => r = q
  BY DEF Owned
<1>2. \A r \in Keys : v[r] = IF r = q THEN 0 ELSE u[r]
  BY <1>1
<1>3. \A g \in Paging!Frames : n[g] = IF g = f THEN 0 ELSE ref[g]
  BY <1>1
<1>4. ASSUME NEW r \in Keys, v[r] # 0
      PROVE  n[v[r]] = IF r[2] = "dir" THEN 0 ELSE 1
  <2>1. v[r] = u[r] /\ u[r] # f /\ u[r] \in Paging!Frames
    BY <1>1, <1>2, <1>4
  <2>2. ref[u[r]] = IF r[2] = "dir" THEN 0 ELSE 1
    BY <1>4, <2>1 DEF Counted
  <2>3. QED
    BY <1>3, <2>1, <2>2
<1>5. ASSUME NEW g \in avail \cup {f}
      PROVE  n[g] = 0
  <2>1. g = f \/ ref[g] = 0
    BY <1>5 DEF Counted
  <2>2. CASE g \in DOMAIN ref
    BY <1>3, <2>1, <2>2
  <2>3. CASE g \notin DOMAIN ref
    BY <1>1, <1>5, <2>1, <2>3
  <2>4. QED
    BY <2>2, <2>3
<1> HIDE DEF v, n
<1>6. QED
  BY <1>4, <1>5 DEF Counted, v, n, f

LEMMA CountPut ==
  ASSUME NEW u, NEW avail, NEW K, Owned(u, avail, K),
         NEW ref \in [Paging!Frames -> Nat], Counted(u, avail, ref),
         NEW q \in Keys, NEW f \in K, f \in Paging!Frames,
         NEW n, n = IF q[2] = "dir" THEN 0 ELSE 1
  PROVE  Counted([u EXCEPT ![q] = f], avail, [ref EXCEPT ![f] = n])
<1>1. /\ u \in [Keys -> Paging!Frames \cup {0}]
      /\ \A r \in Keys : u[r] # f
      /\ f \notin avail
  BY DEF Owned
<1>2. QED
  BY <1>1 DEF Counted

\* The count of a frame in hand or just taken is nobody's concern.
LEMMA CountInHand ==
  ASSUME NEW u, NEW avail, NEW K, Owned(u, avail, K),
         NEW ref \in [Paging!Frames -> Nat], Counted(u, avail, ref),
         NEW f \in Paging!Frames, f \in avail \cup K, NEW n
  PROVE  Counted(u, avail \ {f}, [ref EXCEPT ![f] = n])
<1>1. /\ u \in [Keys -> Paging!Frames \cup {0}]
      /\ \A r \in Keys : u[r] # f
  BY DEF Owned
<1>2. QED
  BY <1>1 DEF Counted

\* Physical memory field by field.
LEMMA PhysFields ==
  ASSUME NEW ph \in Phys
  PROVE  /\ ph = [free |-> ph.free, ref |-> ph.ref, content |-> ph.content,
                  dir |-> ph.dir, table |-> ph.table, got |-> ph.got, ok |-> ph.ok]
         /\ ph.free \in SUBSET Paging!Frames
         /\ ph.ref \in [Paging!Frames -> Nat]
         /\ ph.content \in [Paging!Frames -> Contents \cup {None}]
         /\ ph.dir \in [Paging!Frames -> [Paging!Dirs -> Paging!Frames \cup {0}]]
         /\ ph.table \in [Paging!Frames ->
                            [0 .. NPTEENTRY - 1 -> Paging!Entry \cup {None}]]
         /\ ph.got \in Paging!Frames \cup {0} /\ ph.ok \in BOOLEAN
BY DEF Phys

LEMMA PhysExcept ==
  ASSUME NEW ph \in Phys, NEW x, NEW y
  PROVE  [ph EXCEPT !.ref = x, !.table = y]
            = [free |-> ph.free, ref |-> x, content |-> ph.content,
               dir |-> ph.dir, table |-> y, got |-> ph.got, ok |-> ph.ok]
<1> DEFINE n == [ph EXCEPT !.ref = x, !.table = y]
<1>1. ph = [free |-> ph.free, ref |-> ph.ref, content |-> ph.content,
            dir |-> ph.dir, table |-> ph.table, got |-> ph.got, ok |-> ph.ok]
  BY PhysFields
<1>2. PICK m : m = n
  OBVIOUS
<1>3. m = [free |-> ph.free, ref |-> x, content |-> ph.content,
           dir |-> ph.dir, table |-> y, got |-> ph.got, ok |-> ph.ok]
  BY <1>1, <1>2
<1>4. QED
  BY <1>2, <1>3

\* With the same directories and tables everything is mapped where it was.
LEMMA SameTables ==
  ASSUME NEW ph, NEW r, r.dir = ph.dir, r.table = ph.table, NEW D
  PROVE  /\ \A e, b : Paging!Pte(r, e, b) = Paging!Pte(ph, e, b)
         /\ Uses(r, D) = Uses(ph, D)
         /\ \A d, list : Follows(ph, d, list) => Follows(r, d, list)
<1>1. \A e, b : Paging!Pte(r, e, b) = Paging!Pte(ph, e, b)
  BY DEF Paging!Pte, Paging!TableOf
<1>2. Uses(r, D) = Uses(ph, D)
  BY <1>1 DEF Uses, FrameAt
<1>3. QED
  BY <1>1, <1>2 DEF Follows

-----------------------------------------------------------------------------
(* What the pages hold.                                                    *)

\* The entries of the mms D in r are those in ph, except that for page a of d.
EntriesExcept(ph, r, D, d, a, x) ==
    \A e \in D, b \in Paging!Pages :
        Paging!Pte(r, e, b) = IF e = d /\ b = a THEN x ELSE Paging!Pte(ph, e, b)

LEMMA PteType ==
  ASSUME NEW ph \in Phys, NEW d \in Paging!Frames, NEW a \in Paging!Pages
  PROVE  /\ Paging!TableOf(ph, d, a) \in Paging!Frames \cup {0}
         /\ Paging!Pte(ph, d, a) \in Paging!Entry \cup {None}
         /\ Paging!Pte(ph, d, a) # None =>
               /\ Paging!TableOf(ph, d, a) # 0
               /\ Paging!Pte(ph, d, a).frame \in Paging!Frames
               /\ Paging!Pte(ph, d, a).write \in BOOLEAN
               /\ Paging!Pte(ph, d, a).frame # 0
<1>1. Paging!PDX(a) \in Paging!Dirs /\ Paging!PTX(a) \in 0 .. NPTEENTRY - 1
  BY EntryOf
<1>2. Paging!TableOf(ph, d, a) \in Paging!Frames \cup {0}
  BY <1>1, PhysFields DEF Paging!TableOf
<1>3. Paging!TableOf(ph, d, a) # 0 =>
         ph.table[Paging!TableOf(ph, d, a)][Paging!PTX(a)] \in Paging!Entry \cup {None}
  <2> DEFINE T == Paging!TableOf(ph, d, a)
  <2>1. ph.table \in [Paging!Frames -> [0 .. NPTEENTRY - 1 -> Paging!Entry \cup {None}]]
    BY PhysFields
  <2>2. T \in Paging!Frames \cup {0}
    BY <1>2
  <2> HIDE DEF T
  <2>3. T # 0 => ph.table[T][Paging!PTX(a)] \in Paging!Entry \cup {None}
    BY <1>1, <2>1, <2>2
  <2>4. QED
    BY <2>3 DEF T
<1>4. Paging!Pte(ph, d, a) \in Paging!Entry \cup {None}
      /\ (Paging!Pte(ph, d, a) # None => Paging!TableOf(ph, d, a) # 0)
  BY <1>3 DEF Paging!Pte
<1>5. QED
  BY <1>2, <1>4, PagingConstants DEF Paging!Entry

\* Of the frames f alone has changed.
OnlyContent(ph, r, f) ==
    \A g \in Paging!Frames : g # f => r.content[g] = ph.content[g]

NoPage(ph, D, f) == \A e \in D, b \in Paging!Pages : FrameAt(ph, e, b) # f

\* A frame that is free, in hand, a directory or a table is not that of a page,
\* and that of a page is not that of another.
LEMMA PagesApart ==
  ASSUME NEW ph \in Phys, NEW D \in SUBSET Paging!Frames, NEW avail, NEW K,
         Owned(Uses(ph, D), avail, K)
  PROVE  /\ \A f \in Paging!Frames :
               f \in avail \cup K \cup D => NoPage(ph, D, f)
         /\ \A d \in D, i \in Paging!Dirs :
               ph.dir[d][i] # 0 => NoPage(ph, D, ph.dir[d][i])
         /\ \A d, e \in D, a, b \in Paging!Pages :
               FrameAt(ph, d, a) # 0 /\ FrameAt(ph, d, a) = FrameAt(ph, e, b)
               => d = e /\ a = b
<1> DEFINE u == Uses(ph, D)
<1>1. ASSUME NEW d \in D, NEW a \in Paging!Pages
      PROVE  <<d, "page", a>> \in Keys /\ u[<<d, "page", a>>] = FrameAt(ph, d, a)
  BY UsesAt
<1>2. \A f \in Paging!Frames : f \in avail \cup K <=> \A q \in Keys : u[q] # f
  <2> HIDE DEF u
  <2>1. QED
    BY DEF u, Owned
<1>3. ASSUME NEW f \in Paging!Frames, f \in avail \cup K
      PROVE  NoPage(ph, D, f)
  <2> HIDE DEF u
  <2>1. QED
    BY <1>1, <1>2, <1>3 DEF NoPage
<1>4. ASSUME NEW f \in D
      PROVE  NoPage(ph, D, f)
  <2>1. <<f, "dir", 0>> \in Keys /\ u[<<f, "dir", 0>>] = f /\ f # 0
    BY UsesAt, PagingConstants
  <2>2. ASSUME NEW e \in D, NEW b \in Paging!Pages, FrameAt(ph, e, b) = f
        PROVE  FALSE
    <3>1. <<e, "page", b>> \in Keys /\ u[<<e, "page", b>>] = f
      BY <1>1, <2>2
    <3>2. <<f, "dir", 0>> = <<e, "page", b>>
      <4> HIDE DEF u
      <4>1. QED
        BY <2>1, <3>1 DEF u, Owned
    <3>3. QED
      BY <3>2
  <2>3. QED
    BY <2>2 DEF NoPage
<1>5. ASSUME NEW d \in D, NEW i \in Paging!Dirs, ph.dir[d][i] # 0
      PROVE  NoPage(ph, D, ph.dir[d][i])
  <2>1. <<d, "table", i>> \in Keys /\ u[<<d, "table", i>>] = ph.dir[d][i]
    BY UsesAt
  <2>2. ASSUME NEW e \in D, NEW b \in Paging!Pages, FrameAt(ph, e, b) = ph.dir[d][i]
        PROVE  FALSE
    <3>1. <<e, "page", b>> \in Keys /\ u[<<e, "page", b>>] = ph.dir[d][i]
      BY <1>1, <2>2
    <3>2. <<d, "table", i>> = <<e, "page", b>>
      <4> HIDE DEF u
      <4>1. QED
        BY <1>5, <2>1, <3>1 DEF u, Owned
    <3>3. QED
      BY <3>2
  <2>3. QED
    BY <2>2 DEF NoPage
<1>6. ASSUME NEW d \in D, NEW e \in D, NEW a \in Paging!Pages, NEW b \in Paging!Pages,
             FrameAt(ph, d, a) # 0, FrameAt(ph, d, a) = FrameAt(ph, e, b)
      PROVE  d = e /\ a = b
  <2>1. /\ <<d, "page", a>> \in Keys /\ u[<<d, "page", a>>] = FrameAt(ph, d, a)
        /\ <<e, "page", b>> \in Keys /\ u[<<e, "page", b>>] = FrameAt(ph, e, b)
    BY <1>1
  <2>2. <<d, "page", a>> = <<e, "page", b>>
    <3> HIDE DEF u
    <3>1. QED
      BY <1>6, <2>1 DEF u, Owned
  <2>3. QED
    BY <2>2
<1>7. QED
  BY <1>3, <1>4, <1>5, <1>6

\* Entries that stay lead to contents that stay.
LEMMA HoldsSame ==
  ASSUME NEW ph \in Phys, NEW D \in SUBSET Paging!Frames, NEW r, NEW f,
         \A e \in D, b \in Paging!Pages : Paging!Pte(r, e, b) = Paging!Pte(ph, e, b),
         NoPage(ph, D, f), OnlyContent(ph, r, f)
  PROVE  Same(ph, r, D)
<1> SUFFICES ASSUME NEW e \in D, NEW b \in Paging!Pages
             PROVE  Holds(r, e, b) = Holds(ph, e, b)
  BY DEF Same
<1>1. CASE Paging!Pte(ph, e, b) = None
  BY <1>1 DEF Holds
<1>2. CASE Paging!Pte(ph, e, b) # None
  <2>1. Paging!Pte(ph, e, b).frame \in Paging!Frames /\ Paging!Pte(ph, e, b).frame # f
    BY <1>2, PteType DEF NoPage, FrameAt
  <2>2. QED
    BY <1>2, <2>1 DEF Holds, OnlyContent
<1>3. QED
  BY <1>1, <1>2

LEMMA HoldsBut ==
  ASSUME NEW ph \in Phys, NEW D \in SUBSET Paging!Frames, NEW r, NEW f,
         NEW d \in D, NEW a \in Paging!Pages, NEW x,
         EntriesExcept(ph, r, D, d, a, x), OnlyContent(ph, r, f),
         \A e \in D, b \in Paging!Pages :
            FrameAt(ph, e, b) = f /\ f # 0 => e = d /\ b = a
  PROVE  SameBut(ph, r, D, d, a, IF x = None THEN {} ELSE {r.content[x.frame]})
<1> DEFINE h == IF x = None THEN {} ELSE {r.content[x.frame]}
<1> SUFFICES ASSUME NEW e \in D, NEW b \in Paging!Pages
             PROVE  Holds(r, e, b) = IF e = d /\ b = a THEN h ELSE Holds(ph, e, b)
  BY DEF SameBut
<1>1. CASE e = d /\ b = a
  BY <1>1 DEF Holds, EntriesExcept
<1>2. CASE ~(e = d /\ b = a)
  <2>1. Paging!Pte(r, e, b) = Paging!Pte(ph, e, b)
    BY <1>2 DEF EntriesExcept
  <2>2. CASE Paging!Pte(ph, e, b) = None
    BY <1>2, <2>1, <2>2 DEF Holds
  <2>3. CASE Paging!Pte(ph, e, b) # None
    <3>1. /\ Paging!Pte(ph, e, b).frame \in Paging!Frames
          /\ Paging!Pte(ph, e, b).frame # 0
      BY <2>3, PteType
    <3>2. Paging!Pte(ph, e, b).frame # f
      BY <1>2, <2>3, <3>1 DEF FrameAt
    <3>3. QED
      BY <1>2, <2>1, <2>3, <3>1, <3>2 DEF Holds, OnlyContent
  <2>4. QED
    BY <2>2, <2>3
<1>3. QED
  BY <1>1, <1>2

-----------------------------------------------------------------------------
\* alloc_page gives a free frame, or says that there is none.
Allocated(ph, n) ==
    /\ n \in Phys /\ n.ok /\ n.got \in ph.free
    /\ n.free = ph.free \ {n.got} /\ n.ref = [ph.ref EXCEPT ![n.got] = 0]
    /\ n.dir = ph.dir /\ n.table = ph.table
    /\ OnlyContent(ph, n, n.got)

LEMMA AllocIs ==
  ASSUME NEW ph \in Phys, ph.ok, NEW v \in Contents \cup {None},
         Paging!alloc_page(ph, v).ok
  PROVE  /\ Allocated(ph, Paging!alloc_page(ph, v))
         /\ Paging!alloc_page(ph, v).content[Paging!alloc_page(ph, v).got] = v
<1>1. ph.free # {}
  BY PhysFields DEF Paging!alloc_page
<1>2. Paging!Min(ph.free) \in ph.free
  BY <1>1, PhysFields, MinInSet DEF Paging!Min, Min, Paging!Frames
<1>3. PICK f \in ph.free :
         Paging!alloc_page(ph, v) = [ph EXCEPT !.free = ph.free \ {f}, !.ref[f] = 0,
                                               !.content[f] = v, !.got = f]
  BY <1>1, <1>2 DEF Paging!alloc_page
<1> DEFINE n == Paging!alloc_page(ph, v)
<1> HIDE DEF n
<1>4. n = [free |-> ph.free \ {f}, ref |-> [ph.ref EXCEPT ![f] = 0],
           content |-> [ph.content EXCEPT ![f] = v], dir |-> ph.dir,
           table |-> ph.table, got |-> f, ok |-> ph.ok]
  <2>1. n = [ph EXCEPT !.free = ph.free \ {f}, !.ref = [ph.ref EXCEPT ![f] = 0],
                       !.content = [ph.content EXCEPT ![f] = v], !.got = f]
    BY <1>3 DEF n
  <2>2. ph = [free |-> ph.free, ref |-> ph.ref, content |-> ph.content,
              dir |-> ph.dir, table |-> ph.table, got |-> ph.got, ok |-> ph.ok]
    BY PhysFields
  <2>3. QED
    BY <2>1, <2>2
<1>5. n \in Phys
  <2>1. f \in Paging!Frames
    BY PhysFields
  <2>2. [ph.ref EXCEPT ![f] = 0] \in [Paging!Frames -> Nat]
    BY PhysFields
  <2>3. [ph.content EXCEPT ![f] = v] \in [Paging!Frames -> Contents \cup {None}]
    BY PhysFields
  <2>4. QED
    BY <1>4, <2>1, <2>2, <2>3, PhysFields DEF Phys
<1>6. n.content[n.got] = v /\ OnlyContent(ph, n, n.got)
  <2>1. f \in Paging!Frames /\ ph.content \in [Paging!Frames -> Contents \cup {None}]
    BY PhysFields
  <2>2. n.got = f /\ n.content = [ph.content EXCEPT ![f] = v]
    BY <1>4
  <2>3. QED
    BY <2>1, <2>2 DEF OnlyContent
<1>7. QED
  BY <1>4, <1>5, <1>6 DEF Allocated, n

LEMMA AllocKeeps ==
  ASSUME NEW ph, NEW D, NEW A, NEW K, Kept(ph, D, A, K), NEW n, Allocated(ph, n)
  PROVE  /\ n.got \in Paging!Frames /\ n.got \notin K
         /\ Kept(n, D, A, K \cup {n.got})
         /\ n.ref[n.got] = 0
         /\ Same(ph, n, D)
<1>1. n.got \in Paging!Frames /\ n.got \notin K /\ ph.ref \in [Paging!Frames -> Nat]
  BY DEF Kept, Owned, Allocated, Phys
<1>2. Uses(n, D) = Uses(ph, D) /\ \A d, list : Follows(ph, d, list) => Follows(n, d, list)
  BY SameTables DEF Allocated
<1>3. Owned(Uses(n, D), n.free, K \cup {n.got})
  BY <1>2, UseTake DEF Kept, Allocated
<1>4. Counted(Uses(n, D), n.free, n.ref)
  <2>1. Counted(Uses(ph, D), ph.free \ {n.got}, [ph.ref EXCEPT ![n.got] = 0])
    BY <1>1, CountInHand DEF Kept, Allocated
  <2>2. QED
    BY <1>2, <2>1 DEF Allocated
<1>5. Same(ph, n, D)
  <2>1. \A e \in D, b \in Paging!Pages : Paging!Pte(n, e, b) = Paging!Pte(ph, e, b)
    BY SameTables DEF Allocated
  <2>2. NoPage(ph, D, n.got)
    BY <1>1, PagesApart DEF Kept, Allocated
  <2>3. QED
    BY <2>1, <2>2, HoldsSame DEF Kept, Allocated
<1>6. QED
  BY <1>1, <1>2, <1>3, <1>4, <1>5 DEF Kept, Allocated

-----------------------------------------------------------------------------
\* The uses change as the entry does.
LEMMA UsesEntry ==
  ASSUME NEW ph \in Phys, NEW r, NEW D \in SUBSET Paging!Frames,
         NEW d \in D, NEW a \in Paging!Pages, NEW x,
         r.dir = ph.dir, EntriesExcept(ph, r, D, d, a, x)
  PROVE  /\ <<d, "page", a>> \in Keys
         /\ Uses(ph, D)[<<d, "page", a>>] = FrameAt(ph, d, a)
         /\ Uses(r, D) = [Uses(ph, D) EXCEPT ![<<d, "page", a>>] =
                             IF x = None THEN 0 ELSE x.frame]
<1> DEFINE k == <<d, "page", a>>
           f == IF x = None THEN 0 ELSE x.frame
<1>1. k \in Keys /\ Uses(ph, D)[k] = FrameAt(ph, d, a)
      /\ Uses(r, D)[k] = FrameAt(r, d, a)
  BY UsesAt
<1>2. Uses(r, D)[k] = f
  BY <1>1 DEF EntriesExcept, FrameAt
<1>3. \A e \in Paging!Frames : <<e, "dir", 0>> # k =>
         Uses(r, D)[<<e, "dir", 0>>] = Uses(ph, D)[<<e, "dir", 0>>]
  BY UsesAt
<1>4. \A e \in Paging!Frames, i \in Paging!Dirs : <<e, "table", i>> # k =>
         Uses(r, D)[<<e, "table", i>>] = Uses(ph, D)[<<e, "table", i>>]
  BY UsesAt
<1>5. \A e \in Paging!Frames, b \in Paging!Pages : <<e, "page", b>> # k =>
         Uses(r, D)[<<e, "page", b>>] = Uses(ph, D)[<<e, "page", b>>]
  <2> SUFFICES ASSUME NEW e \in Paging!Frames, NEW b \in Paging!Pages,
                      <<e, "page", b>> # k
               PROVE  Uses(r, D)[<<e, "page", b>>] = Uses(ph, D)[<<e, "page", b>>]
    OBVIOUS
  <2>1. ~(e = d /\ b = a)
    OBVIOUS
  <2>2. e \in D => FrameAt(r, e, b) = FrameAt(ph, e, b)
    BY <2>1 DEF EntriesExcept, FrameAt
  <2>3. QED
    BY <2>2, UsesAt
<1> HIDE DEF k, f
<1>6. Uses(r, D) = [Uses(ph, D) EXCEPT ![k] = f]
  <2>1. UsesBut(ph, r, D, D, k)
    BY <1>3, <1>4, <1>5 DEF UsesBut
  <2>2. QED
    BY <1>1, <1>2, <2>1, UsesExcept
<1>7. QED
  BY <1>1, <1>6 DEF k, f

\* page_remove_pte takes the page out, and its frame back.
LEMMA RemoveKeeps ==
  ASSUME NEW ph, NEW D, NEW A, NEW K, Kept(ph, D, A, K),
         NEW d \in D, NEW a \in Paging!Pages,
         NEW r, r = Paging!page_remove_pte(ph, d, a)
  PROVE  /\ Kept(r, D, A, K)
         /\ r.dir = ph.dir /\ r.got = ph.got
         /\ EntriesExcept(ph, r, D, d, a, None)
         /\ \A f \in K : r.ref[f] = ph.ref[f] /\ r.content[f] = ph.content[f]
         /\ SameBut(ph, r, D, d, a, {})
<1>1. ph \in Phys /\ D \in SUBSET Paging!Frames /\ d \in Paging!Frames
  BY DEF Kept
<1>2. CASE Paging!Pte(ph, d, a) = None
  <2>1. r = ph
    BY <1>2 DEF Paging!page_remove_pte
  <2>2. QED
    BY <1>2, <2>1 DEF EntriesExcept, SameBut, Holds
<1>3. CASE Paging!Pte(ph, d, a) # None
  <2> DEFINE f == Paging!Pte(ph, d, a).frame
             T == Paging!TableOf(ph, d, a)
             k == <<d, "page", a>>
             u == Uses(ph, D)
  <2>1. f \in Paging!Frames /\ f # 0 /\ T \in Paging!Frames /\ T # 0
    BY <1>1, <1>3, PteType
  <2>2. k \in Keys /\ k[2] # "dir" /\ u[k] = f
    BY <1>1, <1>3, UsesAt DEF FrameAt
  <2>3. ph.ref[f] = 1
    <3> HIDE DEF k, u
    <3>1. QED
      BY <2>1, <2>2 DEF Kept, Counted, u
  <2>4. f \notin ph.free \cup K
    <3> HIDE DEF k, u
    <3>1. QED
      BY <2>1, <2>2 DEF Kept, Owned, u
  <2> DEFINE ref == [ph.ref EXCEPT ![f] = 0]
             contents == [ph.content EXCEPT ![f] = None]
             table == [ph.table EXCEPT ![T][Paging!PTX(a)] = None]
  <2>5. r = [free |-> ph.free \cup {f}, ref |-> ref, content |-> contents,
             dir |-> ph.dir, table |-> table, got |-> ph.got, ok |-> ph.ok]
    <3> DEFINE x == [ph.ref EXCEPT ![f] = ph.ref[f] - 1]
               dec == [free |-> ph.free, ref |-> x, content |-> ph.content,
                       dir |-> ph.dir, table |-> table, got |-> ph.got, ok |-> ph.ok]
    <3>1. [ph EXCEPT !.ref[f] = @ - 1, !.table[T][Paging!PTX(a)] = None] = dec
      <4>1. [ph EXCEPT !.ref[f] = @ - 1, !.table[T][Paging!PTX(a)] = None]
               = [ph EXCEPT !.ref = x, !.table = table]
        OBVIOUS
      <4> HIDE DEF f, T, table, x
      <4>2. QED
        BY <1>1, <4>1, PhysExcept
    <3>2. x[f] = 0 /\ [x EXCEPT ![f] = 0] = ref
      <4>1. ph.ref \in [Paging!Frames -> Nat]
        BY <1>1, PhysFields
      <4>2. QED
        BY <2>1, <2>3, <4>1
    <3>3. r = Paging!free_page(dec, f)
      <4>1. dec.ref[f] = 0
        BY <3>2
      <4> HIDE DEF dec
      <4>2. QED
        BY <1>3, <3>1, <4>1 DEF Paging!page_remove_pte
    <3> HIDE DEF f, T, table, x
    <3>4. QED
      BY <3>2, <3>3 DEF Paging!free_page
  <2>6. /\ ref \in [Paging!Frames -> Nat]
        /\ contents \in [Paging!Frames -> Contents \cup {None}]
        /\ table \in [Paging!Frames -> [0 .. NPTEENTRY - 1 -> Paging!Entry \cup {None}]]
    BY <1>1, <2>1, PhysFields
  <2>7. \A g \in K : ref[g] = ph.ref[g] /\ contents[g] = ph.content[g]
    <3>1. /\ ph.ref \in [Paging!Frames -> Nat]
          /\ ph.content \in [Paging!Frames -> Contents \cup {None}]
      BY <1>1, PhysFields
    <3>2. \A g \in K : g # f
      BY <2>4
    <3>3. QED
      BY <3>1, <3>2
  <2>8. EntriesExcept(ph, r, D, d, a, None)
    <3>1. r.dir = ph.dir /\ r.table = table
      BY <2>5
    <3>2. Owned(Uses(ph, D), ph.free, K)
      BY DEF Kept
    <3>3. QED
      BY <1>1, <2>1, <3>1, <3>2, EntrySet DEF EntriesExcept
  <2>9. /\ r.dir = ph.dir /\ r.free = ph.free \cup {f} /\ r.ref = ref /\ r.ok = ph.ok
        /\ r.got = ph.got /\ r.content = contents
    BY <2>5
  <2>15. SameBut(ph, r, D, d, a, {})
    <3>1. OnlyContent(ph, r, f)
      <4>1. ph.content \in [Paging!Frames -> Contents \cup {None}]
        BY <1>1, PhysFields
      <4>2. QED
        BY <2>9, <4>1 DEF OnlyContent
    <3>2. FrameAt(ph, d, a) = f
      BY <1>3 DEF FrameAt
    <3> HIDE DEF f, contents
    <3>3. \A e \in D, b \in Paging!Pages :
             FrameAt(ph, e, b) = f /\ f # 0 => e = d /\ b = a
      BY <1>1, <3>2, PagesApart DEF Kept
    <3>4. SameBut(ph, r, D, d, a, IF None = None THEN {} ELSE {r.content[None.frame]})
      BY <1>1, <2>8, <3>1, <3>3, HoldsBut
    <3>5. QED
      BY <3>4
  <2>10. r \in Phys
    <3> HIDE DEF f, ref, contents, table
    <3>1. ph.free \cup {f} \in SUBSET Paging!Frames
      BY <1>1, <2>1, PhysFields
    <3>2. QED
      BY <1>1, <2>5, <2>6, <3>1, PhysFields DEF Phys
  <2>11. Uses(r, D) = [u EXCEPT ![k] = 0]
    BY <1>1, <2>8, <2>9, UsesEntry
  <2>12. Owned(Uses(r, D), r.free, K) /\ Counted(Uses(r, D), r.free, r.ref)
    <3>1. /\ Owned(u, ph.free, K) /\ Counted(u, ph.free, ph.ref)
          /\ ph.ref \in [Paging!Frames -> Nat]
      BY <1>1, PhysFields DEF Kept
    <3> HIDE DEF u, k, f
    <3>2. Owned([u EXCEPT ![k] = 0], ph.free \cup {f}, K)
      BY <2>1, <2>2, <3>1, UseDrop
    <3>3. Counted([u EXCEPT ![k] = 0], ph.free \cup {f}, [ph.ref EXCEPT ![f] = 0])
      BY <2>1, <2>2, <3>1, CountDropped
    <3>4. QED
      BY <2>9, <2>11, <3>2, <3>3
  <2>13. \A e \in D : Follows(r, e, A[e])
    <3> SUFFICES ASSUME NEW e \in D PROVE Follows(r, e, A[e])
      OBVIOUS
    <3>1. Follows(ph, e, A[e])
      BY DEF Kept
    <3>2. \A b \in Paging!Pages : Paging!Pte(r, e, b) \in {Paging!Pte(ph, e, b), None}
      BY <2>8 DEF EntriesExcept
    <3>3. QED
      BY <2>9, <3>1, <3>2, FollowsSame
  <2>14. QED
    <3> HIDE DEF ref, f, contents
    <3>1. ph.ok
      BY DEF Kept
    <3>2. \A e \in D : A[e] \in Seq(Paging!Area)
      BY DEF Kept
    <3>3. QED
      BY <1>1, <2>7, <2>8, <2>9, <2>10, <2>12, <2>13, <2>15, <3>1, <3>2 DEF Kept
<1>4. QED
  BY <1>2, <1>3

-----------------------------------------------------------------------------
\* A table for a page of an area lies within what exit_range looks at.
LEMMA AreaPages ==
  ASSUME NEW vma \in Paging!Area
  PROVE  /\ vma.vm_start \in Paging!Pages /\ vma.vm_end - 1 \in Paging!Pages
         /\ vma.vm_start \in Nat /\ vma.vm_end \in Nat
         /\ vma.vm_start < vma.vm_end
BY PagingConstants DEF Paging!Area, Paging!Pages

LEMMA TableWithin ==
  ASSUME NEW list \in Seq(Paging!Area), NEW a \in Paging!Pages,
         Paging!AreaAt(list, a) # {}
  PROVE  \E vma \in ToSet(list) : /\ Paging!PDX(vma.vm_start) <= Paging!PDX(a)
                                  /\ Paging!PDX(a) <= Paging!PDX(vma.vm_end - 1)
<1>1. PICK vma \in ToSet(list) : vma.vm_start <= a /\ a < vma.vm_end
  BY DEF Paging!AreaAt, Paging!ToSet, ToSet
<1>2. vma \in Paging!Area
  BY SequenceIs DEF ToSet
<1>3. vma.vm_start <= a /\ a <= vma.vm_end - 1
  BY <1>1, <1>2, AreaPages, PagingConstants DEF Paging!Pages
<1>4. QED
  BY <1>2, <1>3, AreaPages, EntryOf

\* get_pte puts a table where there was none, and maps nothing.
LEMMA TableKeeps ==
  ASSUME NEW ph, NEW D, NEW A, NEW K, Kept(ph, D, A, K),
         NEW d \in D, NEW a \in Paging!Pages, Paging!AreaAt(A[d], a) # {},
         NEW n, n = Paging!get_pte(ph, d, a), n.ok
  PROVE  /\ Kept(n, D, A, K)
         /\ Paging!TableOf(n, d, a) # 0
         /\ \A e \in D, b \in Paging!Pages : Paging!Pte(n, e, b) = Paging!Pte(ph, e, b)
         /\ \A f \in K : n.ref[f] = ph.ref[f] /\ n.content[f] = ph.content[f]
         /\ Same(ph, n, D)
<1>1. ph \in Phys /\ D \in SUBSET Paging!Frames /\ d \in Paging!Frames /\ ph.ok
  BY DEF Kept
<1>2. CASE Paging!TableOf(ph, d, a) # 0
  <2>1. n = ph
    BY <1>2 DEF Paging!get_pte
  <2>2. QED
    BY <1>2, <2>1 DEF Same
<1>3. CASE Paging!TableOf(ph, d, a) = 0
  <2>1. PICK new : /\ new = Paging!alloc_page(ph, None)
                   /\ n = IF ~new.ok THEN new
                          ELSE [new EXCEPT !.ref[new.got] = 1,
                                           !.dir[d][Paging!PDX(a)] = new.got,
                                           !.table[new.got] = Paging!NoTable]
    BY <1>1, <1>3 DEF Paging!get_pte
  <2>2. Allocated(ph, new)
    BY <1>1, <2>1, AllocIs
  <2> DEFINE t == new.got
             i == Paging!PDX(a)
             k == <<d, "table", i>>
             ref == [new.ref EXCEPT ![t] = 1]
             dir == [new.dir EXCEPT ![d] = [new.dir[d] EXCEPT ![i] = t]]
             table == [new.table EXCEPT ![t] = Paging!NoTable]
  <2>3. /\ new \in Phys /\ new.ok /\ t \in Paging!Frames /\ t \notin K
        /\ t \in ph.free /\ new.dir = ph.dir /\ new.table = ph.table
        /\ Kept(new, D, A, K \cup {t})
        /\ new.ref = [ph.ref EXCEPT ![t] = 0]
    BY <2>2, AllocKeeps DEF Allocated
  <2>4. i \in Paging!Dirs /\ ph.dir[d][i] = 0
    BY <1>3, EntryOf DEF Paging!TableOf
  <2>5. n = [free |-> new.free, ref |-> ref, content |-> new.content,
             dir |-> dir, table |-> table, got |-> t, ok |-> new.ok]
    <3>1. n = [new EXCEPT !.ref[new.got] = 1,
                          !.dir[d][Paging!PDX(a)] = new.got,
                          !.table[new.got] = Paging!NoTable]
      BY <2>1, <2>3
    <3>2. n = [new EXCEPT !.ref = ref, !.dir = dir, !.table = table]
      BY <3>1
    <3>3. new = [free |-> new.free, ref |-> new.ref, content |-> new.content,
                 dir |-> new.dir, table |-> new.table, got |-> new.got,
                 ok |-> new.ok]
      BY <2>3, PhysFields
    <3> HIDE DEF ref, dir, table
    <3>4. QED
      BY <3>2, <3>3
  <2>6. /\ ref \in [Paging!Frames -> Nat]
        /\ dir \in [Paging!Frames -> [Paging!Dirs -> Paging!Frames \cup {0}]]
        /\ table \in [Paging!Frames -> [0 .. NPTEENTRY - 1 -> Paging!Entry \cup {None}]]
    <3>1. /\ new.ref \in [Paging!Frames -> Nat]
          /\ new.dir \in [Paging!Frames -> [Paging!Dirs -> Paging!Frames \cup {0}]]
          /\ new.table \in [Paging!Frames -> [0 .. NPTEENTRY - 1 -> Paging!Entry \cup {None}]]
      BY <2>3, PhysFields
    <3> HIDE DEF t, i
    <3>2. QED
      BY <1>1, <2>3, <2>4, <3>1 DEF Paging!NoTable
  <2>7. n \in Phys
    <3> HIDE DEF ref, dir, table, t
    <3>1. QED
      BY <2>3, <2>5, <2>6, PhysFields DEF Phys
  <2>8. /\ n.free = new.free /\ n.ref = ref /\ n.dir = dir /\ n.table = table /\ n.ok
        /\ n.content = new.content
    <3> HIDE DEF ref, dir, table, t
    <3>1. QED
      BY <2>3, <2>5
  <2>9. \A e \in D, j \in Paging!Dirs :
           n.dir[e][j] = IF e = d /\ j = i THEN t ELSE ph.dir[e][j]
    <3>1. ph.dir \in [Paging!Frames -> [Paging!Dirs -> Paging!Frames \cup {0}]]
      BY <1>1, PhysFields
    <3>2. QED
      BY <1>1, <2>3, <2>4, <2>8, <3>1
  <2>10. \A f \in Paging!Frames : n.table[f] = IF f = t THEN Paging!NoTable
                                                       ELSE ph.table[f]
    BY <2>3, <2>6, <2>8
  <2>11. ASSUME NEW e \in D, NEW b \in Paging!Pages
         PROVE  Paging!Pte(n, e, b) = Paging!Pte(ph, e, b)
    <3>1. /\ Paging!PDX(b) \in Paging!Dirs /\ Paging!PTX(b) \in 0 .. NPTEENTRY - 1
          /\ e \in Paging!Frames
      BY <1>1, EntryOf
    <3>2. CASE e = d /\ Paging!PDX(b) = i
      <4>1. ph.dir[e][Paging!PDX(b)] = 0 /\ n.dir[e][Paging!PDX(b)] = t
        <5>1. ph.dir[e][Paging!PDX(b)] = 0
          BY <2>4, <3>2
        <5>2. n.dir[e][Paging!PDX(b)] = t
          BY <2>9, <3>1, <3>2
        <5>3. QED
          BY <5>1, <5>2
      <4>2. n.table[t][Paging!PTX(b)] = None
        <5>1. n.table[t] = Paging!NoTable
          BY <2>3, <2>10
        <5>2. Paging!NoTable[Paging!PTX(b)] = None
          BY <3>1 DEF Paging!NoTable
        <5>3. QED
          BY <5>1, <5>2
      <4>3. QED
        BY <4>1, <4>2 DEF Paging!Pte, Paging!TableOf
    <3>3. CASE ~(e = d /\ Paging!PDX(b) = i)
      <4>1. Paging!TableOf(n, e, b) = Paging!TableOf(ph, e, b)
        BY <2>9, <3>1, <3>3 DEF Paging!TableOf
      <4>2. Paging!TableOf(ph, e, b) # 0 =>
               Paging!TableOf(ph, e, b) \in Paging!Frames \ ph.free
        <5>1. Owned(Uses(ph, D), ph.free, K)
          BY DEF Kept
        <5>2. QED
          BY <1>1, <3>1, <5>1, TablesApart DEF Paging!TableOf
      <4>3. Paging!TableOf(ph, e, b) # 0 =>
               n.table[Paging!TableOf(ph, e, b)] = ph.table[Paging!TableOf(ph, e, b)]
        BY <2>3, <2>10, <4>2
      <4>4. QED
        BY <4>1, <4>3 DEF Paging!Pte
    <3>4. QED
      BY <3>2, <3>3
  <2>12. Uses(n, D) = [Uses(new, D) EXCEPT ![k] = t] /\ k \in Keys /\ Uses(new, D)[k] = 0
    <3>1. \A e \in D, b \in Paging!Pages : Paging!Pte(n, e, b) = Paging!Pte(new, e, b)
      BY <2>3, <2>11, SameTables
    <3>2. \A e \in D, b \in Paging!Pages : FrameAt(n, e, b) = FrameAt(new, e, b)
      BY <3>1 DEF FrameAt
    <3>3. k \in Keys /\ Uses(new, D)[k] = 0 /\ Uses(n, D)[k] = t
      BY <1>1, <2>3, <2>4, <2>9, UsesAt
    <3>4. \A e \in Paging!Frames : <<e, "dir", 0>> # k =>
             Uses(n, D)[<<e, "dir", 0>>] = Uses(new, D)[<<e, "dir", 0>>]
      BY UsesAt
    <3>5. \A e \in Paging!Frames, b \in Paging!Pages : <<e, "page", b>> # k =>
             Uses(n, D)[<<e, "page", b>>] = Uses(new, D)[<<e, "page", b>>]
      BY <3>2, UsesAt
    <3>6. \A e \in Paging!Frames, j \in Paging!Dirs : <<e, "table", j>> # k =>
             Uses(n, D)[<<e, "table", j>>] = Uses(new, D)[<<e, "table", j>>]
      <4> SUFFICES ASSUME NEW e \in Paging!Frames, NEW j \in Paging!Dirs,
                          <<e, "table", j>> # k
                   PROVE  Uses(n, D)[<<e, "table", j>>] = Uses(new, D)[<<e, "table", j>>]
        OBVIOUS
      <4>1. ~(e = d /\ j = i)
        OBVIOUS
      <4>2. e \in D => n.dir[e][j] = new.dir[e][j]
        BY <2>3, <2>9, <4>1
      <4>3. QED
        BY <4>2, UsesAt
    <3> HIDE DEF k, t
    <3>7. UsesBut(new, n, D, D, k)
      BY <3>4, <3>5, <3>6 DEF UsesBut
    <3>8. QED
      BY <3>3, <3>7, UsesExcept
  <2>13. Owned(Uses(n, D), n.free, K) /\ Counted(Uses(n, D), n.free, n.ref)
    <3>1. /\ Owned(Uses(new, D), new.free, K \cup {t})
          /\ Counted(Uses(new, D), new.free, new.ref)
          /\ new.ref \in [Paging!Frames -> Nat]
      BY <2>3, PhysFields DEF Kept
    <3>2. (K \cup {t}) \ {t} = K
      BY <2>3
    <3>3. 1 = IF k[2] = "dir" THEN 0 ELSE 1
      OBVIOUS
    <3> HIDE DEF t, k
    <3>4. Owned([Uses(new, D) EXCEPT ![k] = t], new.free, K)
      <4>1. t \in K \cup {t}
        OBVIOUS
      <4>2. Owned([Uses(new, D) EXCEPT ![k] = t], new.free, (K \cup {t}) \ {t})
        BY <2>3, <2>12, <3>1, <4>1, UsePut
      <4>3. QED
        BY <3>2, <4>2
    <3>5. Counted([Uses(new, D) EXCEPT ![k] = t], new.free, [new.ref EXCEPT ![t] = 1])
      BY <2>3, <2>12, <3>1, <3>3, CountPut
    <3>6. QED
      BY <2>8, <2>12, <3>4, <3>5
  <2>14. ASSUME NEW e \in D
         PROVE  A[e] \in Seq(Paging!Area) /\ Follows(n, e, A[e])
    <3>1. A[e] \in Seq(Paging!Area) /\ Follows(ph, e, A[e])
      BY DEF Kept
    <3>2. \A j \in Paging!Dirs : n.dir[e][j] # 0 =>
             \E vma \in ToSet(A[e]) : /\ Paging!PDX(vma.vm_start) <= j
                                      /\ j <= Paging!PDX(vma.vm_end - 1)
      <4> SUFFICES ASSUME NEW j \in Paging!Dirs, n.dir[e][j] # 0
                   PROVE  \E vma \in ToSet(A[e]) : /\ Paging!PDX(vma.vm_start) <= j
                                                   /\ j <= Paging!PDX(vma.vm_end - 1)
        OBVIOUS
      <4>1. CASE e = d /\ j = i
        BY <3>1, <4>1, TableWithin
      <4>2. CASE ~(e = d /\ j = i)
        BY <2>9, <3>1, <4>2 DEF Follows
      <4>3. QED
        BY <4>1, <4>2
    <3>3. QED
      BY <2>11, <3>1, <3>2 DEF Follows
  <2>15. Paging!TableOf(n, d, a) # 0
    BY <2>3, <2>4, <2>9, PagingConstants DEF Paging!TableOf
  <2>16. \A f \in K : n.ref[f] = ph.ref[f] /\ n.content[f] = ph.content[f]
    <3>1. /\ ph.ref \in [Paging!Frames -> Nat]
          /\ \A f \in K \cap Paging!Frames : new.content[f] = ph.content[f]
          /\ OnlyContent(ph, new, t)
      BY <1>1, <2>2, <2>3, PhysFields DEF Allocated, OnlyContent
    <3>2. QED
      BY <2>3, <2>8, <3>1
  <2>18. Same(ph, n, D)
    <3>1. NoPage(ph, D, t)
      BY <1>1, <2>3, PagesApart DEF Kept
    <3>2. OnlyContent(ph, n, t)
      BY <2>2, <2>8 DEF Allocated, OnlyContent
    <3> HIDE DEF t
    <3>3. QED
      BY <1>1, <2>11, <3>1, <3>2, HoldsSame
  <2>17. QED
    BY <1>1, <2>7, <2>8, <2>11, <2>13, <2>14, <2>15, <2>16, <2>18 DEF Kept
<1>4. QED
  BY <1>2, <1>3

-----------------------------------------------------------------------------
\* A frame in hand, counted once, goes behind a page that has none.
Put(ph, r, d, a, x) ==
    /\ r \in Phys
    /\ r.dir = ph.dir
    /\ r.table = [ph.table EXCEPT ![Paging!TableOf(ph, d, a)][Paging!PTX(a)] = x]
    /\ r.free = ph.free /\ r.ref = ph.ref /\ r.ok = ph.ok
    /\ r.content = ph.content

LEMMA PutIs ==
  ASSUME NEW ph \in Phys, NEW d \in Paging!Frames, NEW a \in Paging!Pages,
         Paging!TableOf(ph, d, a) # 0, NEW x \in Paging!Entry
  PROVE  Put(ph, [ph EXCEPT !.table[Paging!TableOf(ph, d, a)][Paging!PTX(a)] = x],
             d, a, x)
<1> DEFINE T == Paging!TableOf(ph, d, a)
           table == [ph.table EXCEPT ![T][Paging!PTX(a)] = x]
<1>2. T \in Paging!Frames
  BY PteType
<1>3. Paging!PTX(a) \in 0 .. NPTEENTRY - 1
  BY EntryOf
<1>5. table \in [Paging!Frames -> [0 .. NPTEENTRY - 1 -> Paging!Entry \cup {None}]]
  <2>1. ph.table \in [Paging!Frames -> [0 .. NPTEENTRY - 1 -> Paging!Entry \cup {None}]]
    BY PhysFields
  <2> HIDE DEF T
  <2>2. QED
    BY <1>2, <1>3, <2>1
<1>6. PICK r : r = [ph EXCEPT !.table[T][Paging!PTX(a)] = x]
  OBVIOUS
<1>7. r = [free |-> ph.free, ref |-> ph.ref, content |-> ph.content,
           dir |-> ph.dir, table |-> table, got |-> ph.got, ok |-> ph.ok]
  <2>1. r = [ph EXCEPT !.table = table]
    BY <1>6
  <2>2. ph = [free |-> ph.free, ref |-> ph.ref, content |-> ph.content,
              dir |-> ph.dir, table |-> ph.table, got |-> ph.got, ok |-> ph.ok]
    BY PhysFields
  <2> HIDE DEF table
  <2>3. QED
    BY <2>1, <2>2
<1>8. r \in Phys
  <2> HIDE DEF table
  <2>1. QED
    BY <1>5, <1>7, PhysFields DEF Phys
<1>9. Put(ph, r, d, a, x)
  BY <1>7, <1>8 DEF Put
<1>10. QED
  BY <1>6, <1>9

LEMMA PutKeeps ==
  ASSUME NEW ph, NEW D, NEW A, NEW K, Kept(ph, D, A, K),
         NEW d \in D, NEW a \in Paging!Pages,
         Paging!TableOf(ph, d, a) # 0, Paging!Pte(ph, d, a) = None,
         Paging!AreaAt(A[d], a) # {},
         NEW f \in K, f \in Paging!Frames, ph.ref[f] = 1,
         NEW x \in Paging!Entry, x.frame = f, x.write <=> Paging!Writable(A[d], a),
         NEW r, Put(ph, r, d, a, x)
  PROVE  /\ Kept(r, D, A, K \ {f})
         /\ EntriesExcept(ph, r, D, d, a, x)
         /\ SameBut(ph, r, D, d, a, {ph.content[f]})
<1> DEFINE k == <<d, "page", a>>
           u == Uses(ph, D)
<1>1. ph \in Phys /\ D \in SUBSET Paging!Frames /\ d \in Paging!Frames /\ ph.ok
      /\ Owned(u, ph.free, K) /\ Counted(u, ph.free, ph.ref)
  BY DEF Kept
<1>4. x # None
  BY PagingConstants
<1>7. /\ r.free = ph.free /\ r.ref = ph.ref /\ r.dir = ph.dir
      /\ r.table = [ph.table EXCEPT ![Paging!TableOf(ph, d, a)][Paging!PTX(a)] = x]
      /\ r.ok
  BY <1>1 DEF Put
<1>8. r \in Phys
  BY DEF Put
<1>9. EntriesExcept(ph, r, D, d, a, x)
  <2>1. ph \in Phys /\ D \in SUBSET Paging!Frames /\ Owned(Uses(ph, D), ph.free, K)
    BY <1>1
  <2>2. /\ r.dir = ph.dir
        /\ r.table = [ph.table EXCEPT ![Paging!TableOf(ph, d, a)][Paging!PTX(a)] = x]
    BY <1>7
  <2>3. \A e \in D, b \in Paging!Pages :
           Paging!Pte(r, e, b) = IF e = d /\ b = a THEN x ELSE Paging!Pte(ph, e, b)
    BY <2>1, <2>2, EntrySet, SMTT(30)
  <2>4. QED
    BY <2>3 DEF EntriesExcept
<1>10. k \in Keys /\ u[k] = 0 /\ Uses(r, D) = [u EXCEPT ![k] = f]
  <2>1. /\ k \in Keys /\ u[k] = FrameAt(ph, d, a)
        /\ Uses(r, D) = [u EXCEPT ![k] = IF x = None THEN 0 ELSE x.frame]
    <3>1. ph \in Phys /\ D \in SUBSET Paging!Frames /\ r.dir = ph.dir
      BY <1>1, <1>7
    <3>2. /\ <<d, "page", a>> \in Keys
          /\ Uses(ph, D)[<<d, "page", a>>] = FrameAt(ph, d, a)
          /\ Uses(r, D) = [Uses(ph, D) EXCEPT ![<<d, "page", a>>] =
                             IF x = None THEN 0 ELSE x.frame]
      BY <1>9, <3>1, UsesEntry
    <3>3. QED
      BY <3>2
  <2>2. FrameAt(ph, d, a) = 0
    BY DEF FrameAt
  <2>3. (IF x = None THEN 0 ELSE x.frame) = f
    BY <1>4
  <2>4. QED
    BY <2>1, <2>2, <2>3
<1>11. Owned(Uses(r, D), r.free, K \ {f}) /\ Counted(Uses(r, D), r.free, r.ref)
  <2>1. ph.ref \in [Paging!Frames -> Nat] /\ 1 = IF k[2] = "dir" THEN 0 ELSE 1
    BY <1>1, PhysFields
  <2>2. [ph.ref EXCEPT ![f] = 1] = ph.ref
    BY <2>1
  <2> HIDE DEF u, k
  <2>3. Owned([u EXCEPT ![k] = f], ph.free, K \ {f})
    BY <1>1, <1>10, UsePut
  <2>4. Counted([u EXCEPT ![k] = f], ph.free, [ph.ref EXCEPT ![f] = 1])
    BY <1>1, <1>10, <2>1, CountPut
  <2>5. QED
    BY <1>7, <1>10, <2>2, <2>3, <2>4
<1>12. ASSUME NEW e \in D
       PROVE  A[e] \in Seq(Paging!Area) /\ Follows(r, e, A[e])
  <2>1. A[e] \in Seq(Paging!Area) /\ Follows(ph, e, A[e])
    BY DEF Kept
  <2>2. \A b \in Paging!Pages : Paging!Pte(r, e, b) # None =>
           /\ Paging!AreaAt(A[e], b) # {}
           /\ Paging!Pte(r, e, b).write <=> Paging!Writable(A[e], b)
    <3> SUFFICES ASSUME NEW b \in Paging!Pages, Paging!Pte(r, e, b) # None
                 PROVE  /\ Paging!AreaAt(A[e], b) # {}
                        /\ Paging!Pte(r, e, b).write <=> Paging!Writable(A[e], b)
      OBVIOUS
    <3>1. CASE e = d /\ b = a
      <4>1. Paging!Pte(r, e, b) = x
        BY <1>9, <3>1 DEF EntriesExcept
      <4>2. QED
        BY <3>1, <4>1
    <3>2. CASE ~(e = d /\ b = a)
      <4>1. Paging!Pte(r, e, b) = Paging!Pte(ph, e, b)
        BY <1>9, <3>2 DEF EntriesExcept
      <4>2. QED
        BY <2>1, <4>1 DEF Follows
    <3>3. QED
      BY <3>1, <3>2
  <2>3. QED
    BY <1>7, <2>1, <2>2 DEF Follows
<1>13. SameBut(ph, r, D, d, a, {ph.content[f]})
  <2>1. r.content = ph.content
    BY DEF Put
  <2>2. OnlyContent(ph, r, 0)
    BY <2>1 DEF OnlyContent
  <2>3. SameBut(ph, r, D, d, a, IF x = None THEN {} ELSE {r.content[x.frame]})
    BY <1>1, <1>9, <2>2, HoldsBut
  <2>4. QED
    BY <1>4, <2>1, <2>3
<1>14. QED
  BY <1>1, <1>7, <1>8, <1>9, <1>11, <1>12, <1>13 DEF Kept

\* Counting a frame in hand changes nothing else.
LEMMA CountKeeps ==
  ASSUME NEW ph, NEW D, NEW A, NEW K, Kept(ph, D, A, K),
         NEW f \in K, f \in Paging!Frames, NEW n \in Nat,
         NEW r, r = [ph EXCEPT !.ref[f] = n]
  PROVE  /\ Kept(r, D, A, K) /\ r.ref[f] = n
         /\ r.dir = ph.dir /\ r.table = ph.table /\ r.content = ph.content
<1>1. ph \in Phys /\ Owned(Uses(ph, D), ph.free, K) /\ Counted(Uses(ph, D), ph.free, ph.ref)
  BY DEF Kept
<1>2. /\ ph = [free |-> ph.free, ref |-> ph.ref, content |-> ph.content,
               dir |-> ph.dir, table |-> ph.table, got |-> ph.got, ok |-> ph.ok]
      /\ ph.ref \in [Paging!Frames -> Nat]
  BY <1>1, PhysFields
<1> DEFINE ref == [ph.ref EXCEPT ![f] = n]
<1>3. ref \in [Paging!Frames -> Nat] /\ ref[f] = n
  BY <1>2
<1>4. r = [free |-> ph.free, ref |-> ref, content |-> ph.content,
           dir |-> ph.dir, table |-> ph.table, got |-> ph.got, ok |-> ph.ok]
  <2>1. r = [ph EXCEPT !.ref = ref]
    OBVIOUS
  <2> HIDE DEF ref
  <2>2. QED
    BY <1>2, <2>1
<1> HIDE DEF ref
<1>5. /\ r.dir = ph.dir /\ r.table = ph.table /\ r.free = ph.free /\ r.ref = ref
      /\ r.ok = ph.ok /\ r.content = ph.content
  BY <1>4
<1>6. r \in Phys
  BY <1>1, <1>3, <1>4, PhysFields DEF Phys
<1>7. Uses(r, D) = Uses(ph, D) /\ \A d, list : Follows(ph, d, list) => Follows(r, d, list)
  BY <1>5, SameTables
<1>8. Counted(Uses(ph, D), ph.free, ref)
  <2>1. Counted(Uses(ph, D), ph.free \ {f}, [ph.ref EXCEPT ![f] = n])
    BY <1>1, <1>2, CountInHand
  <2>2. ph.free \ {f} = ph.free
    BY <1>1 DEF Owned
  <2>3. QED
    BY <2>1, <2>2 DEF ref
<1>9. QED
  BY <1>1, <1>3, <1>5, <1>6, <1>7, <1>8 DEF Kept

\* An operation that runs out of frames says so.
LEMMA GetPteFails ==
  ASSUME NEW ph \in Phys, NEW v \in Contents \cup {None}
  PROVE  /\ ~Paging!alloc_page(ph, v).ok => Paging!alloc_page(ph, v) \in Phys
         /\ Paging!alloc_page(ph, v).ok => ph.ok
         /\ \A d, a : ~Paging!get_pte(ph, d, a).ok => Paging!get_pte(ph, d, a) \in Phys
         /\ \A d, a : ~ph.ok => Paging!get_pte(ph, d, a) = ph
<1>1. [ph EXCEPT !.ok = FALSE] \in Phys /\ ~[ph EXCEPT !.ok = FALSE].ok
  BY DEF Phys
<1>2. \A w \in Contents \cup {None} :
         Paging!alloc_page(ph, w) = [ph EXCEPT !.ok = FALSE]
         \/ (ph.ok /\ Allocated(ph, Paging!alloc_page(ph, w)))
  <2> SUFFICES ASSUME NEW w \in Contents \cup {None},
                      ~(ph.ok /\ Allocated(ph, Paging!alloc_page(ph, w)))
               PROVE  Paging!alloc_page(ph, w) = [ph EXCEPT !.ok = FALSE]
    OBVIOUS
  <2>1. CASE ~ph.ok \/ ph.free = {}
    BY <2>1 DEF Paging!alloc_page
  <2>2. CASE ph.ok /\ ph.free # {}
    <3>1. Paging!alloc_page(ph, w).ok
      BY <2>2 DEF Paging!alloc_page, Phys
    <3>2. QED
      BY <2>2, <3>1, AllocIs
  <2>3. QED
    BY <2>1, <2>2
<1>3. ASSUME NEW d, NEW a, ~Paging!get_pte(ph, d, a).ok
      PROVE  Paging!get_pte(ph, d, a) \in Phys
  <2>1. CASE ~ph.ok \/ Paging!TableOf(ph, d, a) # 0
    BY <2>1 DEF Paging!get_pte
  <2>2. CASE ph.ok /\ Paging!TableOf(ph, d, a) = 0
    <3>1. PICK new : /\ new = Paging!alloc_page(ph, None)
                     /\ Paging!get_pte(ph, d, a)
                           = IF ~new.ok THEN new
                             ELSE [new EXCEPT !.ref[new.got] = 1,
                                              !.dir[d][Paging!PDX(a)] = new.got,
                                              !.table[new.got] = Paging!NoTable]
      BY <2>2 DEF Paging!get_pte
    <3>2. CASE new.ok
      <4>1. new \in Phys
        BY <1>1, <1>2, <3>1, <3>2 DEF Allocated
      <4>2. Paging!get_pte(ph, d, a).ok = new.ok
        BY <3>1, <3>2, <4>1 DEF Phys
      <4>3. QED
        BY <1>3, <3>2, <4>2
    <3>3. CASE ~new.ok
      BY <1>1, <1>2, <3>1, <3>3 DEF Allocated
    <3>4. QED
      BY <3>2, <3>3
  <2>3. QED
    BY <2>1, <2>2
<1>4. \A d, a : ~ph.ok => Paging!get_pte(ph, d, a) = ph
  BY DEF Paging!get_pte
<1>5. QED
  BY <1>1, <1>2, <1>3, <1>4 DEF Allocated

-----------------------------------------------------------------------------
\* page_insert of a frame in hand: it is mapped, whatever was there is gone.
LEMMA PageInsertKeeps ==
  ASSUME NEW ph, NEW D, NEW A, NEW K, Kept(ph, D, A, K),
         NEW d \in D, NEW a \in Paging!Pages, Paging!AreaAt(A[d], a) # {},
         NEW f \in K, f \in Paging!Frames, ph.ref[f] = 0,
         NEW write \in BOOLEAN, write <=> Paging!Writable(A[d], a),
         NEW r, r = Paging!page_insert(ph, d, f, a, write)
  PROVE  /\ r \in Phys
         /\ r.ok => /\ Kept(r, D, A, K \ {f})
                    /\ SameBut(ph, r, D, d, a, {ph.content[f]})
<1> DEFINE got == Paging!get_pte(ph, d, a)
           inc == [got EXCEPT !.ref[f] = @ + 1]
           old == Paging!Pte(got, d, a)
           rid == IF old = None THEN inc
                  ELSE IF old.frame = f THEN [inc EXCEPT !.ref[f] = @ - 1]
                  ELSE Paging!page_remove_pte(inc, d, a)
           x   == [frame |-> f, write |-> write]
<1>1. /\ ph \in Phys /\ D \in SUBSET Paging!Frames /\ d \in Paging!Frames
      /\ A[d] \in Seq(Paging!Area)
  BY DEF Kept
<1>2. r = IF ~got.ok THEN got
          ELSE [rid EXCEPT !.table[Paging!TableOf(rid, d, a)][Paging!PTX(a)] = x]
  BY DEF Paging!page_insert
<1>3. CASE ~got.ok
  <2>1. got \in Phys
    BY <1>1, <1>3, GetPteFails, Zenon
  <2>2. r = got
    BY <1>2, <1>3
  <2>3. QED
    BY <1>3, <2>1, <2>2
<1>4. CASE got.ok
  <2> HIDE DEF got
  <2>1. /\ Kept(got, D, A, K) /\ Paging!TableOf(got, d, a) # 0
        /\ got.ref[f] = 0 /\ got.content[f] = ph.content[f]
        /\ Same(ph, got, D)
    BY <1>4, TableKeeps DEF got
  <2>2. got \in Phys /\ Owned(Uses(got, D), got.free, K)
    BY <2>1 DEF Kept
  <2>3. inc = [got EXCEPT !.ref[f] = 1]
    BY <2>1, <2>2, PhysFields
  <2> HIDE DEF inc
  <2>4. /\ Kept(inc, D, A, K) /\ inc.ref[f] = 1 /\ inc.dir = got.dir
        /\ inc.table = got.table /\ inc.content = got.content
    BY <2>1, <2>3, CountKeeps
  <2>5. /\ inc \in Phys /\ Paging!Pte(inc, d, a) = old
        /\ Same(got, inc, D)
    <3>1. \A e, b : Paging!Pte(inc, e, b) = Paging!Pte(got, e, b)
      BY <2>4, SameTables
    <3>2. \A e, b : Holds(inc, e, b) = Holds(got, e, b)
      BY <2>4, <3>1 DEF Holds
    <3>3. QED
      BY <2>4, <3>1, <3>2 DEF Kept, Same
  <2>6. /\ Kept(rid, D, A, K) /\ rid.ref[f] = 1 /\ rid.dir = got.dir
        /\ Paging!Pte(rid, d, a) = None
        /\ rid.content[f] = got.content[f] /\ SameBut(inc, rid, D, d, a, {})
    <3>1. CASE old = None
      <4>1. rid = inc
        BY <3>1
      <4>2. SameBut(inc, inc, D, d, a, {})
        BY <2>5, <3>1 DEF SameBut, Holds
      <4>3. QED
        BY <2>4, <2>5, <3>1, <4>1, <4>2
    <3>2. CASE old # None
      <4>1. old.frame # f
        <5>1. /\ <<d, "page", a>> \in Keys
              /\ Uses(got, D)[<<d, "page", a>>] = old.frame
          BY <1>1, <2>2, <3>2, UsesAt DEF FrameAt
        <5>2. \A q \in Keys : Uses(got, D)[q] # f
          BY <2>2 DEF Owned
        <5>3. QED
          BY <5>1, <5>2
      <4>2. PICK m : m = Paging!page_remove_pte(inc, d, a)
        OBVIOUS
      <4>3. rid = m
        BY <3>2, <4>1, <4>2
      <4>4. Kept(m, D, A, K) /\ m.dir = inc.dir /\ EntriesExcept(inc, m, D, d, a, None)
            /\ m.ref[f] = inc.ref[f] /\ m.content[f] = inc.content[f]
            /\ SameBut(inc, m, D, d, a, {})
        BY <2>4, <4>2, RemoveKeeps
      <4> HIDE DEF rid
      <4>5. QED
        BY <2>4, <4>3, <4>4 DEF EntriesExcept
    <3>3. QED
      BY <3>1, <3>2
  <2> HIDE DEF rid, old
  <2>7. rid \in Phys /\ Paging!TableOf(rid, d, a) # 0
    BY <2>1, <2>6 DEF Kept, Paging!TableOf
  <2>8. x \in Paging!Entry /\ x.frame = f /\ x.write = write
    BY DEF Paging!Entry
  <2> HIDE DEF x
  <2>9. r = [rid EXCEPT !.table[Paging!TableOf(rid, d, a)][Paging!PTX(a)] = x]
    BY <1>2, <1>4
  <2>10. Put(rid, r, d, a, x)
    BY <1>1, <2>7, <2>8, <2>9, PutIs
  <2>11. Kept(r, D, A, K \ {f}) /\ SameBut(rid, r, D, d, a, {rid.content[f]})
    BY <2>6, <2>7, <2>8, <2>10, PutKeeps
  <2>12. SameBut(ph, r, D, d, a, {ph.content[f]})
    BY <2>1, <2>5, <2>6, <2>11 DEF Same, SameBut
  <2>13. QED
    BY <2>11, <2>12 DEF Kept
<1>5. QED
  BY <1>3, <1>4

\* A fresh frame for a page.
LEMMA InsertNew ==
  ASSUME NEW ph, NEW D, NEW A, NEW K, Kept(ph, D, A, K),
         NEW d \in D, NEW a \in Paging!Pages, Paging!AreaAt(A[d], a) # {},
         NEW write \in BOOLEAN, write <=> Paging!Writable(A[d], a),
         NEW n, Allocated(ph, n),
         NEW r, r = Paging!page_insert(n, d, n.got, a, write)
  PROVE  /\ r \in Phys
         /\ r.ok => /\ Kept(r, D, A, K)
                    /\ SameBut(ph, r, D, d, a, {n.content[n.got]})
<1>1. /\ n.got \in Paging!Frames /\ n.got \notin K
      /\ Kept(n, D, A, K \cup {n.got}) /\ n.ref[n.got] = 0 /\ Same(ph, n, D)
  BY AllocKeeps
<1>2. n.got \in K \cup {n.got} /\ (K \cup {n.got}) \ {n.got} = K
  BY <1>1
<1>3. /\ r \in Phys
      /\ r.ok => /\ Kept(r, D, A, (K \cup {n.got}) \ {n.got})
                 /\ SameBut(n, r, D, d, a, {n.content[n.got]})
  BY <1>1, <1>2, PageInsertKeeps
<1>4. SameBut(n, r, D, d, a, {n.content[n.got]}) =>
         SameBut(ph, r, D, d, a, {n.content[n.got]})
  BY <1>1 DEF Same, SameBut
<1>5. QED
  BY <1>2, <1>3, <1>4

\* Memory that is kept unless a frame was wanting.
Building(D, A, K) == {s \in Phys : s.ok => Kept(s, D, A, K)}

\* An area has the page, and says whether it may be written.
Permits(list, a, write) ==
    /\ write \in BOOLEAN /\ Paging!AreaAt(list, a) # {}
    /\ write <=> Paging!Writable(list, a)

LEMMA AllocPageKeeps ==
  ASSUME NEW D, NEW A, NEW K, NEW ph \in Building(D, A, K),
         NEW d \in D, NEW a \in Paging!Pages, NEW v \in Contents,
         NEW write, Permits(A[d], a, write),
         NEW r, r = Paging!pgdir_alloc_page(ph, d, a, write, v)
  PROVE  /\ r \in Phys
         /\ r.ok => ph.ok /\ Kept(r, D, A, K) /\ SameBut(ph, r, D, d, a, {v})
<1>a. /\ write \in BOOLEAN /\ Paging!AreaAt(A[d], a) # {}
      /\ write <=> Paging!Writable(A[d], a)
  BY DEF Permits
<1>b. ph \in Phys /\ (ph.ok => Kept(ph, D, A, K)) /\ v \in Contents \cup {None}
  BY DEF Building
<1>1. PICK n : n = Paging!alloc_page(ph, v)
  OBVIOUS
<1>2. r = IF n.ok THEN Paging!page_insert(n, d, n.got, a, write) ELSE n
  BY <1>1 DEF Paging!pgdir_alloc_page
<1>3. CASE n.ok
  <2>1. ph.ok
    BY <1>b, <1>1, <1>3, GetPteFails
  <2>2. Allocated(ph, n) /\ n.content[n.got] = v
    BY <1>b, <1>1, <1>3, <2>1, AllocIs
  <2>3. r = Paging!page_insert(n, d, n.got, a, write)
    BY <1>2, <1>3
  <2>4. QED
    BY <1>a, <1>b, <2>1, <2>2, <2>3, InsertNew
<1>4. CASE ~n.ok
  <2>1. n \in Phys
    BY <1>b, <1>1, <1>4, GetPteFails
  <2>2. QED
    BY <1>2, <1>4, <2>1
<1>5. QED
  BY <1>3, <1>4

\* The body of copy_range.  A page that is not mapped is left out.
CopiedPage(ph, r, D, to, from, a) ==
    /\ Holds(ph, from, a) = {} => Same(ph, r, D)
    /\ Holds(ph, from, a) # {} => SameBut(ph, r, D, to, a, Holds(ph, from, a))

LEMMA CopyPageKeeps ==
  ASSUME NEW ph \in Phys, NEW D, NEW A, NEW K, ph.ok => Kept(ph, D, A, K),
         D \in SUBSET Paging!Frames,
         NEW to \in D, NEW from \in D, A[to] = A[from], NEW a \in Paging!Pages,
         NEW r, r = Paging!CopyPage(ph, to, from, a)
  PROVE  /\ r \in Phys
         /\ r.ok => ph.ok /\ Kept(r, D, A, K) /\ CopiedPage(ph, r, D, to, from, a)
<1>1. CASE Paging!Pte(ph, from, a) = None
  <2>1. r = ph
    BY <1>1 DEF Paging!CopyPage
  <2>2. CopiedPage(ph, r, D, to, from, a)
    BY <1>1, <2>1 DEF CopiedPage, Holds, Same
  <2>3. QED
    BY <2>1, <2>2
<1>2. CASE Paging!Pte(ph, from, a) # None
  <2> DEFINE entry == Paging!Pte(ph, from, a)
  <2>1. PICK table : table = Paging!get_pte(ph, to, a)
    OBVIOUS
  <2>2. PICK n : n = Paging!alloc_page(table, ph.content[entry.frame])
    OBVIOUS
  <2>3. r = IF ~n.ok THEN n ELSE Paging!page_insert(n, to, n.got, a, entry.write)
    BY <1>2, <2>1, <2>2 DEF Paging!CopyPage
  <2>4. entry.frame \in Paging!Frames /\ entry.write \in BOOLEAN
    BY <1>2, PteType
  <2>5. ph.content[entry.frame] \in Contents \cup {None}
    BY <2>4, PhysFields
  <2>6. CASE ~table.ok
    <3>1. table \in Phys
      BY <2>1, <2>6, GetPteFails
    <3>2. ~n.ok /\ n \in Phys
      BY <2>2, <2>5, <2>6, <3>1, GetPteFails
    <3>3. QED
      BY <2>3, <3>2
  <2>7. CASE table.ok
    <3>1. ph.ok /\ Kept(ph, D, A, K)
      <4>1. ~ph.ok => table = ph
        BY <2>1, GetPteFails
      <4>2. QED
        BY <2>7, <4>1
    <3>2. /\ Paging!AreaAt(A[to], a) # {}
          /\ entry.write <=> Paging!Writable(A[to], a)
      BY <1>2, <3>1 DEF Kept, Follows
    <3>3. Kept(table, D, A, K) /\ Same(ph, table, D)
      BY <2>1, <2>7, <3>1, <3>2, TableKeeps
    <3>4. table \in Phys
      BY <3>3 DEF Kept
    <3>5. CASE ~n.ok
      BY <2>2, <2>3, <2>5, <3>4, <3>5, GetPteFails
    <3>6. CASE n.ok
      <4>1. Allocated(table, n) /\ n.content[n.got] = ph.content[entry.frame]
        BY <2>2, <2>5, <2>7, <3>4, <3>6, AllocIs
      <4>2. r = Paging!page_insert(n, to, n.got, a, entry.write)
        BY <2>3, <3>6
      <4>3. Holds(ph, from, a) = {n.content[n.got]}
        BY <1>2, <4>1 DEF Holds
      <4> HIDE DEF entry
      <4>4. /\ r \in Phys
            /\ r.ok => /\ Kept(r, D, A, K)
                       /\ SameBut(table, r, D, to, a, {n.content[n.got]})
        BY <2>4, <3>2, <3>3, <4>1, <4>2, InsertNew
      <4>5. SameBut(table, r, D, to, a, {n.content[n.got]}) =>
               CopiedPage(ph, r, D, to, from, a)
        BY <3>3, <4>3 DEF Same, SameBut, CopiedPage
      <4>6. QED
        BY <3>1, <4>4, <4>5
    <3>7. QED
      BY <3>5, <3>6
  <2>8. QED
    BY <2>6, <2>7
<1>3. QED
  BY <1>1, <1>2

-----------------------------------------------------------------------------
(* The loops over pages, tables and areas, turn by turn.                   *)

LEMMA UnmapRangeRun ==
  ASSUME NEW ph, NEW d, NEW vma,
         NEW B, Paging!PagesOf(vma) \in Seq(B),
         NEW X, ph \in X, \A m \in X, b \in B : Paging!page_remove_pte(m, d, b) \in X
  PROVE  \E g \in [0 .. Len(Paging!PagesOf(vma)) -> X] :
            /\ g[0] = ph
            /\ g[Len(Paging!PagesOf(vma))] = Paging!unmap_range(ph, d, vma)
            /\ \A i \in 1 .. Len(Paging!PagesOf(vma)) :
                  g[i] = Paging!page_remove_pte(g[i - 1], d, Paging!PagesOf(vma)[i])
<1> DEFINE L == Paging!PagesOf(vma)
           N == Len(L)
           F == [i \in 1 .. N |-> [m \in X |-> Paging!page_remove_pte(m, d, L[i])]]
           iter == CHOOSE it : it = [s \in SUBSET (1 .. N) |->
                      IF s = {} THEN ph ELSE Paging!page_remove_pte(it[s \ {Max(s)}], d, L[Max(s)])]
<1>1. N \in Nat /\ DOMAIN L = 1 .. N /\ \A i \in 1 .. N : L[i] \in B
  OBVIOUS
<1>2. Paging!unmap_range(ph, d, vma) = iter[1 .. N]
  <2> HIDE DEF N
  <2>1. QED
    BY <1>1 DEF Paging!unmap_range, Paging!FoldLeft,
           Paging!MapThenFoldSet, Paging!Max, Max
<1> HIDE DEF N, L
<1>3. F \in [1 .. N -> [X -> X]]
  BY <1>1
<1>4. iter = [s \in SUBSET (1 .. N) |->
                 IF s = {} THEN ph ELSE Paging!page_remove_pte(iter[s \ {Max(s)}], d, L[Max(s)])]
  <2>1. PICK it \in [SUBSET (1 .. N) -> X] : IsFold(it, N, ph, F)
    <3> HIDE DEF F
    <3>1. QED
      BY <1>1, <1>3, FoldExists
  <2>2. ASSUME NEW s \in SUBSET (1 .. N), s # {}
        PROVE  F[Max(s)][it[s \ {Max(s)}]] = Paging!page_remove_pte(it[s \ {Max(s)}], d, L[Max(s)])
    <3>1. Max(s) \in 1 .. N
      BY <1>1, <2>2, MaxInSet
    <3>2. it[s \ {Max(s)}] \in X
      OBVIOUS
    <3>3. QED
      BY <3>1, <3>2
  <2>3. it = [s \in SUBSET (1 .. N) |->
                 IF s = {} THEN ph ELSE Paging!page_remove_pte(it[s \ {Max(s)}], d, L[Max(s)])]
    <3> HIDE DEF F
    <3>1. QED
      BY <2>1, <2>2 DEF IsFold
  <2>4. QED
    BY <2>3
<1>5. FoldsWithin(iter, N, X, ph, F)
  <2>1. iter[{}] = ph
    <3> HIDE DEF iter
    <3>1. QED
      BY <1>4
  <2>2. ASSUME NEW s \in SUBSET (1 .. N), s # {}, iter[s \ {Max(s)}] \in X
        PROVE  iter[s] = F[Max(s)][iter[s \ {Max(s)}]]
    <3>1. Max(s) \in 1 .. N
      BY <1>1, <2>2, MaxInSet
    <3> HIDE DEF iter
    <3>2. iter[s] = Paging!page_remove_pte(iter[s \ {Max(s)}], d, L[Max(s)])
      BY <1>4, <2>2
    <3>3. QED
      BY <2>2, <3>1, <3>2
  <2> HIDE DEF iter, F
  <2>3. QED
    BY <2>1, <2>2 DEF FoldsWithin
<1>6. PICK g \in [0 .. N -> X] : IsRun(g, iter, N, ph, F)
  <2> HIDE DEF iter, F
  <2>1. QED
    BY <1>1, <1>3, <1>5, FoldPrefixes
<1>7. ASSUME NEW i \in 1 .. N
      PROVE  g[i] = Paging!page_remove_pte(g[i - 1], d, L[i])
  <2>1. g[i - 1] \in X
    BY <1>1
  <2>2. g[i] = F[i][g[i - 1]]
    <3> HIDE DEF F, iter
    <3>1. QED
      BY <1>6 DEF IsRun
  <2>3. QED
    BY <2>1, <2>2
<1>8. g[0] = ph /\ g[N] = Paging!unmap_range(ph, d, vma)
  <2> HIDE DEF F, iter
  <2>1. QED
    BY <1>2, <1>6 DEF IsRun
<1>9. QED
  <2> HIDE DEF F, iter
  <2>1. QED
    BY <1>7, <1>8 DEF L, N

\* FreeTable stays within X; the steps exit_range goes through.
FreesWithin(X, d) ==
    \A m \in X, b \in Paging!Dirs : Paging!FreeTable(m, d, b) \in X

FreeSteps(g, X, ph, d, vma) ==
    /\ g \in [0 .. Len(Paging!DirsOf(vma)) -> X]
    /\ g[0] = ph
    /\ g[Len(Paging!DirsOf(vma))] = Paging!exit_range(ph, d, vma)
    /\ \A i \in 1 .. Len(Paging!DirsOf(vma)) :
          g[i] = Paging!FreeTable(g[i - 1], d, Paging!DirsOf(vma)[i])

LEMMA ExitRangeRun ==
  ASSUME NEW ph, NEW d, NEW vma, Paging!DirsOf(vma) \in Seq(Paging!Dirs),
         NEW X, ph \in X, FreesWithin(X, d)
  PROVE  \E g : FreeSteps(g, X, ph, d, vma)
<1> DEFINE L == Paging!DirsOf(vma)
           N == Len(L)
           F == [i \in 1 .. N |-> [m \in X |-> Paging!FreeTable(m, d, L[i])]]
           iter == CHOOSE it : it = [s \in SUBSET (1 .. N) |->
                      IF s = {} THEN ph ELSE Paging!FreeTable(it[s \ {Max(s)}], d, L[Max(s)])]
<1>1. N \in Nat /\ DOMAIN L = 1 .. N /\ \A i \in 1 .. N : L[i] \in Paging!Dirs
  OBVIOUS
<1>2. Paging!exit_range(ph, d, vma) = iter[1 .. N]
  <2> HIDE DEF N
  <2>1. QED
    BY <1>1 DEF Paging!exit_range, Paging!FoldLeft,
           Paging!MapThenFoldSet, Paging!Max, Max
<1> HIDE DEF N, L
<1>3. F \in [1 .. N -> [X -> X]]
  BY <1>1 DEF FreesWithin
<1>4. iter = [s \in SUBSET (1 .. N) |->
                 IF s = {} THEN ph ELSE Paging!FreeTable(iter[s \ {Max(s)}], d, L[Max(s)])]
  <2>1. PICK it \in [SUBSET (1 .. N) -> X] : IsFold(it, N, ph, F)
    <3> HIDE DEF F
    <3>1. QED
      BY <1>1, <1>3, FoldExists
  <2>2. ASSUME NEW s \in SUBSET (1 .. N), s # {}
        PROVE  F[Max(s)][it[s \ {Max(s)}]] = Paging!FreeTable(it[s \ {Max(s)}], d, L[Max(s)])
    <3>1. Max(s) \in 1 .. N
      BY <1>1, <2>2, MaxInSet
    <3>2. it[s \ {Max(s)}] \in X
      OBVIOUS
    <3>3. QED
      BY <3>1, <3>2
  <2>3. it = [s \in SUBSET (1 .. N) |->
                 IF s = {} THEN ph ELSE Paging!FreeTable(it[s \ {Max(s)}], d, L[Max(s)])]
    <3> HIDE DEF F
    <3>1. QED
      BY <2>1, <2>2 DEF IsFold
  <2>4. QED
    BY <2>3
<1>5. FoldsWithin(iter, N, X, ph, F)
  <2>1. iter[{}] = ph
    <3> HIDE DEF iter
    <3>1. QED
      BY <1>4
  <2>2. ASSUME NEW s \in SUBSET (1 .. N), s # {}, iter[s \ {Max(s)}] \in X
        PROVE  iter[s] = F[Max(s)][iter[s \ {Max(s)}]]
    <3>1. Max(s) \in 1 .. N
      BY <1>1, <2>2, MaxInSet
    <3> HIDE DEF iter
    <3>2. iter[s] = Paging!FreeTable(iter[s \ {Max(s)}], d, L[Max(s)])
      BY <1>4, <2>2
    <3>3. QED
      BY <2>2, <3>1, <3>2
  <2> HIDE DEF iter, F
  <2>3. QED
    BY <2>1, <2>2 DEF FoldsWithin
<1>6. PICK g \in [0 .. N -> X] : IsRun(g, iter, N, ph, F)
  <2> HIDE DEF iter, F
  <2>1. QED
    BY <1>1, <1>3, <1>5, FoldPrefixes
<1>7. ASSUME NEW i \in 1 .. N
      PROVE  g[i] = Paging!FreeTable(g[i - 1], d, L[i])
  <2>1. g[i - 1] \in X
    BY <1>1
  <2>2. g[i] = F[i][g[i - 1]]
    <3> HIDE DEF F, iter
    <3>1. QED
      BY <1>6 DEF IsRun
  <2>3. QED
    BY <2>1, <2>2
<1>8. g[0] = ph /\ g[N] = Paging!exit_range(ph, d, vma)
  <2> HIDE DEF F, iter
  <2>1. QED
    BY <1>2, <1>6 DEF IsRun
<1>9. QED
  <2> HIDE DEF F, iter
  <2>1. QED
    BY <1>7, <1>8 DEF FreeSteps, L, N

\* CopyPage stays within X; the steps copy_range goes through.
CopiesWithin(X, to, from) ==
    \A m \in X, b \in Paging!Pages : Paging!CopyPage(m, to, from, b) \in X

CopySteps(g, X, ph, to, from, vma) ==
    /\ g \in [0 .. Len(Paging!PagesOf(vma)) -> X]
    /\ g[0] = ph
    /\ g[Len(Paging!PagesOf(vma))] = Paging!copy_range(ph, to, from, vma)
    /\ \A i \in 1 .. Len(Paging!PagesOf(vma)) :
          g[i] = Paging!CopyPage(g[i - 1], to, from, Paging!PagesOf(vma)[i])

LEMMA CopyRangeRun ==
  ASSUME NEW ph, NEW to, NEW from, NEW vma, Paging!PagesOf(vma) \in Seq(Paging!Pages),
         NEW X, ph \in X, CopiesWithin(X, to, from)
  PROVE  \E g : CopySteps(g, X, ph, to, from, vma)
<1> DEFINE L == Paging!PagesOf(vma)
           N == Len(L)
           F == [i \in 1 .. N |-> [m \in X |-> Paging!CopyPage(m, to, from, L[i])]]
           iter == CHOOSE it : it = [s \in SUBSET (1 .. N) |->
                      IF s = {} THEN ph ELSE Paging!CopyPage(it[s \ {Max(s)}], to, from, L[Max(s)])]
<1>1. N \in Nat /\ DOMAIN L = 1 .. N /\ \A i \in 1 .. N : L[i] \in Paging!Pages
  OBVIOUS
<1>2. Paging!copy_range(ph, to, from, vma) = iter[1 .. N]
  <2> HIDE DEF N
  <2>1. QED
    BY <1>1 DEF Paging!copy_range, Paging!FoldLeft,
           Paging!MapThenFoldSet, Paging!Max, Max
<1> HIDE DEF N, L
<1>3. F \in [1 .. N -> [X -> X]]
  BY <1>1 DEF CopiesWithin
<1>4. iter = [s \in SUBSET (1 .. N) |->
                 IF s = {} THEN ph ELSE Paging!CopyPage(iter[s \ {Max(s)}], to, from, L[Max(s)])]
  <2>1. PICK it \in [SUBSET (1 .. N) -> X] : IsFold(it, N, ph, F)
    <3> HIDE DEF F
    <3>1. QED
      BY <1>1, <1>3, FoldExists
  <2>2. ASSUME NEW s \in SUBSET (1 .. N), s # {}
        PROVE  F[Max(s)][it[s \ {Max(s)}]] = Paging!CopyPage(it[s \ {Max(s)}], to, from, L[Max(s)])
    <3>1. Max(s) \in 1 .. N
      BY <1>1, <2>2, MaxInSet
    <3>2. it[s \ {Max(s)}] \in X
      OBVIOUS
    <3>3. QED
      BY <3>1, <3>2
  <2>3. it = [s \in SUBSET (1 .. N) |->
                 IF s = {} THEN ph ELSE Paging!CopyPage(it[s \ {Max(s)}], to, from, L[Max(s)])]
    <3> HIDE DEF F
    <3>1. QED
      BY <2>1, <2>2 DEF IsFold
  <2>4. QED
    BY <2>3
<1>5. FoldsWithin(iter, N, X, ph, F)
  <2>1. iter[{}] = ph
    <3> HIDE DEF iter
    <3>1. QED
      BY <1>4
  <2>2. ASSUME NEW s \in SUBSET (1 .. N), s # {}, iter[s \ {Max(s)}] \in X
        PROVE  iter[s] = F[Max(s)][iter[s \ {Max(s)}]]
    <3>1. Max(s) \in 1 .. N
      BY <1>1, <2>2, MaxInSet
    <3> HIDE DEF iter
    <3>2. iter[s] = Paging!CopyPage(iter[s \ {Max(s)}], to, from, L[Max(s)])
      BY <1>4, <2>2
    <3>3. QED
      BY <2>2, <3>1, <3>2
  <2> HIDE DEF iter, F
  <2>3. QED
    BY <2>1, <2>2 DEF FoldsWithin
<1>6. PICK g \in [0 .. N -> X] : IsRun(g, iter, N, ph, F)
  <2> HIDE DEF iter, F
  <2>1. QED
    BY <1>1, <1>3, <1>5, FoldPrefixes
<1>7. ASSUME NEW i \in 1 .. N
      PROVE  g[i] = Paging!CopyPage(g[i - 1], to, from, L[i])
  <2>1. g[i - 1] \in X
    BY <1>1
  <2>2. g[i] = F[i][g[i - 1]]
    <3> HIDE DEF F, iter
    <3>1. QED
      BY <1>6 DEF IsRun
  <2>3. QED
    BY <2>1, <2>2
<1>8. g[0] = ph /\ g[N] = Paging!copy_range(ph, to, from, vma)
  <2> HIDE DEF F, iter
  <2>1. QED
    BY <1>2, <1>6 DEF IsRun
<1>9. QED
  <2> HIDE DEF F, iter
  <2>1. QED
    BY <1>7, <1>8 DEF CopySteps, L, N

\* copy_range stays within X; the steps dup_mmap goes through.
DupsWithin(X, to, from) ==
    \A m \in X, b \in Paging!Area : Paging!copy_range(m, to, from, b) \in X

DupSteps(g, X, ph, to, from) ==
    /\ g \in [0 .. Len(Reverse(mmaps[from])) -> X]
    /\ g[0] = ph
    /\ g[Len(Reverse(mmaps[from]))] = Paging!dup_mmap(ph, to, from)
    /\ \A i \in 1 .. Len(Reverse(mmaps[from])) :
          g[i] = Paging!copy_range(g[i - 1], to, from, Reverse(mmaps[from])[i])

LEMMA DupMmapRun ==
  ASSUME NEW ph, NEW to, NEW from, Reverse(mmaps[from]) \in Seq(Paging!Area),
         NEW X, ph \in X, DupsWithin(X, to, from)
  PROVE  \E g : DupSteps(g, X, ph, to, from)
<1> DEFINE L == Reverse(mmaps[from])
           N == Len(L)
           F == [i \in 1 .. N |-> [m \in X |-> Paging!copy_range(m, to, from, L[i])]]
           iter == CHOOSE it : it = [s \in SUBSET (1 .. N) |->
                      IF s = {} THEN ph
                      ELSE Paging!copy_range(it[s \ {Max(s)}], to, from, L[Max(s)])]
<1>1. N \in Nat /\ DOMAIN L = 1 .. N /\ \A i \in 1 .. N : L[i] \in Paging!Area
  OBVIOUS
<1>2. Paging!dup_mmap(ph, to, from) = iter[1 .. N]
  <2>1. Paging!Reverse(mmaps[from]) = L
    BY DEF Paging!Reverse, Reverse
  <2> HIDE DEF L, N
  <2>2. QED
    BY <1>1, <2>1 DEF Paging!dup_mmap, Paging!FoldLeft,
           Paging!MapThenFoldSet, Paging!Max, Max
<1> HIDE DEF N, L
<1>3. F \in [1 .. N -> [X -> X]]
  BY <1>1 DEF DupsWithin
<1>4. iter = [s \in SUBSET (1 .. N) |->
                 IF s = {} THEN ph ELSE Paging!copy_range(iter[s \ {Max(s)}], to, from, L[Max(s)])]
  <2>1. PICK it \in [SUBSET (1 .. N) -> X] : IsFold(it, N, ph, F)
    <3> HIDE DEF F
    <3>1. QED
      BY <1>1, <1>3, FoldExists
  <2>2. ASSUME NEW s \in SUBSET (1 .. N), s # {}
        PROVE  F[Max(s)][it[s \ {Max(s)}]]
                  = Paging!copy_range(it[s \ {Max(s)}], to, from, L[Max(s)])
    <3>1. Max(s) \in 1 .. N
      BY <1>1, <2>2, MaxInSet
    <3>2. it[s \ {Max(s)}] \in X
      OBVIOUS
    <3>3. QED
      BY <3>1, <3>2
  <2>3. it = [s \in SUBSET (1 .. N) |->
                 IF s = {} THEN ph ELSE Paging!copy_range(it[s \ {Max(s)}], to, from, L[Max(s)])]
    <3> HIDE DEF F
    <3>1. QED
      BY <2>1, <2>2 DEF IsFold
  <2>4. QED
    BY <2>3
<1>5. FoldsWithin(iter, N, X, ph, F)
  <2>1. iter[{}] = ph
    <3> HIDE DEF iter
    <3>1. QED
      BY <1>4
  <2>2. ASSUME NEW s \in SUBSET (1 .. N), s # {}, iter[s \ {Max(s)}] \in X
        PROVE  iter[s] = F[Max(s)][iter[s \ {Max(s)}]]
    <3>1. Max(s) \in 1 .. N
      BY <1>1, <2>2, MaxInSet
    <3> HIDE DEF iter
    <3>2. iter[s] = Paging!copy_range(iter[s \ {Max(s)}], to, from, L[Max(s)])
      BY <1>4, <2>2
    <3>3. QED
      BY <2>2, <3>1, <3>2
  <2> HIDE DEF iter, F
  <2>3. QED
    BY <2>1, <2>2 DEF FoldsWithin
<1>6. PICK g \in [0 .. N -> X] : IsRun(g, iter, N, ph, F)
  <2> HIDE DEF iter, F
  <2>1. QED
    BY <1>1, <1>3, <1>5, FoldPrefixes
<1>7. ASSUME NEW i \in 1 .. N
      PROVE  g[i] = Paging!copy_range(g[i - 1], to, from, L[i])
  <2>1. g[i - 1] \in X
    BY <1>1
  <2>2. g[i] = F[i][g[i - 1]]
    <3> HIDE DEF F, iter
    <3>1. QED
      BY <1>6 DEF IsRun
  <2>3. QED
    BY <2>1, <2>2
<1>8. g[0] = ph /\ g[N] = Paging!dup_mmap(ph, to, from)
  <2> HIDE DEF F, iter
  <2>1. QED
    BY <1>2, <1>6 DEF IsRun
<1>9. QED
  <2> HIDE DEF F, iter
  <2>1. QED
    BY <1>7, <1>8 DEF DupSteps, L, N

\* pgdir_alloc_page stays within X; the steps LoadPages goes through.
LoadsWithin(X, d, prog, v) ==
    \A m \in X, b \in ToSet(prog.loaded) :
        Paging!pgdir_alloc_page(m, d, b, Paging!Writable(prog.areas, b), v) \in X

LoadSteps(g, X, ph, d, prog, v) ==
    /\ g \in [0 .. Len(prog.loaded) -> X]
    /\ g[0] = ph
    /\ g[Len(prog.loaded)] = Paging!LoadPages(ph, d, prog, v)
    /\ \A i \in 1 .. Len(prog.loaded) :
          g[i] = Paging!pgdir_alloc_page(g[i - 1], d, prog.loaded[i],
                   Paging!Writable(prog.areas, prog.loaded[i]), v)

LEMMA LoadPagesRun ==
  ASSUME NEW ph, NEW d, NEW prog, NEW v, prog.loaded \in Seq(ToSet(prog.loaded)),
         NEW X, ph \in X, LoadsWithin(X, d, prog, v)
  PROVE  \E g : LoadSteps(g, X, ph, d, prog, v)
<1> DEFINE L == prog.loaded
           N == Len(L)
           F == [i \in 1 .. N |-> [m \in X |-> Paging!pgdir_alloc_page(m, d, L[i],
                 Paging!Writable(prog.areas, L[i]), v)]]
           iter == CHOOSE it : it = [s \in SUBSET (1 .. N) |->
                      IF s = {} THEN ph ELSE Paging!pgdir_alloc_page(it[s \ {Max(s)}], d, L[Max(s)],
                 Paging!Writable(prog.areas, L[Max(s)]), v)]
<1>1. N \in Nat /\ DOMAIN L = 1 .. N /\ \A i \in 1 .. N : L[i] \in ToSet(prog.loaded)
  OBVIOUS
<1>2. Paging!LoadPages(ph, d, prog, v) = iter[1 .. N]
  <2> HIDE DEF N
  <2>1. QED
    BY <1>1 DEF Paging!LoadPages, Paging!FoldLeft,
           Paging!MapThenFoldSet, Paging!Max, Max
<1> HIDE DEF N, L
<1>3. F \in [1 .. N -> [X -> X]]
  BY <1>1 DEF LoadsWithin
<1>4. iter = [s \in SUBSET (1 .. N) |->
                 IF s = {} THEN ph ELSE Paging!pgdir_alloc_page(iter[s \ {Max(s)}], d, L[Max(s)],
                 Paging!Writable(prog.areas, L[Max(s)]), v)]
  <2>1. PICK it \in [SUBSET (1 .. N) -> X] : IsFold(it, N, ph, F)
    <3> HIDE DEF F
    <3>1. QED
      BY <1>1, <1>3, FoldExists
  <2>2. ASSUME NEW s \in SUBSET (1 .. N), s # {}
        PROVE  F[Max(s)][it[s \ {Max(s)}]] = Paging!pgdir_alloc_page(it[s \ {Max(s)}], d, L[Max(s)],
                 Paging!Writable(prog.areas, L[Max(s)]), v)
    <3>1. Max(s) \in 1 .. N
      BY <1>1, <2>2, MaxInSet
    <3>2. it[s \ {Max(s)}] \in X
      OBVIOUS
    <3>3. QED
      BY <3>1, <3>2
  <2>3. it = [s \in SUBSET (1 .. N) |->
                 IF s = {} THEN ph ELSE Paging!pgdir_alloc_page(it[s \ {Max(s)}], d, L[Max(s)],
                 Paging!Writable(prog.areas, L[Max(s)]), v)]
    <3> HIDE DEF F
    <3>1. QED
      BY <2>1, <2>2 DEF IsFold
  <2>4. QED
    BY <2>3
<1>5. FoldsWithin(iter, N, X, ph, F)
  <2>1. iter[{}] = ph
    <3> HIDE DEF iter
    <3>1. QED
      BY <1>4
  <2>2. ASSUME NEW s \in SUBSET (1 .. N), s # {}, iter[s \ {Max(s)}] \in X
        PROVE  iter[s] = F[Max(s)][iter[s \ {Max(s)}]]
    <3>1. Max(s) \in 1 .. N
      BY <1>1, <2>2, MaxInSet
    <3> HIDE DEF iter
    <3>2. iter[s] = Paging!pgdir_alloc_page(iter[s \ {Max(s)}], d, L[Max(s)],
                 Paging!Writable(prog.areas, L[Max(s)]), v)
      BY <1>4, <2>2
    <3>3. QED
      BY <2>2, <3>1, <3>2
  <2> HIDE DEF iter, F
  <2>3. QED
    BY <2>1, <2>2 DEF FoldsWithin
<1>6. PICK g \in [0 .. N -> X] : IsRun(g, iter, N, ph, F)
  <2> HIDE DEF iter, F
  <2>1. QED
    BY <1>1, <1>3, <1>5, FoldPrefixes
<1>7. ASSUME NEW i \in 1 .. N
      PROVE  g[i] = Paging!pgdir_alloc_page(g[i - 1], d, L[i],
                 Paging!Writable(prog.areas, L[i]), v)
  <2>1. g[i - 1] \in X
    BY <1>1
  <2>2. g[i] = F[i][g[i - 1]]
    <3> HIDE DEF F, iter
    <3>1. QED
      BY <1>6 DEF IsRun
  <2>3. QED
    BY <2>1, <2>2
<1>8. g[0] = ph /\ g[N] = Paging!LoadPages(ph, d, prog, v)
  <2> HIDE DEF F, iter
  <2>1. QED
    BY <1>2, <1>6 DEF IsRun
<1>9. QED
  <2> HIDE DEF F, iter
  <2>1. QED
    BY <1>7, <1>8 DEF LoadSteps, L, N

\* unmap_range stays within X; the steps unmap_areas goes through.
UnmapsWithin(X, d) == \A m \in X, b \in Paging!Area : Paging!unmap_range(m, d, b) \in X

UnmapSteps(g, X, ph, d) ==
    /\ g \in [0 .. Len(mmaps[d]) -> X]
    /\ g[0] = ph
    /\ g[Len(mmaps[d])] = Paging!unmap_areas(ph, d)
    /\ \A i \in 1 .. Len(mmaps[d]) : g[i] = Paging!unmap_range(g[i - 1], d, mmaps[d][i])

LEMMA UnmapAreasRun ==
  ASSUME NEW ph, NEW d, mmaps[d] \in Seq(Paging!Area),
         NEW X, ph \in X, UnmapsWithin(X, d)
  PROVE  \E g : UnmapSteps(g, X, ph, d)
<1> DEFINE L == mmaps[d]
           N == Len(L)
           F == [i \in 1 .. N |-> [m \in X |-> Paging!unmap_range(m, d, L[i])]]
           iter == CHOOSE it : it = [s \in SUBSET (1 .. N) |->
                      IF s = {} THEN ph ELSE Paging!unmap_range(it[s \ {Max(s)}], d, L[Max(s)])]
<1>1. N \in Nat /\ DOMAIN L = 1 .. N /\ \A i \in 1 .. N : L[i] \in Paging!Area
  OBVIOUS
<1>2. Paging!unmap_areas(ph, d) = iter[1 .. N]
  <2> HIDE DEF N
  <2>1. QED
    BY <1>1 DEF Paging!unmap_areas, Paging!FoldLeft,
           Paging!MapThenFoldSet, Paging!Max, Max
<1> HIDE DEF N, L
<1>3. F \in [1 .. N -> [X -> X]]
  BY <1>1 DEF UnmapsWithin
<1>4. iter = [s \in SUBSET (1 .. N) |->
                 IF s = {} THEN ph ELSE Paging!unmap_range(iter[s \ {Max(s)}], d, L[Max(s)])]
  <2>1. PICK it \in [SUBSET (1 .. N) -> X] : IsFold(it, N, ph, F)
    <3> HIDE DEF F
    <3>1. QED
      BY <1>1, <1>3, FoldExists
  <2>2. ASSUME NEW s \in SUBSET (1 .. N), s # {}
        PROVE  F[Max(s)][it[s \ {Max(s)}]] = Paging!unmap_range(it[s \ {Max(s)}], d, L[Max(s)])
    <3>1. Max(s) \in 1 .. N
      BY <1>1, <2>2, MaxInSet
    <3>2. it[s \ {Max(s)}] \in X
      OBVIOUS
    <3>3. QED
      BY <3>1, <3>2
  <2>3. it = [s \in SUBSET (1 .. N) |->
                 IF s = {} THEN ph ELSE Paging!unmap_range(it[s \ {Max(s)}], d, L[Max(s)])]
    <3> HIDE DEF F
    <3>1. QED
      BY <2>1, <2>2 DEF IsFold
  <2>4. QED
    BY <2>3
<1>5. FoldsWithin(iter, N, X, ph, F)
  <2>1. iter[{}] = ph
    <3> HIDE DEF iter
    <3>1. QED
      BY <1>4
  <2>2. ASSUME NEW s \in SUBSET (1 .. N), s # {}, iter[s \ {Max(s)}] \in X
        PROVE  iter[s] = F[Max(s)][iter[s \ {Max(s)}]]
    <3>1. Max(s) \in 1 .. N
      BY <1>1, <2>2, MaxInSet
    <3> HIDE DEF iter
    <3>2. iter[s] = Paging!unmap_range(iter[s \ {Max(s)}], d, L[Max(s)])
      BY <1>4, <2>2
    <3>3. QED
      BY <2>2, <3>1, <3>2
  <2> HIDE DEF iter, F
  <2>3. QED
    BY <2>1, <2>2 DEF FoldsWithin
<1>6. PICK g \in [0 .. N -> X] : IsRun(g, iter, N, ph, F)
  <2> HIDE DEF iter, F
  <2>1. QED
    BY <1>1, <1>3, <1>5, FoldPrefixes
<1>7. ASSUME NEW i \in 1 .. N
      PROVE  g[i] = Paging!unmap_range(g[i - 1], d, L[i])
  <2>1. g[i - 1] \in X
    BY <1>1
  <2>2. g[i] = F[i][g[i - 1]]
    <3> HIDE DEF F, iter
    <3>1. QED
      BY <1>6 DEF IsRun
  <2>3. QED
    BY <2>1, <2>2
<1>8. g[0] = ph /\ g[N] = Paging!unmap_areas(ph, d)
  <2> HIDE DEF F, iter
  <2>1. QED
    BY <1>2, <1>6 DEF IsRun
<1>9. QED
  <2> HIDE DEF F, iter
  <2>1. QED
    BY <1>7, <1>8 DEF UnmapSteps, L, N

\* exit_range stays within X; the steps exit_areas goes through.
ExitsWithin(X, d) == \A m \in X, b \in Paging!Area : Paging!exit_range(m, d, b) \in X

ExitSteps(g, X, ph, d) ==
    /\ g \in [0 .. Len(mmaps[d]) -> X]
    /\ g[0] = ph
    /\ g[Len(mmaps[d])] = Paging!exit_areas(ph, d)
    /\ \A i \in 1 .. Len(mmaps[d]) : g[i] = Paging!exit_range(g[i - 1], d, mmaps[d][i])

LEMMA ExitAreasRun ==
  ASSUME NEW ph, NEW d, mmaps[d] \in Seq(Paging!Area),
         NEW X, ph \in X, ExitsWithin(X, d)
  PROVE  \E g : ExitSteps(g, X, ph, d)
<1> DEFINE L == mmaps[d]
           N == Len(L)
           F == [i \in 1 .. N |-> [m \in X |-> Paging!exit_range(m, d, L[i])]]
           iter == CHOOSE it : it = [s \in SUBSET (1 .. N) |->
                      IF s = {} THEN ph ELSE Paging!exit_range(it[s \ {Max(s)}], d, L[Max(s)])]
<1>1. N \in Nat /\ DOMAIN L = 1 .. N /\ \A i \in 1 .. N : L[i] \in Paging!Area
  OBVIOUS
<1>2. Paging!exit_areas(ph, d) = iter[1 .. N]
  <2> HIDE DEF N
  <2>1. QED
    BY <1>1 DEF Paging!exit_areas, Paging!FoldLeft,
           Paging!MapThenFoldSet, Paging!Max, Max
<1> HIDE DEF N, L
<1>3. F \in [1 .. N -> [X -> X]]
  BY <1>1 DEF ExitsWithin
<1>4. iter = [s \in SUBSET (1 .. N) |->
                 IF s = {} THEN ph ELSE Paging!exit_range(iter[s \ {Max(s)}], d, L[Max(s)])]
  <2>1. PICK it \in [SUBSET (1 .. N) -> X] : IsFold(it, N, ph, F)
    <3> HIDE DEF F
    <3>1. QED
      BY <1>1, <1>3, FoldExists
  <2>2. ASSUME NEW s \in SUBSET (1 .. N), s # {}
        PROVE  F[Max(s)][it[s \ {Max(s)}]] = Paging!exit_range(it[s \ {Max(s)}], d, L[Max(s)])
    <3>1. Max(s) \in 1 .. N
      BY <1>1, <2>2, MaxInSet
    <3>2. it[s \ {Max(s)}] \in X
      OBVIOUS
    <3>3. QED
      BY <3>1, <3>2
  <2>3. it = [s \in SUBSET (1 .. N) |->
                 IF s = {} THEN ph ELSE Paging!exit_range(it[s \ {Max(s)}], d, L[Max(s)])]
    <3> HIDE DEF F
    <3>1. QED
      BY <2>1, <2>2 DEF IsFold
  <2>4. QED
    BY <2>3
<1>5. FoldsWithin(iter, N, X, ph, F)
  <2>1. iter[{}] = ph
    <3> HIDE DEF iter
    <3>1. QED
      BY <1>4
  <2>2. ASSUME NEW s \in SUBSET (1 .. N), s # {}, iter[s \ {Max(s)}] \in X
        PROVE  iter[s] = F[Max(s)][iter[s \ {Max(s)}]]
    <3>1. Max(s) \in 1 .. N
      BY <1>1, <2>2, MaxInSet
    <3> HIDE DEF iter
    <3>2. iter[s] = Paging!exit_range(iter[s \ {Max(s)}], d, L[Max(s)])
      BY <1>4, <2>2
    <3>3. QED
      BY <2>2, <3>1, <3>2
  <2> HIDE DEF iter, F
  <2>3. QED
    BY <2>1, <2>2 DEF FoldsWithin
<1>6. PICK g \in [0 .. N -> X] : IsRun(g, iter, N, ph, F)
  <2> HIDE DEF iter, F
  <2>1. QED
    BY <1>1, <1>3, <1>5, FoldPrefixes
<1>7. ASSUME NEW i \in 1 .. N
      PROVE  g[i] = Paging!exit_range(g[i - 1], d, L[i])
  <2>1. g[i - 1] \in X
    BY <1>1
  <2>2. g[i] = F[i][g[i - 1]]
    <3> HIDE DEF F, iter
    <3>1. QED
      BY <1>6 DEF IsRun
  <2>3. QED
    BY <2>1, <2>2
<1>8. g[0] = ph /\ g[N] = Paging!exit_areas(ph, d)
  <2> HIDE DEF F, iter
  <2>1. QED
    BY <1>2, <1>6 DEF IsRun
<1>9. QED
  <2> HIDE DEF F, iter
  <2>1. QED
    BY <1>7, <1>8 DEF ExitSteps, L, N

-----------------------------------------------------------------------------
(* exit_mmap.                                                              *)

LEMMA PagesOfArea ==
  ASSUME NEW vma \in Paging!Area
  PROVE  /\ Paging!PagesOf(vma) \in Seq(Paging!Pages)
         /\ \A a \in Paging!Pages : vma.vm_start <= a /\ a < vma.vm_end =>
               \E i \in 1 .. Len(Paging!PagesOf(vma)) : Paging!PagesOf(vma)[i] = a
<1> DEFINE s == vma.vm_start
           e == vma.vm_end
<1>1. s \in Nat /\ e \in Nat /\ s < e /\ e <= NPages /\ NPages \in Nat
  BY PagingConstants DEF Paging!Area, Paging!Pages
<1>2. Paging!PagesOf(vma) = [i \in 1 .. e - s |-> s + i - 1]
  BY DEF Paging!PagesOf
<1> HIDE DEF s, e
<1>3. e - s \in Nat /\ \A i \in 1 .. e - s : s + i - 1 \in Paging!Pages
  BY <1>1 DEF Paging!Pages
<1>4. Paging!PagesOf(vma) \in Seq(Paging!Pages) /\ Len(Paging!PagesOf(vma)) = e - s
  BY <1>2, <1>3
<1>5. ASSUME NEW a \in Paging!Pages, s <= a, a < e
      PROVE  \E i \in 1 .. Len(Paging!PagesOf(vma)) : Paging!PagesOf(vma)[i] = a
  <2>1. a \in Nat
    BY <1>1 DEF Paging!Pages
  <2>2. (a - s) + 1 \in 1 .. e - s /\ s + ((a - s) + 1) - 1 = a
    BY <1>1, <1>5, <2>1
  <2>3. Paging!PagesOf(vma)[(a - s) + 1] = a
    BY <1>2, <2>2
  <2>4. QED
    BY <1>4, <2>2, <2>3
<1>6. QED
  BY <1>4, <1>5 DEF s, e

LEMMA DirsOfArea ==
  ASSUME NEW vma \in Paging!Area
  PROVE  /\ Paging!DirsOf(vma) \in Seq(Paging!Dirs)
         /\ \A j \in Paging!Dirs :
               Paging!PDX(vma.vm_start) <= j /\ j <= Paging!PDX(vma.vm_end - 1) =>
               \E i \in 1 .. Len(Paging!DirsOf(vma)) : Paging!DirsOf(vma)[i] = j
<1> DEFINE s == Paging!PDX(vma.vm_start)
           e == Paging!PDX(vma.vm_end - 1)
           top == Paging!PDX(NPages - 1)
<1>1. vma.vm_start \in Paging!Pages /\ vma.vm_end - 1 \in Paging!Pages
      /\ vma.vm_start <= vma.vm_end - 1 /\ NPages - 1 \in Paging!Pages
  BY AreaPages, PagingConstants DEF Paging!Pages
<1>2. s \in Paging!Dirs /\ e \in Paging!Dirs /\ s <= e /\ top \in Paging!Dirs
      /\ Paging!Dirs = 0 .. top
  BY <1>1, EntryOf DEF Paging!Dirs
<1>3. Paging!DirsOf(vma) = [k \in 1 .. e - s + 1 |-> s + k - 1]
  BY DEF Paging!DirsOf
<1>a. top \in Nat
  BY <1>2, EntryOf, PagingConstants DEF Paging!Pages
<1> HIDE DEF s, e, top
<1>4. e - s + 1 \in Nat /\ \A i \in 1 .. e - s + 1 : s + i - 1 \in 0 .. top
  BY <1>a, <1>2
<1>5. Paging!DirsOf(vma) \in Seq(Paging!Dirs) /\ Len(Paging!DirsOf(vma)) = e - s + 1
  BY <1>2, <1>3, <1>4
<1>6. ASSUME NEW j \in Paging!Dirs, s <= j, j <= e
      PROVE  \E i \in 1 .. Len(Paging!DirsOf(vma)) : Paging!DirsOf(vma)[i] = j
  <2>1. (j - s) + 1 \in 1 .. e - s + 1 /\ s + ((j - s) + 1) - 1 = j
    BY <1>a, <1>2, <1>6
  <2>2. Paging!DirsOf(vma)[(j - s) + 1] = j
    BY <1>3, <2>1
  <2>3. QED
    BY <1>5, <2>1, <2>2
<1>7. QED
  BY <1>5, <1>6 DEF s, e

\* Kept memory, in which the pages of d that are not mapped in ph are not either
\* and those of others are as they were.
Shrunk(ph, d, D, A, K) ==
    {s \in Phys : /\ Kept(s, D, A, K) /\ Same(ph, s, D \ {d})
                  /\ \A b \in Paging!Pages : Paging!Pte(ph, d, b) = None =>
                                             Paging!Pte(s, d, b) = None}

LEMMA UnmapRangeKeeps ==
  ASSUME NEW ph, NEW D, NEW A, NEW K, NEW d \in D, NEW first,
         ph \in Shrunk(first, d, D, A, K), NEW vma \in Paging!Area,
         NEW r, r = Paging!unmap_range(ph, d, vma)
  PROVE  /\ r \in Shrunk(ph, d, D, A, K) /\ r \in Shrunk(first, d, D, A, K)
         /\ \A a \in Paging!Pages : vma.vm_start <= a /\ a < vma.vm_end =>
               Paging!Pte(r, d, a) = None
<1> DEFINE L == Paging!PagesOf(vma)
           N == Len(L)
           X == Shrunk(ph, d, D, A, K)
<1>1. L \in Seq(Paging!Pages) /\ N \in Nat /\ \A i \in 1 .. N : L[i] \in Paging!Pages
  BY PagesOfArea
<1>2. ph \in X
  BY DEF Shrunk, Same
<1>3. ASSUME NEW m \in X, NEW b \in Paging!Pages
      PROVE  /\ Paging!page_remove_pte(m, d, b) \in X
             /\ Paging!Pte(Paging!page_remove_pte(m, d, b), d, b) = None
             /\ \A c \in Paging!Pages : Paging!Pte(m, d, c) = None =>
                   Paging!Pte(Paging!page_remove_pte(m, d, b), d, c) = None
  <2>1. PICK n : n = Paging!page_remove_pte(m, d, b)
    OBVIOUS
  <2>2. Kept(m, D, A, K)
    BY DEF Shrunk
  <2>3. /\ Kept(n, D, A, K) /\ EntriesExcept(m, n, D, d, b, None)
        /\ SameBut(m, n, D, d, b, {})
    BY <2>1, <2>2, RemoveKeeps
  <2>4. n \in Phys
    BY <2>3 DEF Kept
  <2>5. \A c \in Paging!Pages :
           Paging!Pte(n, d, c) = IF c = b THEN None ELSE Paging!Pte(m, d, c)
    BY <2>3 DEF EntriesExcept
  <2>6. Same(ph, n, D \ {d})
    BY <2>3 DEF Shrunk, Same, SameBut
  <2>7. n \in X
    BY <2>3, <2>4, <2>5, <2>6 DEF Shrunk
  <2>8. QED
    BY <2>1, <2>5, <2>7
<1>4. PICK g \in [0 .. N -> X] :
         /\ g[0] = ph /\ g[N] = r
         /\ \A i \in 1 .. N : g[i] = Paging!page_remove_pte(g[i - 1], d, L[i])
  <2> HIDE DEF X
  <2>1. QED
    BY <1>1, <1>2, <1>3, UnmapRangeRun
<1> DEFINE S == {n \in 0 .. N : \A i \in 1 .. n : Paging!Pte(g[n], d, L[i]) = None}
<1> HIDE DEF X, L, N
<1>5. 0 \in S
  BY <1>1
<1>6. ASSUME NEW n \in 0 .. N, n < N, n \in S
      PROVE  n + 1 \in S
  <2>1. /\ n + 1 \in 1 .. N /\ (n + 1) - 1 = n /\ g[n] \in X /\ L[n + 1] \in Paging!Pages
        /\ \A i \in 1 .. n + 1 : (i \in 1 .. n \/ i = n + 1) /\ L[i] \in Paging!Pages
    BY <1>1, <1>6
  <2>2. g[n + 1] = Paging!page_remove_pte(g[n], d, L[n + 1])
    BY <1>4, <2>1
  <2>3. \A i \in 1 .. n : Paging!Pte(g[n], d, L[i]) = None
    BY <1>6
  <2>4. \A i \in 1 .. n + 1 : Paging!Pte(g[n + 1], d, L[i]) = None
    BY <1>3, <2>1, <2>2, <2>3
  <2>5. QED
    BY <2>1, <2>4
<1>7. N \in S
  <2>1. 0 .. N \subseteq S
    <3> HIDE DEF S
    <3>1. QED
      BY <1>1, <1>5, <1>6, IntervalInduction
  <2>2. QED
    BY <1>1, <2>1
<1>8. \A i \in 1 .. N : Paging!Pte(r, d, L[i]) = None
  BY <1>4, <1>7
<1>9. r \in X
  BY <1>1, <1>4
<1>10. r \in Shrunk(first, d, D, A, K)
  <2>1. Same(first, r, D \ {d})
    BY <1>9 DEF X, Shrunk, Same
  <2>2. QED
    BY <1>9, <2>1 DEF X, Shrunk
<1>11. QED
  BY <1>8, <1>9, <1>10, PagesOfArea DEF X, L, N

\* Nothing of an area is mapped.
Gone(ph, d, vma) ==
    \A a \in Paging!Pages : vma.vm_start <= a /\ a < vma.vm_end =>
        Paging!Pte(ph, d, a) = None

\* Nothing of d is mapped.
Unmapped(ph, d) == \A a \in Paging!Pages : Paging!Pte(ph, d, a) = None

LEMMA ListElements ==
  ASSUME NEW S, NEW list \in Seq(S)
  PROVE  /\ Len(list) \in Nat
         /\ \A i \in 1 .. Len(list) : list[i] \in S
         /\ \A x : x \in Paging!ToSet(list) <=> \E i \in 1 .. Len(list) : list[i] = x
         /\ Paging!ToSet(list) = ToSet(list)
<1>1. DOMAIN list = 1 .. Len(list) /\ Len(list) \in Nat
  OBVIOUS
<1>2. QED
  BY <1>1 DEF Paging!ToSet, ToSet

\* unmap_range for every area leaves nothing mapped.
LEMMA UnmapAreasKeeps ==
  ASSUME NEW ph, NEW D, NEW K, Kept(ph, D, mmaps, K), NEW d \in D,
         NEW r, r = Paging!unmap_areas(ph, d)
  PROVE  Kept(r, D, mmaps, K) /\ Unmapped(r, d) /\ Same(ph, r, D \ {d})
<1> DEFINE L == mmaps[d]
           N == Len(L)
           X == Shrunk(ph, d, D, mmaps, K)
<1>1. L \in Seq(Paging!Area) /\ N \in Nat /\ \A i \in 1 .. N : L[i] \in Paging!Area
  BY ListElements DEF Kept
<1>2. ph \in X
  BY DEF Shrunk, Kept, Same
<1>3. ASSUME NEW m \in X, NEW vma \in Paging!Area
      PROVE  /\ Paging!unmap_range(m, d, vma) \in X
             /\ Gone(Paging!unmap_range(m, d, vma), d, vma)
             /\ \A b \in Paging!Area : Gone(m, d, b) =>
                   Gone(Paging!unmap_range(m, d, vma), d, b)
  <2>1. PICK n : n = Paging!unmap_range(m, d, vma)
    OBVIOUS
  <2>2. /\ n \in Shrunk(m, d, D, mmaps, K) /\ n \in X
        /\ \A a \in Paging!Pages : vma.vm_start <= a /\ a < vma.vm_end =>
              Paging!Pte(n, d, a) = None
    BY <2>1, UnmapRangeKeeps
  <2>3. QED
    BY <2>1, <2>2 DEF Gone, Shrunk
<1>4. PICK g : UnmapSteps(g, X, ph, d)
  <2>1. UnmapsWithin(X, d)
    <3> HIDE DEF X
    <3>1. QED
      BY <1>3 DEF UnmapsWithin
  <2> HIDE DEF X
  <2>2. QED
    BY <1>1, <1>2, <2>1, UnmapAreasRun
<1>a. /\ g \in [0 .. N -> X] /\ g[0] = ph /\ g[N] = r
      /\ \A i \in 1 .. N : g[i] = Paging!unmap_range(g[i - 1], d, L[i])
  <2> HIDE DEF X
  <2>1. QED
    BY <1>4 DEF UnmapSteps
<1> DEFINE S == {n \in 0 .. N : \A i \in 1 .. n : Gone(g[n], d, L[i])}
<1> HIDE DEF X, L, N
<1>5. 0 \in S
  BY <1>1
<1>6. ASSUME NEW n \in 0 .. N, n < N, n \in S
      PROVE  n + 1 \in S
  <2>1. /\ n + 1 \in 1 .. N /\ (n + 1) - 1 = n /\ g[n] \in X /\ L[n + 1] \in Paging!Area
        /\ \A i \in 1 .. n + 1 : (i \in 1 .. n \/ i = n + 1) /\ L[i] \in Paging!Area
    BY <1>1, <1>a, <1>6
  <2>2. g[n + 1] = Paging!unmap_range(g[n], d, L[n + 1])
    BY <1>a, <2>1
  <2>3. \A i \in 1 .. n : Gone(g[n], d, L[i])
    BY <1>6
  <2>4. \A i \in 1 .. n + 1 : Gone(g[n + 1], d, L[i])
    BY <1>3, <2>1, <2>2, <2>3
  <2>5. QED
    BY <2>1, <2>4
<1>7. N \in S
  <2>1. 0 .. N \subseteq S
    <3> HIDE DEF S
    <3>1. QED
      BY <1>1, <1>5, <1>6, IntervalInduction
  <2>2. QED
    BY <1>1, <2>1
<1>8. \A i \in 1 .. N : Gone(r, d, L[i])
  BY <1>a, <1>7
<1>9. r \in X
  BY <1>1, <1>a
<1>10. Kept(r, D, mmaps, K) /\ Follows(r, d, L) /\ Same(ph, r, D \ {d})
  BY <1>9 DEF X, Shrunk, Kept, L
<1>11. ASSUME NEW a \in Paging!Pages, Paging!Pte(r, d, a) # None
       PROVE  FALSE
  <2>1. PICK vma \in Paging!ToSet(L) : vma.vm_start <= a /\ a < vma.vm_end
    BY <1>10, <1>11 DEF Follows, Paging!AreaAt
  <2>2. PICK i \in 1 .. Len(L) : L[i] = vma
    BY <1>1, <2>1, ListElements
  <2>3. QED
    BY <1>8, <1>11, <2>1, <2>2 DEF Gone, N
<1>12. QED
  BY <1>10, <1>11 DEF Unmapped

\* exit_range frees one table.
LEMMA FreeTableKeeps ==
  ASSUME NEW ph, NEW D, NEW A, NEW K, Kept(ph, D, A, K),
         NEW d \in D, Unmapped(ph, d), NEW i \in Paging!Dirs,
         NEW r, r = Paging!FreeTable(ph, d, i)
  PROVE  /\ Kept(r, D, A, K) /\ Unmapped(r, d)
         /\ r.dir[d][i] = 0
         /\ \A j \in Paging!Dirs : r.dir[d][j] \in {ph.dir[d][j], 0}
         /\ Same(ph, r, D)
<1>1. ph \in Phys /\ D \in SUBSET Paging!Frames /\ d \in Paging!Frames /\ ph.ok
      /\ Owned(Uses(ph, D), ph.free, K) /\ Counted(Uses(ph, D), ph.free, ph.ref)
  BY DEF Kept
<1>2. CASE ph.dir[d][i] = 0
  BY <1>2 DEF Paging!FreeTable, Same
<1>3. CASE ph.dir[d][i] # 0
  <2> DEFINE k == <<d, "table", i>>
             u == Uses(ph, D)
  <2>1. PICK T : T = ph.dir[d][i]
    OBVIOUS
  <2>2. T \in Paging!Frames /\ T \notin ph.free \cup K
        /\ ph.dir \in [Paging!Frames -> [Paging!Dirs -> Paging!Frames \cup {0}]]
    BY <1>1, <1>3, <2>1, TablesApart, PhysFields
  <2>3. PICK dir : dir = [ph.dir EXCEPT ![d][i] = 0]
    OBVIOUS
  <2>4. /\ dir \in [Paging!Frames -> [Paging!Dirs -> Paging!Frames \cup {0}]]
        /\ \A e \in Paging!Frames, j \in Paging!Dirs :
              dir[e][j] = IF e = d /\ j = i THEN 0 ELSE ph.dir[e][j]
    BY <1>1, <2>2, <2>3
  <2>5. /\ r.free = ph.free \cup {T} /\ r.ref = [ph.ref EXCEPT ![T] = 0]
        /\ r.dir = dir /\ r.table = ph.table /\ r.ok
        /\ r \in Phys /\ OnlyContent(ph, r, T)
    <3>1. /\ ph = [free |-> ph.free, ref |-> ph.ref, content |-> ph.content,
                   dir |-> ph.dir, table |-> ph.table, got |-> ph.got, ok |-> ph.ok]
          /\ ph.free \in SUBSET Paging!Frames
          /\ ph.ref \in [Paging!Frames -> Nat]
          /\ ph.content \in [Paging!Frames -> Contents \cup {None}]
          /\ ph.table \in [Paging!Frames ->
                             [0 .. NPTEENTRY - 1 -> Paging!Entry \cup {None}]]
          /\ ph.got \in Paging!Frames \cup {0} /\ ph.ok \in BOOLEAN
      BY <1>1, PhysFields
    <3>2. PICK ref, contents : /\ ref = [ph.ref EXCEPT ![T] = 0]
                               /\ contents = [ph.content EXCEPT ![T] = None]
      OBVIOUS
    <3>3. ref \in [Paging!Frames -> Nat] /\ contents \in [Paging!Frames -> Contents \cup {None}]
      BY <3>1, <3>2
    <3>4. r = [[ph EXCEPT !.free = ph.free \cup {T}, !.ref = ref,
                          !.content = contents] EXCEPT !.dir = dir]
      BY <1>3, <2>1, <2>3, <3>2 DEF Paging!FreeTable, Paging!free_page
    <3>5. r = [free |-> ph.free \cup {T}, ref |-> ref, content |-> contents,
               dir |-> dir, table |-> ph.table, got |-> ph.got, ok |-> ph.ok]
      BY <3>1, <3>4
    <3>6. OnlyContent(ph, r, T)
      BY <3>1, <3>2, <3>5 DEF OnlyContent
    <3>7. QED
      BY <1>1, <2>2, <2>4, <3>1, <3>2, <3>3, <3>5, <3>6 DEF Phys
  <2>6. \A e \in D, b \in Paging!Pages : Paging!Pte(r, e, b) = Paging!Pte(ph, e, b)
    <3> SUFFICES ASSUME NEW e \in D, NEW b \in Paging!Pages
                 PROVE  Paging!Pte(r, e, b) = Paging!Pte(ph, e, b)
      OBVIOUS
    <3>1. Paging!PDX(b) \in Paging!Dirs /\ e \in Paging!Frames
      BY <1>1, EntryOf
    <3>2. CASE e = d /\ Paging!PDX(b) = i
      <4>1. Paging!Pte(ph, e, b) = None
        BY <3>2 DEF Unmapped
      <4>2. Paging!TableOf(r, e, b) = 0
        BY <2>4, <2>5, <3>1, <3>2 DEF Paging!TableOf
      <4>3. QED
        BY <4>1, <4>2 DEF Paging!Pte
    <3>3. CASE ~(e = d /\ Paging!PDX(b) = i)
      <4>1. Paging!TableOf(r, e, b) = Paging!TableOf(ph, e, b)
        BY <2>4, <2>5, <3>1, <3>3 DEF Paging!TableOf
      <4>2. QED
        BY <2>5, <4>1 DEF Paging!Pte
    <3>4. QED
      BY <3>2, <3>3
  <2>7. k \in Keys /\ u[k] = T /\ Uses(r, D)[k] = 0
    <3>1. k \in Keys /\ u[k] = ph.dir[d][i] /\ Uses(r, D)[k] = r.dir[d][i]
      BY <1>1, UsesAt
    <3>2. QED
      BY <1>1, <2>1, <2>4, <2>5, <3>1
  <2>8. Uses(r, D) = [u EXCEPT ![k] = 0]
    <3>1. \A e \in Paging!Frames : <<e, "dir", 0>> # k =>
             Uses(r, D)[<<e, "dir", 0>>] = Uses(ph, D)[<<e, "dir", 0>>]
      BY UsesAt
    <3>2. ASSUME NEW e \in Paging!Frames, NEW j \in Paging!Dirs, <<e, "table", j>> # k
          PROVE  Uses(r, D)[<<e, "table", j>>] = Uses(ph, D)[<<e, "table", j>>]
      <4>1. r.dir[e][j] = ph.dir[e][j]
        BY <2>4, <2>5, <3>2
      <4>2. QED
        BY <4>1, UsesAt
    <3>3. ASSUME NEW e \in Paging!Frames, NEW a \in Paging!Pages, <<e, "page", a>> # k
          PROVE  Uses(r, D)[<<e, "page", a>>] = Uses(ph, D)[<<e, "page", a>>]
      <4>1. e \in D => FrameAt(r, e, a) = FrameAt(ph, e, a)
        BY <2>6 DEF FrameAt
      <4>2. QED
        BY <4>1, UsesAt
    <3>4. UsesBut(ph, r, D, D, k)
      BY <3>1, <3>2, <3>3 DEF UsesBut
    <3>5. QED
      BY <2>7, <3>4, UsesExcept
  <2>9. /\ Owned(u, ph.free, K) /\ Counted(u, ph.free, ph.ref)
        /\ ph.ref \in [Paging!Frames -> Nat] /\ T # 0
    BY <1>1, <2>2, PhysFields, PagingConstants
  <2> HIDE DEF u, k
  <2>10. Owned(Uses(r, D), r.free, K) /\ Counted(Uses(r, D), r.free, r.ref)
    <3>1. Owned([u EXCEPT ![k] = 0], ph.free \cup {T}, K)
      BY <2>7, <2>9, UseDrop
    <3>2. Counted([u EXCEPT ![k] = 0], ph.free \cup {T}, [ph.ref EXCEPT ![T] = 0])
      BY <2>7, <2>9, CountDropped
    <3>3. QED
      BY <2>5, <2>8, <3>1, <3>2
  <2>11. ASSUME NEW e \in D
         PROVE  A[e] \in Seq(Paging!Area) /\ Follows(r, e, A[e])
    <3>1. A[e] \in Seq(Paging!Area) /\ Follows(ph, e, A[e]) /\ e \in Paging!Frames
      BY <1>1 DEF Kept
    <3>2. \A j \in Paging!Dirs : r.dir[e][j] \in {ph.dir[e][j], 0}
      BY <2>4, <2>5, <3>1
    <3>3. QED
      BY <2>6, <3>1, <3>2, FollowsSame
  <2>12. Kept(r, D, A, K)
    BY <1>1, <2>5, <2>10, <2>11 DEF Kept
  <2>13. Same(ph, r, D)
    <3>1. NoPage(ph, D, T)
      BY <1>1, <1>3, <2>1, PagesApart
    <3>2. QED
      BY <1>1, <2>5, <2>6, <3>1, HoldsSame
  <2>14. QED
    BY <1>1, <2>4, <2>5, <2>6, <2>12, <2>13 DEF Unmapped
<1>4. QED
  BY <1>2, <1>3

\* Kept memory with nothing of d mapped, and no table of d where ph has none.
\* The pages of others are as they were.
Emptied(ph, d, D, A, K) ==
    {s \in Phys : /\ Kept(s, D, A, K) /\ Unmapped(s, d) /\ Same(ph, s, D \ {d})
                  /\ \A j \in Paging!Dirs : ph.dir[d][j] = 0 => s.dir[d][j] = 0}

\* No page table serves an area.
NoTables(ph, d, vma) ==
    \A j \in Paging!Dirs :
        Paging!PDX(vma.vm_start) <= j /\ j <= Paging!PDX(vma.vm_end - 1) =>
        ph.dir[d][j] = 0

Bare(ph, d, j) == ph.dir[d][j] = 0

LEMMA ExitRangeKeeps ==
  ASSUME NEW ph, NEW D, NEW A, NEW K, NEW d \in D, NEW first,
         ph \in Emptied(first, d, D, A, K), NEW vma \in Paging!Area,
         NEW r, r = Paging!exit_range(ph, d, vma)
  PROVE  /\ r \in Emptied(ph, d, D, A, K) /\ r \in Emptied(first, d, D, A, K)
         /\ NoTables(r, d, vma)
<1> DEFINE L == Paging!DirsOf(vma)
           N == Len(L)
           X == Emptied(ph, d, D, A, K)
<1>1. L \in Seq(Paging!Dirs) /\ N \in Nat /\ \A i \in 1 .. N : L[i] \in Paging!Dirs
  BY DirsOfArea
<1>2. ph \in X
  BY DEF Emptied, Same
<1>3. ASSUME NEW m \in X, NEW b \in Paging!Dirs
      PROVE  /\ Paging!FreeTable(m, d, b) \in X
             /\ Bare(Paging!FreeTable(m, d, b), d, b)
             /\ \A c \in Paging!Dirs : Bare(m, d, c) =>
                   Bare(Paging!FreeTable(m, d, b), d, c)
  <2>1. PICK n : n = Paging!FreeTable(m, d, b)
    OBVIOUS
  <2>2. Kept(m, D, A, K) /\ Unmapped(m, d)
    BY DEF Emptied
  <2>3. /\ Kept(n, D, A, K) /\ Unmapped(n, d) /\ n.dir[d][b] = 0
        /\ \A c \in Paging!Dirs : n.dir[d][c] \in {m.dir[d][c], 0}
        /\ Same(m, n, D)
    BY <2>1, <2>2, FreeTableKeeps
  <2>4. n \in Phys
    BY <2>3 DEF Kept
  <2>5. \A c \in Paging!Dirs : m.dir[d][c] = 0 => n.dir[d][c] = 0
    BY <2>3
  <2>6. Same(ph, n, D \ {d})
    BY <2>3 DEF Emptied, Same
  <2>7. n \in X
    BY <2>3, <2>4, <2>5, <2>6 DEF Emptied
  <2>8. QED
    BY <2>1, <2>3, <2>5, <2>7 DEF Bare
<1>4. PICK g : FreeSteps(g, X, ph, d, vma)
  <2>1. FreesWithin(X, d)
    <3> HIDE DEF X
    <3>1. QED
      BY <1>3 DEF FreesWithin
  <2> HIDE DEF X
  <2>2. QED
    BY <1>1, <1>2, <2>1, ExitRangeRun
<1>a. /\ g \in [0 .. N -> X] /\ g[0] = ph /\ g[N] = r
      /\ \A i \in 1 .. N : g[i] = Paging!FreeTable(g[i - 1], d, L[i])
  <2> HIDE DEF X
  <2>1. QED
    BY <1>4 DEF FreeSteps
<1> DEFINE S == {n \in 0 .. N : \A i \in 1 .. n : Bare(g[n], d, L[i])}
<1> HIDE DEF X, L, N
<1>5. 0 \in S
  BY <1>1
<1>6. ASSUME NEW n \in 0 .. N, n < N, n \in S
      PROVE  n + 1 \in S
  <2>1. /\ n + 1 \in 1 .. N /\ (n + 1) - 1 = n /\ g[n] \in X /\ L[n + 1] \in Paging!Dirs
        /\ \A i \in 1 .. n + 1 : (i \in 1 .. n \/ i = n + 1) /\ L[i] \in Paging!Dirs
    BY <1>1, <1>a, <1>6
  <2>2. g[n + 1] = Paging!FreeTable(g[n], d, L[n + 1])
    BY <1>a, <2>1
  <2>3. \A i \in 1 .. n : Bare(g[n], d, L[i])
    BY <1>6
  <2>4. \A i \in 1 .. n + 1 : Bare(g[n + 1], d, L[i])
    BY <1>3, <2>1, <2>2, <2>3
  <2>5. QED
    BY <2>1, <2>4
<1>7. N \in S
  <2>1. 0 .. N \subseteq S
    <3> HIDE DEF S
    <3>1. QED
      BY <1>1, <1>5, <1>6, IntervalInduction
  <2>2. QED
    BY <1>1, <2>1
<1>8. \A i \in 1 .. N : Bare(r, d, L[i])
  BY <1>a, <1>7
<1>9. r \in X
  BY <1>1, <1>a
<1>10. r \in Emptied(first, d, D, A, K)
  <2>1. Same(first, r, D \ {d})
    BY <1>9 DEF X, Emptied, Same
  <2>2. QED
    BY <1>9, <2>1 DEF X, Emptied
<1>11. QED
  BY <1>8, <1>9, <1>10, DirsOfArea DEF X, L, N, NoTables, Bare

\* exit_range for every area leaves no page table.
LEMMA ExitAreasKeeps ==
  ASSUME NEW ph, NEW D, NEW K, Kept(ph, D, mmaps, K), NEW d \in D, Unmapped(ph, d),
         NEW r, r = Paging!exit_areas(ph, d)
  PROVE  /\ Kept(r, D, mmaps, K) /\ Unmapped(r, d)
         /\ \A j \in Paging!Dirs : r.dir[d][j] = 0
         /\ Same(ph, r, D \ {d})
<1> DEFINE L == mmaps[d]
           N == Len(L)
           X == Emptied(ph, d, D, mmaps, K)
<1>1. L \in Seq(Paging!Area) /\ N \in Nat /\ \A i \in 1 .. N : L[i] \in Paging!Area
  BY ListElements DEF Kept
<1>2. ph \in X
  BY DEF Emptied, Kept, Same
<1>3. ASSUME NEW m \in X, NEW vma \in Paging!Area
      PROVE  /\ Paging!exit_range(m, d, vma) \in X
             /\ NoTables(Paging!exit_range(m, d, vma), d, vma)
             /\ \A b \in Paging!Area : NoTables(m, d, b) =>
                   NoTables(Paging!exit_range(m, d, vma), d, b)
  <2>1. PICK n : n = Paging!exit_range(m, d, vma)
    OBVIOUS
  <2>2. /\ n \in Emptied(m, d, D, mmaps, K) /\ n \in X /\ NoTables(n, d, vma)
    BY <2>1, ExitRangeKeeps
  <2>3. QED
    BY <2>1, <2>2 DEF NoTables, Emptied
<1>4. PICK g : ExitSteps(g, X, ph, d)
  <2>1. ExitsWithin(X, d)
    <3> HIDE DEF X
    <3>1. QED
      BY <1>3 DEF ExitsWithin
  <2> HIDE DEF X
  <2>2. QED
    BY <1>1, <1>2, <2>1, ExitAreasRun
<1>a. /\ g \in [0 .. N -> X] /\ g[0] = ph /\ g[N] = r
      /\ \A i \in 1 .. N : g[i] = Paging!exit_range(g[i - 1], d, L[i])
  <2> HIDE DEF X
  <2>1. QED
    BY <1>4 DEF ExitSteps
<1> DEFINE S == {n \in 0 .. N : \A i \in 1 .. n : NoTables(g[n], d, L[i])}
<1> HIDE DEF X, L, N
<1>5. 0 \in S
  BY <1>1
<1>6. ASSUME NEW n \in 0 .. N, n < N, n \in S
      PROVE  n + 1 \in S
  <2>1. /\ n + 1 \in 1 .. N /\ (n + 1) - 1 = n /\ g[n] \in X /\ L[n + 1] \in Paging!Area
        /\ \A i \in 1 .. n + 1 : (i \in 1 .. n \/ i = n + 1) /\ L[i] \in Paging!Area
    BY <1>1, <1>a, <1>6
  <2>2. g[n + 1] = Paging!exit_range(g[n], d, L[n + 1])
    BY <1>a, <2>1
  <2>3. \A i \in 1 .. n : NoTables(g[n], d, L[i])
    BY <1>6
  <2>4. \A i \in 1 .. n + 1 : NoTables(g[n + 1], d, L[i])
    BY <1>3, <2>1, <2>2, <2>3
  <2>5. QED
    BY <2>1, <2>4
<1>7. N \in S
  <2>1. 0 .. N \subseteq S
    <3> HIDE DEF S
    <3>1. QED
      BY <1>1, <1>5, <1>6, IntervalInduction
  <2>2. QED
    BY <1>1, <2>1
<1>8. \A i \in 1 .. N : NoTables(r, d, L[i])
  BY <1>a, <1>7
<1>9. r \in X
  BY <1>1, <1>a
<1>10. /\ Kept(r, D, mmaps, K) /\ Unmapped(r, d) /\ Follows(r, d, L)
       /\ Same(ph, r, D \ {d})
  BY <1>9 DEF X, Emptied, Kept, L
<1>11. ASSUME NEW j \in Paging!Dirs, r.dir[d][j] # 0
       PROVE  FALSE
  <2>1. PICK vma \in ToSet(L) : /\ Paging!PDX(vma.vm_start) <= j
                                /\ j <= Paging!PDX(vma.vm_end - 1)
    BY <1>10, <1>11 DEF Follows
  <2>2. PICK i \in 1 .. Len(L) : L[i] = vma
    BY <1>1, <2>1, ListElements
  <2>3. QED
    BY <1>8, <1>11, <2>1, <2>2 DEF NoTables, N
<1>12. QED
  BY <1>10, <1>11

-----------------------------------------------------------------------------
(* An mm goes, an mm comes.                                                *)

\* put_pgdir, when nothing is left of an mm but its directory.
LEMMA DirLeaves ==
  ASSUME NEW ph, NEW D, NEW A, NEW K, Kept(ph, D, A, K),
         NEW d \in D, Unmapped(ph, d), \A j \in Paging!Dirs : Bare(ph, d, j),
         NEW r, r = Paging!free_page(ph, d)
  PROVE  Kept(r, D \ {d}, A, K) /\ Same(ph, r, D \ {d})
<1> DEFINE k == <<d, "dir", 0>>
           u == Uses(ph, D)
           E == D \ {d}
<1>1. /\ ph \in Phys /\ D \in SUBSET Paging!Frames /\ d \in Paging!Frames /\ ph.ok
      /\ Owned(u, ph.free, K) /\ Counted(u, ph.free, ph.ref)
      /\ ph.ref \in [Paging!Frames -> Nat] /\ d # 0
  BY PhysFields, PagingConstants DEF Kept
<1>2. /\ r.free = ph.free \cup {d} /\ r.ref = [ph.ref EXCEPT ![d] = 0]
      /\ r.dir = ph.dir /\ r.table = ph.table /\ r.ok /\ r \in Phys
      /\ OnlyContent(ph, r, d)
  <2>1. /\ ph = [free |-> ph.free, ref |-> ph.ref, content |-> ph.content,
                 dir |-> ph.dir, table |-> ph.table, got |-> ph.got, ok |-> ph.ok]
        /\ ph.free \in SUBSET Paging!Frames
        /\ ph.content \in [Paging!Frames -> Contents \cup {None}]
        /\ ph.dir \in [Paging!Frames -> [Paging!Dirs -> Paging!Frames \cup {0}]]
        /\ ph.table \in [Paging!Frames ->
                           [0 .. NPTEENTRY - 1 -> Paging!Entry \cup {None}]]
        /\ ph.got \in Paging!Frames \cup {0} /\ ph.ok \in BOOLEAN
    BY <1>1, PhysFields
  <2>2. PICK ref, contents : /\ ref = [ph.ref EXCEPT ![d] = 0]
                             /\ contents = [ph.content EXCEPT ![d] = None]
    OBVIOUS
  <2>3. ref \in [Paging!Frames -> Nat] /\ contents \in [Paging!Frames -> Contents \cup {None}]
    BY <1>1, <2>1, <2>2
  <2>4. r = [ph EXCEPT !.free = ph.free \cup {d}, !.ref = ref, !.content = contents]
    BY <2>2 DEF Paging!free_page
  <2>5. r = [free |-> ph.free \cup {d}, ref |-> ref, content |-> contents,
             dir |-> ph.dir, table |-> ph.table, got |-> ph.got, ok |-> ph.ok]
    BY <2>1, <2>4
  <2>6. OnlyContent(ph, r, d)
    BY <2>1, <2>2, <2>5 DEF OnlyContent
  <2>7. QED
    BY <1>1, <2>1, <2>2, <2>3, <2>5, <2>6 DEF Phys
<1>3. /\ \A e, b : Paging!Pte(r, e, b) = Paging!Pte(ph, e, b)
      /\ \A e, list : Follows(ph, e, list) => Follows(r, e, list)
  BY <1>2, SameTables
<1>4. k \in Keys /\ u[k] = d /\ Uses(r, E)[k] = 0
  BY <1>1, UsesAt
<1>5. Uses(r, E) = [u EXCEPT ![k] = 0]
  <2>1. \A e \in Paging!Frames : <<e, "dir", 0>> # k =>
           Uses(r, E)[<<e, "dir", 0>>] = Uses(ph, D)[<<e, "dir", 0>>]
    BY UsesAt
  <2>2. ASSUME NEW e \in Paging!Frames, NEW j \in Paging!Dirs, <<e, "table", j>> # k
        PROVE  Uses(r, E)[<<e, "table", j>>] = Uses(ph, D)[<<e, "table", j>>]
    <3>1. r.dir[e][j] = ph.dir[e][j] /\ (e = d => ph.dir[e][j] = 0)
      BY <1>2 DEF Bare
    <3>2. QED
      BY <3>1, UsesAt
  <2>3. ASSUME NEW e \in Paging!Frames, NEW a \in Paging!Pages, <<e, "page", a>> # k
        PROVE  Uses(r, E)[<<e, "page", a>>] = Uses(ph, D)[<<e, "page", a>>]
    <3>1. FrameAt(r, e, a) = FrameAt(ph, e, a) /\ (e = d => FrameAt(ph, e, a) = 0)
      BY <1>3 DEF FrameAt, Unmapped
    <3>2. QED
      BY <3>1, UsesAt
  <2>4. UsesBut(ph, r, D, E, k)
    BY <2>1, <2>2, <2>3 DEF UsesBut
  <2>5. QED
    BY <1>4, <2>4, UsesExcept
<1>6. Owned(Uses(r, E), r.free, K) /\ Counted(Uses(r, E), r.free, r.ref)
  <2> HIDE DEF u, k, E
  <2>1. Owned([u EXCEPT ![k] = 0], ph.free \cup {d}, K)
    BY <1>1, <1>4, UseDrop
  <2>2. Counted([u EXCEPT ![k] = 0], ph.free \cup {d}, [ph.ref EXCEPT ![d] = 0])
    BY <1>1, <1>4, CountDropped
  <2>3. QED
    BY <1>2, <1>5, <2>1, <2>2
<1>7. \A e \in E : A[e] \in Seq(Paging!Area) /\ Follows(r, e, A[e])
  BY <1>3 DEF Kept
<1>8. Same(ph, r, E)
  <2>1. NoPage(ph, D, d)
    BY <1>1, PagesApart
  <2>2. Same(ph, r, D)
    BY <1>1, <1>2, <1>3, <2>1, HoldsSame
  <2>3. QED
    BY <2>2 DEF Same
<1>9. QED
  BY <1>1, <1>2, <1>6, <1>7, <1>8 DEF Kept

\* mm_destroy after exit_mmap: all of an mm is free again.
LEMMA MmLeaves ==
  ASSUME NEW ph, NEW D, NEW K, Kept(ph, D, mmaps, K), NEW d \in D
  PROVE  /\ Kept(Paging!free_page(Paging!exit_mmap(ph, d), d), D \ {d}, mmaps, K)
         /\ Same(ph, Paging!free_page(Paging!exit_mmap(ph, d), d), D \ {d})
<1>1. PICK m : m = Paging!unmap_areas(ph, d)
  OBVIOUS
<1>2. Kept(m, D, mmaps, K) /\ Unmapped(m, d) /\ Same(ph, m, D \ {d})
  BY <1>1, UnmapAreasKeeps
<1>3. PICK n : n = Paging!exit_areas(m, d)
  OBVIOUS
<1>4. /\ Kept(n, D, mmaps, K) /\ Unmapped(n, d)
      /\ \A j \in Paging!Dirs : Bare(n, d, j)
      /\ Same(m, n, D \ {d})
  BY <1>2, <1>3, ExitAreasKeeps DEF Bare
<1>5. n = Paging!exit_mmap(ph, d)
  BY <1>1, <1>3 DEF Paging!exit_mmap
<1>6. PICK r : r = Paging!free_page(n, d)
  OBVIOUS
<1>7. Kept(r, D \ {d}, mmaps, K) /\ Same(n, r, D \ {d})
  BY <1>4, <1>6, DirLeaves
<1>8. Same(ph, r, D \ {d})
  BY <1>2, <1>4, <1>7 DEF Same
<1>9. QED
  BY <1>5, <1>6, <1>7, <1>8

\* Nothing is mapped in d.
Void(ph, d) == \A b \in Paging!Pages : Holds(ph, d, b) = {}

\* The directory in n is a new mm, whatever its areas.
GivesMm(n, D, A, K) ==
    \A B : (\A e \in D : B[e] = A[e]) /\ B[n.got] \in Seq(Paging!Area) =>
              Kept(n, D \cup {n.got}, B, K)

\* setup_pgdir makes a directory without tables.
LEMMA SetupKeeps ==
  ASSUME NEW ph, NEW D, NEW A, NEW K, Kept(ph, D, A, K),
         NEW n, n = Paging!setup_pgdir(ph), n.ok
  PROVE  /\ n.got \in Paging!Frames /\ n.got \notin D
         /\ GivesMm(n, D, A, K)
         /\ Same(ph, n, D) /\ Void(n, n.got)
<1>1. PICK new : new = Paging!alloc_page(ph, None)
  OBVIOUS
<1>2. n = IF new.ok THEN [new EXCEPT !.dir[new.got] = Paging!NoDir] ELSE new
  BY <1>1 DEF Paging!setup_pgdir
<1>3. new.ok
  BY <1>2
<1>4. Allocated(ph, new)
  BY <1>1, <1>3, AllocIs DEF Kept
<1>5. PICK t : t = new.got
  OBVIOUS
<1>6. /\ t \in Paging!Frames /\ t \notin K /\ t # 0
      /\ Kept(new, D, A, K \cup {t}) /\ new.ref[t] = 0 /\ Same(ph, new, D)
  BY <1>4, <1>5, AllocKeeps, PagingConstants
<1> DEFINE k == <<t, "dir", 0>>
           u == Uses(new, D)
           E == D \cup {t}
<1>7. /\ new \in Phys /\ D \in SUBSET Paging!Frames /\ new.ok
      /\ Owned(u, new.free, K \cup {t}) /\ Counted(u, new.free, new.ref)
      /\ new.ref \in [Paging!Frames -> Nat]
  BY <1>6, PhysFields DEF Kept
<1>8. t \notin D
  BY <1>7, TablesApart
<1>9. /\ n.free = new.free /\ n.ref = new.ref /\ n.table = new.table /\ n.ok
      /\ n.got = t /\ n \in Phys /\ n.content = new.content
      /\ \A e \in Paging!Frames, j \in Paging!Dirs :
            n.dir[e][j] = IF e = t THEN 0 ELSE new.dir[e][j]
  <2>1. /\ new = [free |-> new.free, ref |-> new.ref, content |-> new.content,
                  dir |-> new.dir, table |-> new.table, got |-> new.got, ok |-> new.ok]
        /\ new.free \in SUBSET Paging!Frames
        /\ new.content \in [Paging!Frames -> Contents \cup {None}]
        /\ new.dir \in [Paging!Frames -> [Paging!Dirs -> Paging!Frames \cup {0}]]
        /\ new.table \in [Paging!Frames ->
                            [0 .. NPTEENTRY - 1 -> Paging!Entry \cup {None}]]
        /\ new.got \in Paging!Frames \cup {0} /\ new.ok \in BOOLEAN
    BY <1>7, PhysFields
  <2>2. PICK dir : dir = [new.dir EXCEPT ![t] = Paging!NoDir]
    OBVIOUS
  <2>3. Paging!NoDir \in [Paging!Dirs -> Paging!Frames \cup {0}]
        /\ \A j \in Paging!Dirs : Paging!NoDir[j] = 0
    BY DEF Paging!NoDir
  <2>4. /\ dir \in [Paging!Frames -> [Paging!Dirs -> Paging!Frames \cup {0}]]
        /\ \A e \in Paging!Frames, j \in Paging!Dirs :
              dir[e][j] = IF e = t THEN 0 ELSE new.dir[e][j]
    BY <1>6, <2>1, <2>2, <2>3
  <2>5. n = [new EXCEPT !.dir = dir]
    BY <1>2, <1>3, <1>5, <2>2
  <2>6. n = [free |-> new.free, ref |-> new.ref, content |-> new.content,
             dir |-> dir, table |-> new.table, got |-> new.got, ok |-> new.ok]
    BY <2>1, <2>5
  <2>7. QED
    BY <1>5, <1>7, <2>1, <2>4, <2>6 DEF Phys
<1>10. \A e \in D, b \in Paging!Pages : Paging!Pte(n, e, b) = Paging!Pte(new, e, b)
  <2> SUFFICES ASSUME NEW e \in D, NEW b \in Paging!Pages
               PROVE  Paging!Pte(n, e, b) = Paging!Pte(new, e, b)
    OBVIOUS
  <2>1. e \in Paging!Frames /\ e # t /\ Paging!PDX(b) \in Paging!Dirs
    BY <1>7, <1>8, EntryOf
  <2>2. Paging!TableOf(n, e, b) = Paging!TableOf(new, e, b)
    BY <1>9, <2>1 DEF Paging!TableOf
  <2>3. QED
    BY <1>9, <2>2 DEF Paging!Pte
<1>11. \A b \in Paging!Pages : Paging!Pte(n, t, b) = None
  <2> SUFFICES ASSUME NEW b \in Paging!Pages
               PROVE  Paging!Pte(n, t, b) = None
    OBVIOUS
  <2>1. Paging!PDX(b) \in Paging!Dirs
    BY EntryOf
  <2>2. Paging!TableOf(n, t, b) = 0
    BY <1>6, <1>9, <2>1 DEF Paging!TableOf
  <2>3. QED
    BY <2>2 DEF Paging!Pte
<1>12. k \in Keys /\ u[k] = 0 /\ Uses(n, E)[k] = t
  BY <1>6, <1>8, UsesAt
<1>13. Uses(n, E) = [u EXCEPT ![k] = t]
  <2>1. \A e \in Paging!Frames : <<e, "dir", 0>> # k =>
           Uses(n, E)[<<e, "dir", 0>>] = Uses(new, D)[<<e, "dir", 0>>]
    BY UsesAt
  <2>2. ASSUME NEW e \in Paging!Frames, NEW j \in Paging!Dirs, <<e, "table", j>> # k
        PROVE  Uses(n, E)[<<e, "table", j>>] = Uses(new, D)[<<e, "table", j>>]
    <3>1. n.dir[e][j] = IF e = t THEN 0 ELSE new.dir[e][j]
      BY <1>9
    <3>2. QED
      BY <1>8, <3>1, UsesAt
  <2>3. ASSUME NEW e \in Paging!Frames, NEW a \in Paging!Pages, <<e, "page", a>> # k
        PROVE  Uses(n, E)[<<e, "page", a>>] = Uses(new, D)[<<e, "page", a>>]
    <3>1. (e \in D => FrameAt(n, e, a) = FrameAt(new, e, a))
          /\ (e = t => FrameAt(n, e, a) = 0)
      BY <1>10, <1>11 DEF FrameAt
    <3>2. QED
      BY <1>8, <3>1, UsesAt
  <2>4. UsesBut(new, n, D, E, k)
    BY <2>1, <2>2, <2>3 DEF UsesBut
  <2>5. QED
    BY <1>12, <2>4, UsesExcept
<1>14. Owned(Uses(n, E), n.free, K) /\ Counted(Uses(n, E), n.free, n.ref)
  <2>1. 0 = (IF k[2] = "dir" THEN 0 ELSE 1) /\ [new.ref EXCEPT ![t] = 0] = new.ref
        /\ (K \cup {t}) \ {t} = K /\ t \in K \cup {t}
    BY <1>6, <1>7
  <2> HIDE DEF u, k, E
  <2>2. Owned([u EXCEPT ![k] = t], new.free, (K \cup {t}) \ {t})
    BY <1>6, <1>7, <1>12, <2>1, UsePut
  <2>3. Counted([u EXCEPT ![k] = t], new.free, [new.ref EXCEPT ![t] = 0])
    BY <1>6, <1>7, <1>12, <2>1, CountPut
  <2>4. QED
    BY <1>9, <1>13, <2>1, <2>2, <2>3
<1>15. ASSUME NEW B, \A e \in D : B[e] = A[e], B[t] \in Seq(Paging!Area), NEW e \in E
       PROVE  B[e] \in Seq(Paging!Area) /\ Follows(n, e, B[e])
  <2>1. CASE e = t
    <3>1. \A j \in Paging!Dirs : n.dir[t][j] = 0
      BY <1>6, <1>9
    <3>2. QED
      BY <1>11, <1>15, <2>1, <3>1 DEF Follows
  <2>2. CASE e \in D
    <3>1. A[e] \in Seq(Paging!Area) /\ Follows(new, e, A[e]) /\ e # t /\ e \in Paging!Frames
      BY <1>6, <1>7, <1>8, <2>2 DEF Kept
    <3>2. \A j \in Paging!Dirs : n.dir[e][j] \in {new.dir[e][j], 0}
      BY <1>9, <3>1
    <3>3. Follows(n, e, A[e])
      BY <1>10, <2>2, <3>1, <3>2, FollowsSame
    <3>4. QED
      BY <1>15, <2>2, <3>1, <3>3
  <2>3. QED
    BY <2>1, <2>2
<1>16. Same(ph, n, D) /\ Void(n, t)
  <2>1. \A e \in D, b \in Paging!Pages : Holds(n, e, b) = Holds(new, e, b)
    BY <1>9, <1>10 DEF Holds
  <2>2. \A b \in Paging!Pages : Holds(n, t, b) = {}
    BY <1>11 DEF Holds
  <2>3. QED
    BY <1>6, <2>1, <2>2 DEF Same, Void
<1>17. GivesMm(n, D, A, K)
  BY <1>6, <1>7, <1>8, <1>9, <1>14, <1>15 DEF Kept, GivesMm
<1>18. QED
  BY <1>6, <1>8, <1>9, <1>16, <1>17

-----------------------------------------------------------------------------
(* The loops that fill a new mm.  Where memory runs out they carry nothing *)
(* on.                                                                     *)

\* A copy on the way: the pages of others are as they were in ph, those of the
\* mm that is filled are empty or hold what the mm they are copied from holds.
Copying(ph, to, from, D, A, K) ==
    {s \in Building(D, A, K) :
        s.ok => /\ ph.ok /\ Same(ph, s, D \ {to})
                /\ \A b \in Paging!Pages :
                      Holds(s, to, b) \in {{}, Holds(ph, from, b)}}

Done(ph, s, to, from, a) == s.ok => Holds(s, to, a) = Holds(ph, from, a)

DoneArea(ph, s, to, from, vma) ==
    \A a \in Paging!Pages : vma.vm_start <= a /\ a < vma.vm_end =>
        Done(ph, s, to, from, a)

\* One page more.
LEMMA CopyMore ==
  ASSUME NEW D, NEW A, NEW K, NEW first, NEW to \in D, NEW from \in D, to # from,
         D \in SUBSET Paging!Frames, A[to] = A[from],
         NEW m \in Copying(first, to, from, D, A, K), NEW a \in Paging!Pages,
         NEW r, r = Paging!CopyPage(m, to, from, a)
  PROVE  /\ r \in Copying(first, to, from, D, A, K)
         /\ Done(first, r, to, from, a)
         /\ \A b \in Paging!Pages :
               Done(first, m, to, from, b) => Done(first, r, to, from, b)
<1>1. m \in Phys /\ (m.ok => Kept(m, D, A, K))
  BY DEF Copying, Building
<1>2. /\ r \in Phys
      /\ r.ok => m.ok /\ Kept(r, D, A, K) /\ CopiedPage(m, r, D, to, from, a)
  BY <1>1, CopyPageKeeps
<1>3. CASE ~r.ok
  BY <1>2, <1>3 DEF Copying, Building, Done
<1>4. CASE r.ok
  <2>1. /\ first.ok /\ Same(first, m, D \ {to}) /\ m.ok
        /\ \A b \in Paging!Pages : Holds(m, to, b) \in {{}, Holds(first, from, b)}
    BY <1>2, <1>4 DEF Copying
  <2>2. CopiedPage(m, r, D, to, from, a)
    BY <1>2, <1>4
  <2>3. \A b \in Paging!Pages : Holds(m, from, b) = Holds(first, from, b)
    BY <2>1 DEF Same
  <2>4. CASE Holds(m, from, a) = {}
    <3>1. Same(m, r, D)
      BY <2>2, <2>4 DEF CopiedPage
    <3>2. \A b \in Paging!Pages : Holds(r, to, b) = Holds(m, to, b)
      BY <3>1 DEF Same
    <3>3. Same(first, r, D \ {to})
      BY <2>1, <3>1 DEF Same
    <3>4. Holds(m, to, a) = {} /\ Holds(first, from, a) = {}
      BY <2>1, <2>3, <2>4
    <3>5. r \in Copying(first, to, from, D, A, K)
      BY <1>2, <1>4, <2>1, <3>2, <3>3 DEF Copying, Building
    <3>6. QED
      BY <2>1, <3>2, <3>4, <3>5 DEF Done
  <2>5. CASE Holds(m, from, a) # {}
    <3>1. SameBut(m, r, D, to, a, Holds(first, from, a))
      BY <2>2, <2>3, <2>5 DEF CopiedPage
    <3>2. \A b \in Paging!Pages :
             Holds(r, to, b) = IF b = a THEN Holds(first, from, a) ELSE Holds(m, to, b)
      BY <3>1 DEF SameBut
    <3>3. Same(first, r, D \ {to})
      BY <2>1, <3>1 DEF Same, SameBut
    <3>4. r \in Copying(first, to, from, D, A, K)
      BY <1>2, <1>4, <2>1, <3>2, <3>3 DEF Copying, Building
    <3>5. QED
      BY <2>1, <3>2, <3>4 DEF Done
  <2>6. QED
    BY <2>4, <2>5
<1>5. QED
  BY <1>3, <1>4

\* Copying that keeps what is done in ph.
Onward(first, ph, to, from, D, A, K) ==
    {m \in Copying(first, to, from, D, A, K) :
        \A b \in Paging!Pages :
            Done(first, ph, to, from, b) => Done(first, m, to, from, b)}

LEMMA CopyRangeKeeps ==
  ASSUME NEW D, NEW A, NEW K, NEW first, NEW to \in D, NEW from \in D, to # from,
         D \in SUBSET Paging!Frames, A[to] = A[from],
         NEW ph \in Copying(first, to, from, D, A, K), NEW vma \in Paging!Area,
         NEW r, r = Paging!copy_range(ph, to, from, vma)
  PROVE  /\ r \in Copying(first, to, from, D, A, K)
         /\ DoneArea(first, r, to, from, vma)
         /\ \A b \in Paging!Area :
               DoneArea(first, ph, to, from, b) => DoneArea(first, r, to, from, b)
<1> DEFINE L == Paging!PagesOf(vma)
           N == Len(L)
           X == Onward(first, ph, to, from, D, A, K)
<1>1. L \in Seq(Paging!Pages) /\ N \in Nat /\ \A i \in 1 .. N : L[i] \in Paging!Pages
  BY PagesOfArea
<1>2. ph \in X
  BY DEF Onward
<1>3. ASSUME NEW m \in X, NEW a \in Paging!Pages
      PROVE  /\ Paging!CopyPage(m, to, from, a) \in X
             /\ Done(first, Paging!CopyPage(m, to, from, a), to, from, a)
             /\ \A b \in Paging!Pages : Done(first, m, to, from, b) =>
                   Done(first, Paging!CopyPage(m, to, from, a), to, from, b)
  <2>1. PICK n : n = Paging!CopyPage(m, to, from, a)
    OBVIOUS
  <2>2. m \in Copying(first, to, from, D, A, K)
    BY DEF Onward
  <2>3. /\ n \in Copying(first, to, from, D, A, K) /\ Done(first, n, to, from, a)
        /\ \A b \in Paging!Pages :
              Done(first, m, to, from, b) => Done(first, n, to, from, b)
    BY <2>1, <2>2, CopyMore
  <2>4. QED
    BY <2>1, <2>3 DEF Onward
<1> HIDE DEF X
<1>4. PICK g : CopySteps(g, X, ph, to, from, vma)
  <2>1. CopiesWithin(X, to, from)
    BY <1>3 DEF CopiesWithin
  <2>2. QED
    BY <1>1, <1>2, <2>1, CopyRangeRun
<1>a. /\ g \in [0 .. N -> X] /\ g[0] = ph /\ g[N] = r
      /\ \A i \in 1 .. N : g[i] = Paging!CopyPage(g[i - 1], to, from, L[i])
  BY <1>4 DEF CopySteps
<1> DEFINE S == {n \in 0 .. N : \A i \in 1 .. n : Done(first, g[n], to, from, L[i])}
<1> HIDE DEF L, N
<1>5. 0 \in S
  BY <1>1
<1>6. ASSUME NEW n \in 0 .. N, n < N, n \in S
      PROVE  n + 1 \in S
  <2>1. /\ n + 1 \in 1 .. N /\ (n + 1) - 1 = n /\ g[n] \in X /\ L[n + 1] \in Paging!Pages
        /\ \A i \in 1 .. n + 1 : (i \in 1 .. n \/ i = n + 1) /\ L[i] \in Paging!Pages
    <3> HIDE DEF S
    <3>1. N \in Nat /\ n \in 0 .. N /\ n < N
      BY <1>1, <1>6
    <3>2. n + 1 \in 1 .. N /\ (n + 1) - 1 = n
      BY <3>1
    <3>3. g[n] \in X /\ L[n + 1] \in Paging!Pages
      BY <1>1, <1>a, <3>1, <3>2
    <3>4. \A i \in 1 .. n + 1 : (i \in 1 .. n \/ i = n + 1) /\ i \in 1 .. N
      BY <3>1
    <3>5. QED
      BY <1>1, <3>2, <3>3, <3>4
  <2>2. g[n + 1] = Paging!CopyPage(g[n], to, from, L[n + 1])
    BY <1>a, <2>1
  <2>3. \A i \in 1 .. n : Done(first, g[n], to, from, L[i])
    BY <1>6
  <2>4. PICK q : q = g[n]
    OBVIOUS
  <2>5. /\ Done(first, Paging!CopyPage(q, to, from, L[n + 1]), to, from, L[n + 1])
        /\ \A b \in Paging!Pages : Done(first, q, to, from, b) =>
              Done(first, Paging!CopyPage(q, to, from, L[n + 1]), to, from, b)
    BY <1>3, <2>1, <2>4
  <2>6. ASSUME NEW i \in 1 .. n + 1
        PROVE  Done(first, g[n + 1], to, from, L[i])
    BY <2>1, <2>2, <2>3, <2>4, <2>5
  <2>7. QED
    BY <2>1, <2>6
<1>7. N \in S
  <2>1. 0 .. N \subseteq S
    <3> HIDE DEF S
    <3>1. QED
      BY <1>1, <1>5, <1>6, IntervalInduction
  <2>2. QED
    BY <1>1, <2>1
<1>8. \A i \in 1 .. N : Done(first, r, to, from, L[i])
  BY <1>a, <1>7
<1>9. r \in Onward(first, ph, to, from, D, A, K)
  BY <1>1, <1>a DEF X
<1>10. QED
  BY <1>8, <1>9, PagesOfArea DEF L, N, Onward, DoneArea

LEMMA ReverseElements ==
  ASSUME NEW S, NEW s \in Seq(S)
  PROVE  /\ Reverse(s) \in Seq(S)
         /\ \A i \in 1 .. Len(s) : \E j \in 1 .. Len(Reverse(s)) : Reverse(s)[j] = s[i]
<1>1. Reverse(s) \in Seq(S) /\ Len(Reverse(s)) = Len(s) /\ Len(s) \in Nat
  BY DEF Reverse
<1>2. ASSUME NEW i \in 1 .. Len(s)
      PROVE  \E j \in 1 .. Len(Reverse(s)) : Reverse(s)[j] = s[i]
  <2>1. (Len(s) - i) + 1 \in 1 .. Len(s) /\ (Len(s) - ((Len(s) - i) + 1)) + 1 = i
    BY <1>1
  <2>2. Reverse(s)[(Len(s) - i) + 1] = s[i]
    BY <2>1 DEF Reverse
  <2>3. QED
    BY <1>1, <2>1, <2>2
<1>3. QED
  BY <1>1, <1>2

\* What is in from, is in to.
CopyOf(ph, from, r, to) ==
    \A b \in Paging!Pages : Holds(r, to, b) = Holds(ph, from, b)

\* dup_mmap copies every page there is: what is mapped lies in an area.
LEMMA DupMmapKeeps ==
  ASSUME NEW D, NEW A, NEW K, NEW ph \in Building(D, A, K),
         D \in SUBSET Paging!Frames,
         NEW to \in D, NEW from \in D, to # from, A[to] = A[from], A[from] = mmaps[from],
         mmaps[from] \in Seq(Paging!Area),
         Void(ph, to), NEW r, r = Paging!dup_mmap(ph, to, from)
  PROVE  /\ r \in Building(D, A, K)
         /\ r.ok => Same(ph, r, D \ {to}) /\ CopyOf(ph, from, r, to)
<1> DEFINE L == Reverse(mmaps[from])
           X == Copying(ph, to, from, D, A, K)
           N == Len(L)
<1>1. L \in Seq(Paging!Area) /\ N \in Nat /\ \A i \in 1 .. N : L[i] \in Paging!Area
  BY ReverseElements
<1>2. ph \in X
  BY DEF Copying, Same, Void
<1>3. ASSUME NEW m \in X, NEW vma \in Paging!Area
      PROVE  /\ Paging!copy_range(m, to, from, vma) \in X
             /\ DoneArea(ph, Paging!copy_range(m, to, from, vma), to, from, vma)
             /\ \A b \in Paging!Area : DoneArea(ph, m, to, from, b) =>
                   DoneArea(ph, Paging!copy_range(m, to, from, vma), to, from, b)
  <2>1. PICK n : n = Paging!copy_range(m, to, from, vma)
    OBVIOUS
  <2>2. /\ n \in X /\ DoneArea(ph, n, to, from, vma)
        /\ \A b \in Paging!Area :
              DoneArea(ph, m, to, from, b) => DoneArea(ph, n, to, from, b)
    BY <2>1, CopyRangeKeeps
  <2>3. QED
    BY <2>1, <2>2
<1> HIDE DEF X
<1>4. PICK g : DupSteps(g, X, ph, to, from)
  <2>1. DupsWithin(X, to, from)
    BY <1>3 DEF DupsWithin
  <2>2. QED
    BY <1>1, <1>2, <2>1, DupMmapRun
<1>a. /\ g \in [0 .. N -> X] /\ g[0] = ph /\ g[N] = r
      /\ \A i \in 1 .. N : g[i] = Paging!copy_range(g[i - 1], to, from, L[i])
  BY <1>4 DEF DupSteps
<1> DEFINE S == {n \in 0 .. N : \A i \in 1 .. n : DoneArea(ph, g[n], to, from, L[i])}
<1> HIDE DEF L, N
<1>5. 0 \in S
  BY <1>1
<1>6. ASSUME NEW n \in 0 .. N, n < N, n \in S
      PROVE  n + 1 \in S
  <2>1. /\ n + 1 \in 1 .. N /\ (n + 1) - 1 = n /\ g[n] \in X /\ L[n + 1] \in Paging!Area
        /\ \A i \in 1 .. n + 1 : (i \in 1 .. n \/ i = n + 1) /\ L[i] \in Paging!Area
    <3> HIDE DEF S
    <3>1. N \in Nat /\ n \in 0 .. N /\ n < N
      BY <1>1, <1>6
    <3>2. n + 1 \in 1 .. N /\ (n + 1) - 1 = n
      BY <3>1
    <3>3. g[n] \in X /\ L[n + 1] \in Paging!Area
      BY <1>1, <1>a, <3>1, <3>2
    <3>4. \A i \in 1 .. n + 1 : (i \in 1 .. n \/ i = n + 1) /\ i \in 1 .. N
      BY <3>1
    <3>5. QED
      BY <1>1, <3>2, <3>3, <3>4
  <2>2. g[n + 1] = Paging!copy_range(g[n], to, from, L[n + 1])
    BY <1>a, <2>1
  <2>3. \A i \in 1 .. n : DoneArea(ph, g[n], to, from, L[i])
    BY <1>6
  <2>4. PICK q : q = g[n]
    OBVIOUS
  <2>5. /\ DoneArea(ph, Paging!copy_range(q, to, from, L[n + 1]), to, from, L[n + 1])
        /\ \A b \in Paging!Area : DoneArea(ph, q, to, from, b) =>
              DoneArea(ph, Paging!copy_range(q, to, from, L[n + 1]), to, from, b)
    BY <1>3, <2>1, <2>4
  <2>6. ASSUME NEW i \in 1 .. n + 1
        PROVE  DoneArea(ph, g[n + 1], to, from, L[i])
    BY <2>1, <2>2, <2>3, <2>4, <2>5
  <2>7. QED
    BY <2>1, <2>6
<1>7. N \in S
  <2>1. 0 .. N \subseteq S
    <3> HIDE DEF S
    <3>1. QED
      BY <1>1, <1>5, <1>6, IntervalInduction
  <2>2. QED
    BY <1>1, <2>1
<1>8. \A i \in 1 .. N : DoneArea(ph, r, to, from, L[i])
  BY <1>a, <1>7
<1>9. r \in Copying(ph, to, from, D, A, K)
  BY <1>1, <1>a DEF X
<1>10. ASSUME r.ok, NEW b \in Paging!Pages
       PROVE  Holds(r, to, b) = Holds(ph, from, b)
  <2>1. /\ Kept(ph, D, A, K) /\ Follows(ph, from, mmaps[from])
        /\ Holds(r, to, b) \in {{}, Holds(ph, from, b)}
    BY <1>9, <1>10 DEF Copying, Building, Kept
  <2>2. CASE Paging!Pte(ph, from, b) = None
    BY <2>1, <2>2 DEF Holds
  <2>3. CASE Paging!Pte(ph, from, b) # None
    <3>1. PICK vma \in Paging!ToSet(mmaps[from]) : vma.vm_start <= b /\ b < vma.vm_end
      BY <2>1, <2>3 DEF Follows, Paging!AreaAt
    <3>2. PICK i \in 1 .. Len(mmaps[from]) : mmaps[from][i] = vma
      BY <3>1, ListElements
    <3>3. PICK k \in 1 .. N : L[k] = vma
      BY <3>2, ReverseElements DEF L, N
    <3>4. QED
      BY <1>8, <1>10, <3>1, <3>3 DEF DoneArea, Done
  <2>4. QED
    BY <2>2, <2>3
<1>11. QED
  BY <1>9, <1>10 DEF Copying, CopyOf

\* What the assumption says of a program.
LEMMA ProgramIs ==
  ASSUME NEW prog \in Programs
  PROVE  /\ prog.areas \in Seq(Paging!Area)
         /\ prog.loaded \in Seq(Paging!Pages) /\ prog.loaded \in Seq(ToSet(prog.loaded))
         /\ \A a \in ToSet(prog.loaded) :
               a \in Paging!Pages /\ Paging!AreaAt(prog.areas, a) # {}
<1>1. /\ prog.areas \in Seq(Paging!Area) /\ prog.loaded \in Seq(Paging!Pages)
      /\ \A a \in Paging!ToSet(prog.loaded) : \E vma \in Paging!ToSet(prog.areas) :
            vma.vm_start <= a /\ a < vma.vm_end
  <2>1. Paging!PagingAssumption
    BY PagingAndHeapAssumption
  <2>2. QED
    BY <2>1, Zenon DEF Paging!PagingAssumption
<1>2. Paging!ToSet(prog.loaded) = ToSet(prog.loaded)
  BY <1>1, ListElements
<1>3. prog.loaded \in Seq(ToSet(prog.loaded))
  BY <1>1 DEF ToSet
<1>4. \A a \in ToSet(prog.loaded) : a \in Paging!Pages
  BY <1>1 DEF ToSet
<1>5. QED
  BY <1>1, <1>2, <1>3, <1>4 DEF Paging!AreaAt

\* A program on the way: the pages of others are as they were in ph, those that
\* are filled hold something.
Loading(ph, d, D, A, K) ==
    {s \in Building(D, A, K) :
        s.ok => /\ Same(ph, s, D \ {d})
                /\ \A b \in Paging!Pages : Holds(s, d, b) \subseteq Contents}

LEMMA LoadPagesKeeps ==
  ASSUME NEW D, NEW A, NEW K, NEW ph \in Building(D, A, K),
         NEW d \in D, NEW prog \in Programs, A[d] = prog.areas, NEW v \in Contents,
         Void(ph, d)
  PROVE  Paging!LoadPages(ph, d, prog, v) \in Loading(ph, d, D, A, K)
<1> DEFINE X == Loading(ph, d, D, A, K)
           N == Len(prog.loaded)
<1>1. ASSUME NEW m \in X, NEW a \in ToSet(prog.loaded)
      PROVE  Paging!pgdir_alloc_page(m, d, a, Paging!Writable(prog.areas, a), v) \in X
  <2>1. PICK r : r = Paging!pgdir_alloc_page(m, d, a, Paging!Writable(prog.areas, a), v)
    OBVIOUS
  <2>2. m \in Phys /\ (m.ok => Kept(m, D, A, K))
    BY DEF Loading, Building
  <2>3. a \in Paging!Pages /\ Paging!AreaAt(A[d], a) # {}
    BY ProgramIs
  <2>9. /\ r \in Phys
        /\ r.ok => m.ok /\ Kept(r, D, A, K) /\ SameBut(m, r, D, d, a, {v})
    <3> HIDE DEF X
    <3>1. PICK write : write = Paging!Writable(prog.areas, a)
      OBVIOUS
    <3>2. Permits(A[d], a, write)
      BY <2>3, <3>1 DEF Permits, Paging!Writable
    <3>3. r = Paging!pgdir_alloc_page(m, d, a, write, v)
      BY <2>1, <3>1
    <3>4. m \in Building(D, A, K) /\ a \in Paging!Pages
      BY <2>3 DEF X, Loading
    <3>5. QED
      BY <3>2, <3>3, <3>4, AllocPageKeeps
  <2>10. ASSUME r.ok
         PROVE  /\ Same(ph, r, D \ {d})
                /\ \A b \in Paging!Pages : Holds(r, d, b) \subseteq Contents
    <3>1. /\ Same(ph, m, D \ {d}) /\ SameBut(m, r, D, d, a, {v})
          /\ \A b \in Paging!Pages : Holds(m, d, b) \subseteq Contents
      BY <2>9, <2>10 DEF Loading
    <3>2. QED
      BY <3>1 DEF Same, SameBut
  <2>11. QED
    BY <2>1, <2>9, <2>10 DEF Loading, Building
<1>2. ph \in X
  BY DEF Loading, Same, Void
<1> HIDE DEF X
<1>3. LoadsWithin(X, d, prog, v)
  BY <1>1 DEF LoadsWithin
<1>4. prog.loaded \in Seq(ToSet(prog.loaded))
  BY ProgramIs
<1>5. PICK g : LoadSteps(g, X, ph, d, prog, v)
  BY <1>2, <1>3, <1>4, LoadPagesRun
<1>6. g \in [0 .. N -> X] /\ g[N] = Paging!LoadPages(ph, d, prog, v) /\ N \in Nat
  BY <1>4, <1>5 DEF LoadSteps
<1>7. QED
  BY <1>6 DEF X

\* Without memory nothing is done.
Failed == {s \in Phys : ~s.ok}

LEMMA FailedStays ==
  ASSUME NEW m \in Failed, NEW v
  PROVE  /\ Paging!alloc_page(m, v) \in Failed
         /\ \A to, from, a : Paging!CopyPage(m, to, from, a) \in Failed
         /\ \A d, a, write : Paging!pgdir_alloc_page(m, d, a, write, v) \in Failed
<1>1. [m EXCEPT !.ok = FALSE] \in Failed
  BY DEF Phys, Failed
<1>2. \A w : Paging!alloc_page(m, w) = [m EXCEPT !.ok = FALSE]
  BY DEF Failed, Paging!alloc_page
<1>3. \A w : Paging!alloc_page(m, w) \in Failed /\ ~Paging!alloc_page(m, w).ok
  BY <1>1, <1>2 DEF Failed
<1>4. \A d, a : Paging!get_pte(m, d, a) = m
  BY DEF Failed, Paging!get_pte
<1>5. ASSUME NEW to, NEW from, NEW a
      PROVE  Paging!CopyPage(m, to, from, a) \in Failed
  <2>1. PICK w : w = Paging!alloc_page(m, m.content[Paging!Pte(m, from, a).frame])
    OBVIOUS
  <2>2. w \in Failed /\ ~w.ok
    BY <1>3, <2>1
  <2>3. Paging!CopyPage(m, to, from, a) = IF Paging!Pte(m, from, a) = None THEN m ELSE w
    BY <1>4, <2>1, <2>2 DEF Paging!CopyPage
  <2>4. QED
    BY <2>2, <2>3
<1>6. ASSUME NEW d, NEW a, NEW write
      PROVE  Paging!pgdir_alloc_page(m, d, a, write, v) \in Failed
  BY <1>3 DEF Paging!pgdir_alloc_page
<1>7. QED
  BY <1>3, <1>5, <1>6

LEMMA DupMmapFails ==
  ASSUME NEW ph \in Failed, NEW to, NEW from, mmaps[from] \in Seq(Paging!Area)
  PROVE  Paging!dup_mmap(ph, to, from) \in Failed
<1>1. ASSUME NEW m \in Failed, NEW vma \in Paging!Area
      PROVE  Paging!copy_range(m, to, from, vma) \in Failed
  <2> DEFINE N == Len(Paging!PagesOf(vma))
  <2>1. CopiesWithin(Failed, to, from)
    BY FailedStays DEF CopiesWithin
  <2>2. Paging!PagesOf(vma) \in Seq(Paging!Pages)
    BY PagesOfArea
  <2>3. PICK g : CopySteps(g, Failed, m, to, from, vma)
    BY <2>1, <2>2, CopyRangeRun
  <2>4. g \in [0 .. N -> Failed] /\ g[N] = Paging!copy_range(m, to, from, vma) /\ N \in Nat
    BY <2>2, <2>3 DEF CopySteps
  <2>5. QED
    BY <2>4
<1> DEFINE N == Len(Reverse(mmaps[from]))
<1>2. DupsWithin(Failed, to, from)
  BY <1>1 DEF DupsWithin
<1>3. Reverse(mmaps[from]) \in Seq(Paging!Area)
  BY ReverseElements
<1>4. PICK g : DupSteps(g, Failed, ph, to, from)
  BY <1>2, <1>3, DupMmapRun
<1>5. g \in [0 .. N -> Failed] /\ g[N] = Paging!dup_mmap(ph, to, from) /\ N \in Nat
  BY <1>3, <1>4 DEF DupSteps
<1>6. QED
  BY <1>5

LEMMA LoadPagesFails ==
  ASSUME NEW ph \in Failed, NEW d, NEW prog \in Programs, NEW v
  PROVE  Paging!LoadPages(ph, d, prog, v) \in Failed
<1> DEFINE N == Len(prog.loaded)
<1>1. LoadsWithin(Failed, d, prog, v)
  BY FailedStays DEF LoadsWithin
<1>2. prog.loaded \in Seq(ToSet(prog.loaded))
  BY ProgramIs
<1>3. PICK g : LoadSteps(g, Failed, ph, d, prog, v)
  BY <1>1, <1>2, LoadPagesRun
<1>4. g \in [0 .. N -> Failed] /\ g[N] = Paging!LoadPages(ph, d, prog, v) /\ N \in Nat
  BY <1>2, <1>3 DEF LoadSteps
<1>5. QED
  BY <1>4

-----------------------------------------------------------------------------
(* Who shares an mm.                                                       *)

\* Processes are counted.
LEMMA SharesFinite ==
  ASSUME NEW m, NEW d
  PROVE  IsFiniteSet(Shares(m, d)) /\ Cardinality(Shares(m, d)) \in Nat
<1>1. Shares(m, d) \subseteq Tasks /\ IsFiniteSet(Tasks)
  BY PagingConstants DEF Shares
<1>2. IsFiniteSet(Shares(m, d))
  BY <1>1, FS_Subset
<1>3. QED
  BY <1>2, FS_CardinalityType

\* A process lets go of its mm.
Left(m, c, p, n, e) ==
    /\ n = [m EXCEPT ![p] = 0]
    /\ e = IF m[p] = 0 THEN c ELSE [c EXCEPT ![m[p]] = @ - 1]

LeftWell(m, c, p, n, e) ==
    /\ CountedIn(n, e) /\ n[p] = 0
    /\ m[p] # 0 /\ c[m[p]] = 1 => LiveOf(n) = LiveOf(m) \ {m[p]}
    /\ ~(m[p] # 0 /\ c[m[p]] = 1) => LiveOf(n) = LiveOf(m)

LEMMA SharerLeaves ==
  ASSUME NEW m, NEW c, CountedIn(m, c), NEW p \in Tasks, NEW n, NEW e,
         Left(m, c, p, n, e)
  PROVE  LeftWell(m, c, p, n, e)
<1>0. /\ n = [m EXCEPT ![p] = 0]
      /\ e = IF m[p] = 0 THEN c ELSE [c EXCEPT ![m[p]] = @ - 1]
  BY DEF Left
<1>1. /\ m \in [Tasks -> Paging!Frames \cup {0}] /\ c \in [Paging!Frames -> Int]
      /\ n \in [Tasks -> Paging!Frames \cup {0}] /\ e \in [Paging!Frames -> Int]
      /\ \A q \in Tasks : n[q] = IF q = p THEN 0 ELSE m[q]
  BY <1>0 DEF CountedIn
<1>2. ASSUME NEW q \in Tasks, n[q] # 0
      PROVE  e[n[q]] = Cardinality(Shares(n, n[q]))
  <2>1. q # p /\ n[q] = m[q] /\ m[q] \in Paging!Frames
        /\ c[m[q]] = Cardinality(Shares(m, m[q]))
    BY <1>1, <1>2 DEF CountedIn
  <2>2. CASE m[q] = m[p]
    <3>1. Shares(n, m[q]) = Shares(m, m[q]) \ {p} /\ p \in Shares(m, m[q])
      BY <1>1, <2>1, <2>2, <1>2 DEF Shares
    <3>2. Cardinality(Shares(m, m[q]) \ {p}) = Cardinality(Shares(m, m[q])) - 1
      BY <3>1, SharesFinite, FS_RemoveElement
    <3>3. e[m[q]] = c[m[q]] - 1
      BY <1>0, <1>1, <1>2, <2>1, <2>2
    <3>4. QED
      BY <2>1, <3>1, <3>2, <3>3
  <2>3. CASE m[q] # m[p]
    <3>1. Shares(n, m[q]) = Shares(m, m[q])
      BY <1>1, <1>2, <2>1, <2>3 DEF Shares
    <3>2. e[m[q]] = c[m[q]]
      BY <1>0, <1>1, <2>1, <2>3
    <3>3. QED
      BY <2>1, <3>1, <3>2
  <2>4. QED
    BY <2>2, <2>3
<1>3. CASE m[p] = 0
  <2>1. LiveOf(n) = LiveOf(m)
    BY <1>1, <1>3 DEF LiveOf
  <2>2. QED
    BY <1>0, <1>1, <1>2, <1>3, <2>1 DEF CountedIn, LeftWell
<1>4. CASE m[p] # 0 /\ c[m[p]] = 1
  <2>1. Cardinality(Shares(m, m[p])) = 1
    BY <1>4 DEF CountedIn
  <2>2. PICK x : Shares(m, m[p]) = {x}
    BY <2>1, SharesFinite, FS_Singleton
  <2>3. p \in Shares(m, m[p])
    BY DEF Shares
  <2>4. \A q \in Tasks : m[q] = m[p] => q = p
    BY <2>2, <2>3 DEF Shares
  <2>5. LiveOf(n) = LiveOf(m) \ {m[p]}
    <3>1. \A q \in Tasks : q # p => n[q] = m[q] /\ m[q] # m[p]
      BY <1>1, <2>4
    <3>2. QED
      BY <1>1, <3>1 DEF LiveOf
  <2>6. QED
    BY <1>1, <1>2, <1>4, <2>5 DEF CountedIn, LeftWell
<1>5. CASE m[p] # 0 /\ c[m[p]] # 1
  <2>1. PICK q \in Tasks : q # p /\ m[q] = m[p]
    <3>1. p \in Shares(m, m[p])
      BY DEF Shares
    <3>2. Shares(m, m[p]) # {p}
      <4>1. Cardinality({p}) = 1
        BY FS_Singleton
      <4>2. QED
        BY <1>5, <4>1 DEF CountedIn
    <3>3. QED
      BY <3>1, <3>2 DEF Shares
  <2>2. n[q] = m[p]
    BY <1>1, <2>1
  <2>3. LiveOf(n) = LiveOf(m)
    BY <1>1, <1>5, <2>2 DEF LiveOf
  <2>4. QED
    BY <1>1, <1>2, <1>5, <2>3 DEF CountedIn, LeftWell
<1>6. QED
  BY <1>3, <1>4, <1>5

\* A process without mm gets one that is new.
LEMMA SharerStarts ==
  ASSUME NEW m, NEW c, CountedIn(m, c), NEW p \in Tasks, m[p] = 0,
         NEW d \in Paging!Frames, d \notin LiveOf(m),
         NEW n, n = [m EXCEPT ![p] = d],
         NEW e, e = [c EXCEPT ![d] = 1]
  PROVE  CountedIn(n, e) /\ LiveOf(n) = LiveOf(m) \cup {d}
<1>1. /\ m \in [Tasks -> Paging!Frames \cup {0}] /\ c \in [Paging!Frames -> Int]
      /\ n \in [Tasks -> Paging!Frames \cup {0}] /\ e \in [Paging!Frames -> Int]
      /\ \A q \in Tasks : n[q] = IF q = p THEN d ELSE m[q]
      /\ d # 0
  BY PagingConstants DEF CountedIn
<1>2. \A q \in Tasks : m[q] # d
  BY <1>1 DEF LiveOf
<1>3. ASSUME NEW q \in Tasks, n[q] # 0
      PROVE  e[n[q]] = Cardinality(Shares(n, n[q]))
  <2>1. CASE q = p
    <3>1. Shares(n, d) = {p}
      BY <1>1, <1>2 DEF Shares
    <3>2. Cardinality({p}) = 1
      BY FS_Singleton
    <3>3. QED
      BY <1>1, <2>1, <3>1, <3>2
  <2>2. CASE q # p
    <3>1. n[q] = m[q] /\ m[q] # d /\ m[q] \in Paging!Frames
          /\ c[m[q]] = Cardinality(Shares(m, m[q]))
      BY <1>1, <1>2, <1>3, <2>2 DEF CountedIn
    <3>2. Shares(n, m[q]) = Shares(m, m[q])
      BY <1>1, <1>3, <3>1 DEF Shares
    <3>3. QED
      BY <1>1, <3>1, <3>2
  <2>3. QED
    BY <2>1, <2>2
<1>4. LiveOf(n) = LiveOf(m) \cup {d}
  BY <1>1 DEF LiveOf
<1>5. QED
  BY <1>1, <1>3, <1>4 DEF CountedIn

\* A process without mm joins another's.
Joined(m, c, p, child, n, e) ==
    /\ m[p] # 0 /\ m[child] = 0
    /\ n = [m EXCEPT ![child] = m[p]]
    /\ e = [c EXCEPT ![m[p]] = @ + 1]

LEMMA SharerJoins ==
  ASSUME NEW m, NEW c, CountedIn(m, c), NEW p \in Tasks, NEW child \in Tasks,
         NEW n, NEW e, Joined(m, c, p, child, n, e)
  PROVE  CountedIn(n, e) /\ LiveOf(n) = LiveOf(m)
<1>0. /\ m[p] # 0 /\ m[child] = 0
      /\ n = [m EXCEPT ![child] = m[p]]
      /\ e = [c EXCEPT ![m[p]] = @ + 1]
  BY DEF Joined
<1>1. /\ m \in [Tasks -> Paging!Frames \cup {0}] /\ c \in [Paging!Frames -> Int]
      /\ n \in [Tasks -> Paging!Frames \cup {0}] /\ e \in [Paging!Frames -> Int]
      /\ \A q \in Tasks : n[q] = IF q = child THEN m[p] ELSE m[q]
      /\ m[p] \in Paging!Frames
  BY <1>0 DEF CountedIn
<1>2. ASSUME NEW q \in Tasks, n[q] # 0
      PROVE  e[n[q]] = Cardinality(Shares(n, n[q]))
  <2>1. CASE n[q] = m[p]
    <3>1. Shares(n, m[p]) = Shares(m, m[p]) \cup {child} /\ child \notin Shares(m, m[p])
      BY <1>0, <1>1 DEF Shares
    <3>2. Cardinality(Shares(m, m[p]) \cup {child}) = Cardinality(Shares(m, m[p])) + 1
      BY <3>1, SharesFinite, FS_AddElement
    <3>3. c[m[p]] = Cardinality(Shares(m, m[p]))
      BY <1>0 DEF CountedIn
    <3>4. QED
      BY <1>0, <1>1, <2>1, <3>1, <3>2, <3>3
  <2>2. CASE n[q] # m[p]
    <3>1. q # child /\ n[q] = m[q] /\ m[q] \in Paging!Frames
          /\ c[m[q]] = Cardinality(Shares(m, m[q]))
      BY <1>0, <1>1, <1>2, <2>2 DEF CountedIn
    <3>2. Shares(n, m[q]) = Shares(m, m[q])
      BY <1>0, <1>1, <1>2, <2>2, <3>1 DEF Shares
    <3>3. QED
      BY <1>0, <1>1, <2>2, <3>1, <3>2
  <2>3. QED
    BY <2>1, <2>2
<1>3. LiveOf(n) = LiveOf(m)
  BY <1>0, <1>1 DEF LiveOf
<1>4. QED
  BY <1>0, <1>1, <1>2, <1>3 DEF CountedIn

\* Kept says nothing of the areas of other mms.
LEMMA AreasSame ==
  ASSUME NEW ph, NEW D, NEW A, NEW K, Kept(ph, D, A, K),
         NEW B, \A d \in D : B[d] = A[d]
  PROVE  Kept(ph, D, B, K)
BY DEF Kept

\* Nor of which frame was the last to be got.
LEMMA GotSame ==
  ASSUME NEW ph, NEW D, NEW A, NEW K, Kept(ph, D, A, K),
         NEW r, r = [ph EXCEPT !.got = 0]
  PROVE  Kept(r, D, A, K) /\ Same(ph, r, D)
<1>1. ph \in Phys
  BY DEF Kept
<1>2. r \in Phys /\ r = [free |-> ph.free, ref |-> ph.ref, content |-> ph.content,
                        dir |-> ph.dir, table |-> ph.table, got |-> 0, ok |-> ph.ok]
  <2>1. /\ ph = [free |-> ph.free, ref |-> ph.ref, content |-> ph.content,
                 dir |-> ph.dir, table |-> ph.table, got |-> ph.got, ok |-> ph.ok]
        /\ ph.free \in SUBSET Paging!Frames
        /\ ph.ref \in [Paging!Frames -> Nat]
        /\ ph.content \in [Paging!Frames -> Contents \cup {None}]
        /\ ph.dir \in [Paging!Frames -> [Paging!Dirs -> Paging!Frames \cup {0}]]
        /\ ph.table \in [Paging!Frames ->
                           [0 .. NPTEENTRY - 1 -> Paging!Entry \cup {None}]]
        /\ ph.got \in Paging!Frames \cup {0} /\ ph.ok \in BOOLEAN
    BY <1>1, PhysFields
  <2>2. r = [free |-> ph.free, ref |-> ph.ref, content |-> ph.content,
             dir |-> ph.dir, table |-> ph.table, got |-> 0, ok |-> ph.ok]
    BY <2>1
  <2>3. QED
    BY <2>1, <2>2 DEF Phys
<1>3. /\ Uses(r, D) = Uses(ph, D)
      /\ \A d, list : Follows(ph, d, list) => Follows(r, d, list)
      /\ \A d, a : Paging!Pte(r, d, a) = Paging!Pte(ph, d, a)
  BY <1>2, SameTables
<1>4. Kept(r, D, A, K)
  BY <1>2, <1>3 DEF Kept
<1>5. Same(ph, r, D)
  BY <1>2, <1>3 DEF Same, Holds
<1>6. QED
  BY <1>4, <1>5

\* Nor of what is in the frames: a write to a page is seen there alone.
Written(ph, r, f, v) ==
    /\ r \in Phys /\ r.free = ph.free /\ r.ref = ph.ref /\ r.dir = ph.dir
    /\ r.table = ph.table /\ r.ok = ph.ok /\ OnlyContent(ph, r, f) /\ r.content[f] = v

LEMMA WrittenIs ==
  ASSUME NEW ph \in Phys, NEW f \in Paging!Frames, NEW v \in Contents,
         NEW contents, contents = [ph.content EXCEPT ![f] = v],
         NEW r, r = [free |-> ph.free, ref |-> ph.ref, content |-> contents,
                     dir |-> ph.dir, table |-> ph.table, got |-> ph.got, ok |-> ph.ok]
  PROVE  Written(ph, r, f, v)
<1>1. /\ ph.free \in SUBSET Paging!Frames
      /\ ph.ref \in [Paging!Frames -> Nat]
      /\ ph.content \in [Paging!Frames -> Contents \cup {None}]
      /\ ph.dir \in [Paging!Frames -> [Paging!Dirs -> Paging!Frames \cup {0}]]
      /\ ph.table \in [Paging!Frames ->
                         [0 .. NPTEENTRY - 1 -> Paging!Entry \cup {None}]]
      /\ ph.got \in Paging!Frames \cup {0} /\ ph.ok \in BOOLEAN
  BY PhysFields
<1>2. /\ contents \in [Paging!Frames -> Contents \cup {None}] /\ contents[f] = v
      /\ \A g \in Paging!Frames : g # f => contents[g] = ph.content[g]
  BY <1>1
<1>3. r \in Phys
  BY <1>1, <1>2 DEF Phys
<1>4. OnlyContent(ph, r, f)
  BY <1>2 DEF OnlyContent
<1>5. QED
  BY <1>2, <1>3, <1>4 DEF Written

LEMMA ContentChanges ==
  ASSUME NEW ph, NEW D, NEW A, NEW K, Kept(ph, D, A, K),
         NEW d \in D, NEW a \in Paging!Pages, NEW v,
         NEW f \in Paging!Frames, FrameAt(ph, d, a) = f,
         NEW r, Written(ph, r, f, v)
  PROVE  Kept(r, D, A, K) /\ SameBut(ph, r, D, d, a, {v})
<1>1. ph \in Phys /\ D \in SUBSET Paging!Frames /\ f # 0
  BY PagingConstants DEF Kept
<1>2. /\ Uses(r, D) = Uses(ph, D)
      /\ \A e, list : Follows(ph, e, list) => Follows(r, e, list)
      /\ \A e, b : Paging!Pte(r, e, b) = Paging!Pte(ph, e, b)
  BY SameTables DEF Written
<1>3. Kept(r, D, A, K)
  BY <1>2 DEF Kept, Written
<1>4. PICK x : x = Paging!Pte(ph, d, a)
  OBVIOUS
<1>5. x # None /\ x.frame = f
  BY <1>1, <1>4 DEF FrameAt
<1>6. EntriesExcept(ph, r, D, d, a, x)
  BY <1>2, <1>4 DEF EntriesExcept
<1>7. OnlyContent(ph, r, f) /\ r.content[f] = v
  BY DEF Written
<1>8. \A e \in D, b \in Paging!Pages :
         FrameAt(ph, e, b) = f /\ f # 0 => e = d /\ b = a
  <2>1. Owned(Uses(ph, D), ph.free, K)
    BY DEF Kept
  <2>2. QED
    BY <1>1, <2>1, PagesApart
<1>9. SameBut(ph, r, D, d, a, {v})
  <2>1. SameBut(ph, r, D, d, a, IF x = None THEN {} ELSE {r.content[x.frame]})
    BY <1>1, <1>6, <1>7, <1>8, HoldsBut
  <2>2. QED
    BY <1>5, <1>7, <2>1
<1>10. QED
  BY <1>3, <1>9

-----------------------------------------------------------------------------
(* What the processes do.                                                  *)

\* setup_pgdir without a free frame.
LEMMA SetupFails ==
  ASSUME NEW ph, NEW D, NEW A, NEW K, Kept(ph, D, A, K),
         NEW n, n = Paging!setup_pgdir(ph), ~n.ok
  PROVE  n \in Failed
<1>1. ph \in Phys /\ ph.ok
  BY DEF Kept
<1>2. PICK new : new = Paging!alloc_page(ph, None)
  OBVIOUS
<1>3. CASE new.ok
  <2>1. Allocated(ph, new)
    BY <1>1, <1>2, <1>3, AllocIs
  <2>2. [new EXCEPT !.dir[new.got] = Paging!NoDir].ok = new.ok
    BY <2>1 DEF Allocated, Phys
  <2>3. QED
    BY <1>2, <1>3, <2>2 DEF Paging!setup_pgdir
<1>4. CASE ~new.ok
  <2>1. n = new
    BY <1>2, <1>4 DEF Paging!setup_pgdir
  <2>2. new = [ph EXCEPT !.ok = FALSE]
    <3>1. CASE ph.free = {}
      BY <1>1, <1>2, <3>1 DEF Paging!alloc_page
    <3>2. CASE ph.free # {}
      <4>1. PICK f : f = Paging!Min(ph.free)
        OBVIOUS
      <4>2. new = [ph EXCEPT !.free = @ \ {f}, !.ref[f] = 0, !.content[f] = None,
                             !.got = f]
        BY <1>1, <1>2, <3>2, <4>1 DEF Paging!alloc_page
      <4>3. new.ok = ph.ok
        BY <1>1, <4>2 DEF Phys
      <4>4. QED
        BY <1>1, <1>4, <4>3
    <3>3. QED
      BY <3>1, <3>2
  <2>3. QED
    BY <1>1, <2>1, <2>2 DEF Phys, Failed
<1>5. QED
  BY <1>3, <1>4

\* A process lets go of its mm.
LEMMA LeaveKeeps ==
  ASSUME PagingInv, NEW p \in Tasks, NEW n, n = [mm_of EXCEPT ![p] = 0]
  PROVE  /\ CountedIn(n, Paging!LeaveCount(p)) /\ n[p] = 0
         /\ Paging!LeaveAreas(p) \in [Paging!Frames -> Seq(Paging!Area)]
         /\ Kept(Paging!Leave(p), LiveOf(n), Paging!LeaveAreas(p), {})
         /\ Same(phys, Paging!Leave(p), LiveOf(n)) /\ LiveOf(n) \subseteq LiveOf(mm_of)
<1>1. /\ CountedIn(mm_of, mm_count)
      /\ mmaps \in [Paging!Frames -> Seq(Paging!Area)]
      /\ Kept(phys, LiveOf(mm_of), mmaps, {})
  BY DEF PagingInv, KeptBy
<1>2. PICK e : e = Paging!LeaveCount(p)
  OBVIOUS
<1>3. e = IF mm_of[p] = 0 THEN mm_count ELSE [mm_count EXCEPT ![mm_of[p]] = @ - 1]
  BY <1>2 DEF Paging!LeaveCount
<1>4. /\ CountedIn(n, e) /\ n[p] = 0
      /\ mm_of[p] # 0 /\ mm_count[mm_of[p]] = 1 => LiveOf(n) = LiveOf(mm_of) \ {mm_of[p]}
      /\ ~(mm_of[p] # 0 /\ mm_count[mm_of[p]] = 1) => LiveOf(n) = LiveOf(mm_of)
  <2>1. Left(mm_of, mm_count, p, n, e)
    BY <1>3 DEF Left
  <2>2. CountedIn(mm_of, mm_count)
    BY <1>1
  <2>3. LeftWell(mm_of, mm_count, p, n, e)
    BY <2>1, <2>2, SharerLeaves
  <2>4. QED
    BY <2>3 DEF LeftWell
<1>5. CASE mm_of[p] # 0 /\ mm_count[mm_of[p]] = 1
  <2>1. mm_of[p] \in LiveOf(mm_of) /\ LiveOf(n) = LiveOf(mm_of) \ {mm_of[p]}
        /\ mm_of[p] \in Paging!Frames
    BY <1>1, <1>4, <1>5 DEF LiveOf, CountedIn
  <2>2. /\ Paging!Leave(p) = Paging!free_page(Paging!exit_mmap(phys, mm_of[p]), mm_of[p])
        /\ Paging!LeaveAreas(p) = [mmaps EXCEPT ![mm_of[p]] = <<>>]
    BY <1>5 DEF Paging!Leave, Paging!LeaveAreas
  <2>3. PICK B : B = Paging!LeaveAreas(p)
    OBVIOUS
  <2>4. PICK D : D = LiveOf(mm_of)
    OBVIOUS
  <2>5. /\ Kept(Paging!Leave(p), D \ {mm_of[p]}, mmaps, {})
        /\ Same(phys, Paging!Leave(p), D \ {mm_of[p]})
    BY <1>1, <2>1, <2>2, <2>4, MmLeaves
  <2>6. D \subseteq Paging!Frames
    BY <1>1, <2>4 DEF Kept
  <2>7. /\ B \in [Paging!Frames -> Seq(Paging!Area)]
        /\ \A d \in D \ {mm_of[p]} : B[d] = mmaps[d]
    <3>1. <<>> \in Seq(Paging!Area)
      OBVIOUS
    <3>2. PICK z : z = <<>> /\ z \in Seq(Paging!Area)
      BY <3>1
    <3>3. B = [mmaps EXCEPT ![mm_of[p]] = z]
      BY <2>2, <2>3, <3>2
    <3>4. QED
      BY <1>1, <2>1, <2>6, <3>2, <3>3
  <2>8. Kept(Paging!Leave(p), D \ {mm_of[p]}, B, {})
    BY <2>5, <2>7, AreasSame
  <2>9. QED
    BY <1>2, <1>4, <2>1, <2>3, <2>4, <2>5, <2>7, <2>8
<1>6. CASE ~(mm_of[p] # 0 /\ mm_count[mm_of[p]] = 1)
  <2>1. Paging!Leave(p) = phys /\ Paging!LeaveAreas(p) = mmaps
    BY <1>6 DEF Paging!Leave, Paging!LeaveAreas
  <2>2. LiveOf(n) = LiveOf(mm_of)
    BY <1>4, <1>6
  <2>3. Same(phys, phys, LiveOf(n))
    BY DEF Same
  <2>4. QED
    BY <1>1, <1>2, <1>4, <2>1, <2>2, <2>3
<1>7. QED
  BY <1>5, <1>6

\* Pages stay filled.
LEMMA FilledStays ==
  ASSUME NEW ph, NEW D, Filled(ph, D), NEW r
  PROVE  /\ \A E \in SUBSET D : Same(ph, r, E) => Filled(r, E)
         /\ \A d, a, v : v \in Contents /\ SameBut(ph, r, D, d, a, {v}) => Filled(r, D)
<1>1. ASSUME NEW E \in SUBSET D, Same(ph, r, E)
      PROVE  Filled(r, E)
  BY <1>1 DEF Filled, Same
<1>2. ASSUME NEW d, NEW a, NEW v \in Contents, SameBut(ph, r, D, d, a, {v})
      PROVE  Filled(r, D)
  <2>1. ASSUME NEW e \in D, NEW b \in Paging!Pages
        PROVE  Holds(r, e, b) \subseteq Contents
    <3>1. Holds(r, e, b) = IF e = d /\ b = a THEN {v} ELSE Holds(ph, e, b)
      BY <1>2 DEF SameBut
    <3>2. Holds(ph, e, b) \subseteq Contents
      BY DEF Filled
    <3>3. QED
      BY <3>1, <3>2
  <2>2. QED
    BY <2>1 DEF Filled
<1>3. QED
  BY <1>1, <1>2

\* What an action may do to memory: to each one lemma, that it keeps the
\* invariant, and what pages it leaves as they were.
LEMMA WriteKeeps ==
  ASSUME PagingInv, NEW p \in Tasks, NEW a \in Paging!Pages, NEW v \in Contents,
         Paging!Write(p, a, v)
  PROVE  /\ PagingInv'
         /\ SameBut(phys, phys', LiveOf(mm_of), mm_of[p], a, {v})
<1>1. /\ CountedIn(mm_of, mm_count)
      /\ mmaps \in [Paging!Frames -> Seq(Paging!Area)]
      /\ Kept(phys, LiveOf(mm_of), mmaps, {}) /\ Filled(phys, LiveOf(mm_of))
  BY DEF PagingInv, KeptBy
<1>2. PICK f : f = Paging!Pte(phys, mm_of[p], a).frame
  OBVIOUS
<1>3. PICK d : d = mm_of[p]
  OBVIOUS
<1>4. d \in Paging!Frames /\ d \in LiveOf(mm_of) /\ Paging!Pte(phys, d, a) # None
  BY <1>1, <1>3 DEF Paging!Write, CountedIn, LiveOf
<1>5. f \in Paging!Frames /\ FrameAt(phys, d, a) = f
  BY <1>1, <1>2, <1>3, <1>4, PteType DEF Kept, FrameAt
<1>6. /\ phys' = [phys EXCEPT !.content[f] = v]
      /\ mm_of' = mm_of /\ mmaps' = mmaps /\ mm_count' = mm_count
  BY <1>2 DEF Paging!Write
<1>7. PICK r : r = phys'
  OBVIOUS
<1>8. r = [phys EXCEPT !.content[f] = v]
  BY <1>6, <1>7
<1>9. Kept(r, LiveOf(mm_of), mmaps, {}) /\ SameBut(phys, r, LiveOf(mm_of), d, a, {v})
  <2>1. phys \in Phys
    BY <1>1 DEF Kept
  <2>2. Written(phys, r, f, v)
    <3>1. PICK contents : contents = [phys.content EXCEPT ![f] = v]
      OBVIOUS
    <3>2. phys = [free |-> phys.free, ref |-> phys.ref, content |-> phys.content,
                  dir |-> phys.dir, table |-> phys.table, got |-> phys.got,
                  ok |-> phys.ok]
      BY <2>1, PhysFields
    <3>3. r = [free |-> phys.free, ref |-> phys.ref, content |-> contents,
               dir |-> phys.dir, table |-> phys.table, got |-> phys.got,
               ok |-> phys.ok]
      BY <1>8, <3>1, <3>2
    <3>4. QED
      BY <1>5, <2>1, <3>1, <3>3, WrittenIs
  <2>3. QED
    BY <1>1, <1>4, <1>5, <2>2, ContentChanges
<1>10. Filled(r, LiveOf(mm_of))
  BY <1>1, <1>9, FilledStays
<1>11. QED
  BY <1>1, <1>3, <1>6, <1>7, <1>9, <1>10 DEF PagingInv, KeptBy

\* Memory that an operation leaves is committed, or the kernel panics.
LEMMA CommitKeeps ==
  ASSUME NEW n, NEW D, NEW A, n.ok => Kept(n, D, A, {}), Paging!Commit(n)
  PROVE  /\ n.ok => Kept(phys', D, A, {}) /\ Same(n, phys', D)
         /\ ~n.ok => phys' = phys
<1>1. CASE n.ok
  <2>1. PICK r : r = [n EXCEPT !.got = 0]
    OBVIOUS
  <2>2. Kept(r, D, A, {}) /\ Same(n, r, D)
    BY <1>1, <2>1, GotSame
  <2>3. phys' = r
    BY <1>1, <2>1 DEF Paging!Commit
  <2>4. QED
    BY <1>1, <2>2, <2>3
<1>2. CASE ~n.ok
  BY <1>2 DEF Paging!Commit
<1>3. QED
  BY <1>1, <1>2

LEMMA FaultKeeps ==
  ASSUME PagingInv, NEW p \in Tasks, NEW a \in Paging!Pages, NEW write \in BOOLEAN,
         NEW v \in Contents, Paging!Fault(p, a, write, v)
  PROVE  /\ PagingInv'
         /\ \/ phys' = phys
            \/ /\ Holds(phys, mm_of[p], a) = {}
               /\ SameBut(phys, phys', LiveOf(mm_of), mm_of[p], a, {v})
<1>1. /\ CountedIn(mm_of, mm_count)
      /\ mmaps \in [Paging!Frames -> Seq(Paging!Area)]
      /\ Kept(phys, LiveOf(mm_of), mmaps, {}) /\ Filled(phys, LiveOf(mm_of))
  BY DEF PagingInv, KeptBy
<1>2. /\ mm_of' = mm_of /\ mmaps' = mmaps /\ mm_count' = mm_count
      /\ mm_of[p] # 0 /\ Paging!do_pgfault(p, a, write, v)
  BY DEF Paging!Fault
<1>3. PICK d : d = mm_of[p]
  OBVIOUS
<1>4. PICK w : w = Paging!Writable(mmaps[d], a)
  OBVIOUS
<1>5. PICK n : n = Paging!pgdir_alloc_page(phys, d, a, w, v)
  OBVIOUS
<1>6. \/ phys' = phys
      \/ /\ Paging!AreaAt(mmaps[d], a) # {} /\ Paging!Commit(n)
         /\ Paging!Pte(phys, d, a) = None
  BY <1>2, <1>3, <1>4, <1>5 DEF Paging!do_pgfault, Paging!Panic
<1>7. CASE phys' = phys
  BY <1>1, <1>2, <1>7 DEF PagingInv, KeptBy
<1>8. CASE /\ phys' # phys /\ Paging!AreaAt(mmaps[d], a) # {} /\ Paging!Commit(n)
           /\ Paging!Pte(phys, d, a) = None
  <2>1. d \in LiveOf(mm_of)
    BY <1>2, <1>3 DEF LiveOf
  <2>2. Permits(mmaps[d], a, w)
    BY <1>4, <1>8 DEF Permits, Paging!Writable
  <2>3. PICK D : D = LiveOf(mm_of)
    OBVIOUS
  <2>4. phys \in Building(D, mmaps, {})
    BY <1>1, <2>3 DEF Building, Kept
  <2>5. n.ok => Kept(n, D, mmaps, {}) /\ SameBut(phys, n, D, d, a, {v})
    BY <1>5, <2>1, <2>2, <2>3, <2>4, AllocPageKeeps
  <2>6. n.ok => Kept(phys', D, mmaps, {}) /\ Same(n, phys', D)
    BY <1>8, <2>5, CommitKeeps
  <2>7. n.ok
    BY <1>8 DEF Paging!Commit
  <2>8. SameBut(phys, phys', D, d, a, {v})
    BY <2>5, <2>6, <2>7 DEF Same, SameBut
  <2>9. Filled(phys', D)
    BY <1>1, <2>3, <2>8, FilledStays
  <2>10. Holds(phys, d, a) = {}
    BY <1>8 DEF Holds
  <2>11. PagingInv'
    BY <1>1, <1>2, <2>3, <2>6, <2>7, <2>9 DEF PagingInv, KeptBy
  <2>12. QED
    BY <1>3, <2>3, <2>8, <2>10, <2>11
<1>9. QED
  BY <1>6, <1>7, <1>8

LEMMA ExitKeeps ==
  ASSUME PagingInv, NEW p \in Tasks, Paging!Exit(p)
  PROVE  /\ PagingInv'
         /\ Same(phys, phys', LiveOf(mm_of'))
<1>1. PICK n : n = [mm_of EXCEPT ![p] = 0]
  OBVIOUS
<1>2. /\ mm_of' = n /\ mmaps' = Paging!LeaveAreas(p)
      /\ mm_count' = Paging!LeaveCount(p) /\ Paging!Commit(Paging!Leave(p))
  BY <1>1 DEF Paging!Exit
<1>3. /\ CountedIn(n, Paging!LeaveCount(p))
      /\ Paging!LeaveAreas(p) \in [Paging!Frames -> Seq(Paging!Area)]
      /\ Kept(Paging!Leave(p), LiveOf(n), Paging!LeaveAreas(p), {})
      /\ Same(phys, Paging!Leave(p), LiveOf(n)) /\ LiveOf(n) \subseteq LiveOf(mm_of)
  BY <1>1, LeaveKeeps
<1>4. Paging!Leave(p).ok
  BY <1>3 DEF Kept
<1>5. /\ Kept(phys', LiveOf(n), Paging!LeaveAreas(p), {})
      /\ Same(Paging!Leave(p), phys', LiveOf(n))
  BY <1>2, <1>3, <1>4, CommitKeeps
<1>6. Same(phys, phys', LiveOf(n))
  BY <1>3, <1>5 DEF Same
<1>7. Filled(phys', LiveOf(n))
  <2>1. Filled(phys, LiveOf(mm_of))
    BY DEF PagingInv, KeptBy
  <2>2. QED
    BY <1>3, <1>6, <2>1, FilledStays
<1>8. QED
  BY <1>2, <1>3, <1>5, <1>6, <1>7 DEF PagingInv, KeptBy

LEMMA CloneKeeps ==
  ASSUME PagingInv, NEW p \in Tasks, NEW child \in Tasks, Paging!Clone(p, child)
  PROVE  PagingInv' /\ phys' = phys /\ LiveOf(mm_of') = LiveOf(mm_of)
<1>1. /\ CountedIn(mm_of, mm_count)
      /\ mmaps \in [Paging!Frames -> Seq(Paging!Area)]
      /\ Kept(phys, LiveOf(mm_of), mmaps, {}) /\ Filled(phys, LiveOf(mm_of))
  BY DEF PagingInv, KeptBy
<1>2. /\ mm_of[p] # 0 /\ mm_of[child] = 0
      /\ mm_of' = [mm_of EXCEPT ![child] = mm_of[p]]
      /\ mm_count' = [mm_count EXCEPT ![mm_of[p]] = @ + 1]
      /\ phys' = phys /\ mmaps' = mmaps
  BY DEF Paging!Clone
<1>3. CountedIn(mm_of', mm_count') /\ LiveOf(mm_of') = LiveOf(mm_of)
  <2>1. Joined(mm_of, mm_count, p, child, mm_of', mm_count')
    BY <1>2 DEF Joined
  <2>2. QED
    BY <1>1, <2>1, SharerJoins
<1>4. QED
  BY <1>1, <1>2, <1>3 DEF PagingInv, KeptBy

\* A process that leaves its mm runs a program in d, and what d holds is new.
Without(m, p) == [m EXCEPT ![p] = 0]

Executed(ph, r, m, o, p, d) ==
    /\ d \in Paging!Frames \ LiveOf(Without(m, p))
    /\ o = [m EXCEPT ![p] = d]
    /\ Same(ph, r, LiveOf(Without(m, p))) /\ Filled(r, {d})

LEMMA ExecKeeps ==
  ASSUME PagingInv, NEW p \in Tasks, NEW prog \in Programs, NEW v \in Contents,
         Paging!Exec(p, prog, v)
  PROVE  /\ PagingInv'
         /\ \/ phys' = phys /\ mm_of' = mm_of
            \/ \E d : Executed(phys, phys', mm_of, mm_of', p, d)
<1>1. PICK dir : dir = Paging!setup_pgdir(Paging!Leave(p))
  OBVIOUS
<1>2. PICK d : d = dir.got
  OBVIOUS
<1>3. PICK new : new = Paging!LoadPages(dir, d, prog, v)
  OBVIOUS
<1>4. /\ Paging!Commit(new)
      /\ new.ok => /\ mm_of' = [mm_of EXCEPT ![p] = d]
                   /\ mmaps' = [Paging!LeaveAreas(p) EXCEPT ![d] = prog.areas]
                   /\ mm_count' = [Paging!LeaveCount(p) EXCEPT ![d] = 1]
      /\ ~new.ok => mm_of' = mm_of /\ mmaps' = mmaps /\ mm_count' = mm_count
  BY <1>1, <1>2, <1>3 DEF Paging!Exec
<1>5. PICK n : n = [mm_of EXCEPT ![p] = 0]
  OBVIOUS
<1>6. PICK A : A = Paging!LeaveAreas(p)
  OBVIOUS
<1>7. PICK c : c = Paging!LeaveCount(p)
  OBVIOUS
<1>8. /\ CountedIn(n, c) /\ n[p] = 0 /\ A \in [Paging!Frames -> Seq(Paging!Area)]
      /\ Kept(Paging!Leave(p), LiveOf(n), A, {})
  BY <1>5, <1>6, <1>7, LeaveKeeps
<1>a. /\ Same(phys, Paging!Leave(p), LiveOf(n)) /\ LiveOf(n) \subseteq LiveOf(mm_of)
      /\ Filled(phys, LiveOf(mm_of))
  BY <1>5, LeaveKeeps DEF PagingInv, KeptBy
<1>9. CASE dir.ok /\ new.ok
  <2>1. d \in Paging!Frames /\ d \notin LiveOf(n)
    BY <1>1, <1>2, <1>8, <1>9, SetupKeeps
  <2>a. /\ Same(Paging!Leave(p), dir, LiveOf(n))
        /\ Void(dir, d) /\ GivesMm(dir, LiveOf(n), A, {})
    BY <1>1, <1>2, <1>8, <1>9, SetupKeeps
  <2>2. PICK m : m = [n EXCEPT ![p] = d]
    OBVIOUS
  <2>3. PICK e : e = [c EXCEPT ![d] = 1]
    OBVIOUS
  <2>4. CountedIn(m, e) /\ LiveOf(m) = LiveOf(n) \cup {d}
    BY <1>8, <2>1, <2>2, <2>3, SharerStarts
  <2>5. PICK x : x = prog.areas
    OBVIOUS
  <2>6. x \in Seq(Paging!Area)
    BY <2>5, ProgramIs
  <2>7. PICK B : B = [A EXCEPT ![d] = x]
    OBVIOUS
  <2>8. /\ B \in [Paging!Frames -> Seq(Paging!Area)] /\ B[d] = x
        /\ \A b \in LiveOf(n) : B[b] = A[b]
    <3>1. LiveOf(n) \subseteq Paging!Frames
      BY <1>8 DEF Kept
    <3>2. QED
      BY <1>8, <2>1, <2>6, <2>7, <3>1
  <2>9. Kept(dir, LiveOf(m), B, {})
    BY <1>2, <2>4, <2>6, <2>8, <2>a DEF GivesMm
  <2>10. dir \in Building(LiveOf(m), B, {}) /\ d \in LiveOf(m)
    BY <2>4, <2>9 DEF Building, Kept
  <2>11. new \in Loading(dir, d, LiveOf(m), B, {})
    BY <1>3, <2>a, <2>5, <2>8, <2>10, LoadPagesKeeps
  <2>12. /\ Kept(new, LiveOf(m), B, {})
         /\ Same(dir, new, LiveOf(m) \ {d}) /\ Filled(new, {d})
    BY <1>9, <2>11 DEF Loading, Building, Filled
  <2>13. Kept(phys', LiveOf(m), B, {}) /\ Same(new, phys', LiveOf(m))
    BY <1>4, <1>9, <2>12, CommitKeeps
  <2>14. m = [mm_of EXCEPT ![p] = d]
    <3>1. mm_of \in [Tasks -> Paging!Frames \cup {0}]
      BY DEF PagingInv, KeptBy, CountedIn
    <3>2. QED
      BY <1>5, <2>2, <3>1
  <2>15. mm_of' = m /\ mmaps' = B /\ mm_count' = e
    BY <1>4, <1>6, <1>7, <1>9, <2>3, <2>5, <2>7, <2>14
  <2>16. Same(phys, phys', LiveOf(n))
    <3>1. LiveOf(n) = LiveOf(m) \ {d}
      BY <2>1, <2>4
    <3>2. ASSUME NEW q \in LiveOf(n), NEW b \in Paging!Pages
          PROVE  Holds(phys', q, b) = Holds(phys, q, b)
      <4>1. Holds(phys', q, b) = Holds(new, q, b)
        BY <2>13, <3>1 DEF Same
      <4>2. Holds(new, q, b) = Holds(dir, q, b)
        BY <2>12, <3>1 DEF Same
      <4>3. Holds(dir, q, b) = Holds(Paging!Leave(p), q, b)
        BY <2>a DEF Same
      <4>4. Holds(Paging!Leave(p), q, b) = Holds(phys, q, b)
        BY <1>a DEF Same
      <4>5. QED
        BY <4>1, <4>2, <4>3, <4>4
    <3>3. QED
      BY <3>2 DEF Same
  <2>17. Filled(phys', {d})
    BY <2>10, <2>12, <2>13 DEF Filled, Same
  <2>18. Filled(phys', LiveOf(m))
    <3>1. Filled(phys', LiveOf(n))
      BY <1>a, <2>16, FilledStays
    <3>2. QED
      BY <2>4, <2>17, <3>1 DEF Filled
  <2>19. Executed(phys, phys', mm_of, mm_of', p, d)
    BY <1>5, <2>1, <2>14, <2>15, <2>16, <2>17 DEF Executed, Without
  <2>20. PagingInv'
    BY <2>4, <2>8, <2>13, <2>15, <2>18 DEF PagingInv, KeptBy
  <2>21. QED
    BY <2>19, <2>20
<1>10. CASE ~new.ok
  <2>1. phys' = phys /\ mm_of' = mm_of /\ mmaps' = mmaps /\ mm_count' = mm_count
    BY <1>4, <1>10 DEF Paging!Commit
  <2>2. QED
    BY <2>1 DEF PagingInv
<1>11. CASE ~dir.ok /\ new.ok
  <2>1. dir \in Failed
    BY <1>1, <1>8, <1>11, SetupFails
  <2>2. new \in Failed
    BY <1>3, <2>1, LoadPagesFails
  <2>3. QED
    BY <1>11, <2>2 DEF Failed
<1>12. QED
  BY <1>9, <1>10, <1>11

\* A child has a copy, in d, of what its parent has.
CopiedTo(ph, r, m, o, p, child, d) ==
    /\ d \in Paging!Frames \ LiveOf(m)
    /\ o = [m EXCEPT ![child] = d]
    /\ Same(ph, r, LiveOf(m))
    /\ \A b \in Paging!Pages : Holds(r, d, b) = Holds(ph, m[p], b)

LEMMA ForkedKeeps ==
  ASSUME PagingInv, NEW p \in Tasks, NEW child \in Tasks, Paging!Fork(p, child)
  PROVE  /\ PagingInv'
         /\ \/ phys' = phys /\ mm_of' = mm_of
            \/ \E d : CopiedTo(phys, phys', mm_of, mm_of', p, child, d)
<1>1. PICK dir : dir = Paging!setup_pgdir(phys)
  OBVIOUS
<1>2. PICK d : d = dir.got
  OBVIOUS
<1>3. PICK from : from = mm_of[p]
  OBVIOUS
<1>4. PICK new : new = Paging!dup_mmap(dir, d, from)
  OBVIOUS
<1>5. /\ from # 0 /\ mm_of[child] = 0 /\ Paging!Commit(new)
      /\ new.ok => /\ mm_of' = [mm_of EXCEPT ![child] = d]
                   /\ mmaps' = [mmaps EXCEPT ![d] = mmaps[from]]
                   /\ mm_count' = [mm_count EXCEPT ![d] = 1]
      /\ ~new.ok => mm_of' = mm_of /\ mmaps' = mmaps /\ mm_count' = mm_count
  BY <1>1, <1>2, <1>3, <1>4 DEF Paging!Fork
<1>6. /\ CountedIn(mm_of, mm_count)
      /\ mmaps \in [Paging!Frames -> Seq(Paging!Area)]
      /\ Kept(phys, LiveOf(mm_of), mmaps, {})
  BY DEF PagingInv, KeptBy
<1>a. Filled(phys, LiveOf(mm_of))
  BY DEF PagingInv, KeptBy
<1>7. from \in LiveOf(mm_of) /\ from \in Paging!Frames
  BY <1>3, <1>5, <1>6 DEF LiveOf, CountedIn
<1>8. PICK x : x = mmaps[from]
  OBVIOUS
<1>9. x \in Seq(Paging!Area)
  BY <1>6, <1>7, <1>8
<1>10. CASE dir.ok /\ new.ok
  <2>1. d \in Paging!Frames /\ d \notin LiveOf(mm_of)
    BY <1>1, <1>2, <1>6, <1>10, SetupKeeps
  <2>a. /\ Same(phys, dir, LiveOf(mm_of))
        /\ Void(dir, d) /\ GivesMm(dir, LiveOf(mm_of), mmaps, {})
    BY <1>1, <1>2, <1>6, <1>10, SetupKeeps
  <2>2. PICK m : m = [mm_of EXCEPT ![child] = d]
    OBVIOUS
  <2>3. PICK e : e = [mm_count EXCEPT ![d] = 1]
    OBVIOUS
  <2>4. CountedIn(m, e) /\ LiveOf(m) = LiveOf(mm_of) \cup {d}
    <3>1. PICK y : y = mm_of
      OBVIOUS
    <3>2. PICK c : c = mm_count
      OBVIOUS
    <3>3. /\ CountedIn(y, c) /\ y[child] = 0 /\ d \notin LiveOf(y)
          /\ m = [y EXCEPT ![child] = d] /\ e = [c EXCEPT ![d] = 1]
      BY <1>5, <1>6, <2>1, <2>2, <2>3, <3>1, <3>2
    <3>4. CountedIn(m, e) /\ LiveOf(m) = LiveOf(y) \cup {d}
      BY <2>1, <3>3, SharerStarts
    <3>5. QED
      BY <3>1, <3>4
  <2>5. PICK B : B = [mmaps EXCEPT ![d] = x]
    OBVIOUS
  <2>6. /\ B \in [Paging!Frames -> Seq(Paging!Area)] /\ B[d] = x
        /\ \A b \in LiveOf(mm_of) : B[b] = mmaps[b]
    <3>1. LiveOf(mm_of) \subseteq Paging!Frames
      BY <1>6 DEF Kept
    <3>2. QED
      BY <1>6, <1>9, <2>1, <2>5, <3>1
  <2>7. Kept(dir, LiveOf(m), B, {})
    BY <1>2, <1>9, <2>4, <2>6, <2>a DEF GivesMm
  <2>8. /\ dir \in Building(LiveOf(m), B, {})
        /\ d \in LiveOf(m) /\ from \in LiveOf(m) /\ B[d] = B[from]
        /\ LiveOf(m) \in SUBSET Paging!Frames
    BY <1>7, <1>8, <2>4, <2>6, <2>7 DEF Building, Kept
  <2>9. d # from /\ B[from] = mmaps[from]
    BY <1>7, <2>1, <2>6
  <2>10. /\ new \in Building(LiveOf(m), B, {})
         /\ new.ok => /\ Same(dir, new, LiveOf(m) \ {d})
                      /\ CopyOf(dir, from, new, d)
    <3>1. PICK D : D = LiveOf(m)
      OBVIOUS
    <3>2. /\ dir \in Building(D, B, {}) /\ D \in SUBSET Paging!Frames
          /\ d \in D /\ from \in D /\ d # from
          /\ B[d] = B[from] /\ B[from] = mmaps[from]
          /\ mmaps[from] \in Seq(Paging!Area)
      BY <1>8, <1>9, <2>8, <2>9, <3>1
    <3>3. Void(dir, d)
      BY <2>a
    <3>4. /\ new \in Building(D, B, {})
          /\ new.ok => /\ Same(dir, new, D \ {d})
                       /\ CopyOf(dir, from, new, d)
      BY <1>4, <3>2, <3>3, DupMmapKeeps
    <3>5. QED
      BY <3>1, <3>4
  <2>11. Kept(new, LiveOf(m), B, {})
    BY <1>10, <2>10 DEF Building
  <2>12. Kept(phys', LiveOf(m), B, {}) /\ Same(new, phys', LiveOf(m))
    BY <1>5, <1>10, <2>11, CommitKeeps
  <2>13. mm_of' = m /\ mmaps' = B /\ mm_count' = e
    BY <1>5, <1>8, <1>10, <2>2, <2>3, <2>5
  <2>14. Same(phys, phys', LiveOf(mm_of))
    <3>1. LiveOf(mm_of) = LiveOf(m) \ {d}
      BY <2>1, <2>4
    <3>2. ASSUME NEW q \in LiveOf(mm_of), NEW b \in Paging!Pages
          PROVE  Holds(phys', q, b) = Holds(phys, q, b)
      <4>1. Holds(phys', q, b) = Holds(new, q, b)
        BY <2>12, <3>1 DEF Same
      <4>2. Holds(new, q, b) = Holds(dir, q, b)
        BY <1>10, <2>10, <3>1 DEF Same
      <4>3. Holds(dir, q, b) = Holds(phys, q, b)
        BY <2>a DEF Same
      <4>4. QED
        BY <4>1, <4>2, <4>3
    <3>3. QED
      BY <3>2 DEF Same
  <2>15. ASSUME NEW b \in Paging!Pages
         PROVE  Holds(phys', d, b) = Holds(phys, from, b)
    <3>1. Holds(phys', d, b) = Holds(new, d, b)
      BY <2>8, <2>12 DEF Same
    <3>2. Holds(new, d, b) = Holds(dir, from, b)
      BY <1>10, <2>10 DEF CopyOf
    <3>3. Holds(dir, from, b) = Holds(phys, from, b)
      BY <1>7, <2>a DEF Same
    <3>4. QED
      BY <3>1, <3>2, <3>3
  <2>16. Filled(phys', LiveOf(m))
    <3>1. Filled(phys', LiveOf(mm_of))
      BY <1>a, <2>14, FilledStays
    <3>2. Filled(phys', {d})
      BY <1>a, <1>7, <2>15 DEF Filled
    <3>3. QED
      BY <2>4, <3>1, <3>2 DEF Filled
  <2>17. CopiedTo(phys, phys', mm_of, mm_of', p, child, d)
    BY <1>3, <2>1, <2>2, <2>13, <2>14, <2>15 DEF CopiedTo
  <2>18. PagingInv'
    BY <2>4, <2>6, <2>12, <2>13, <2>16 DEF PagingInv, KeptBy
  <2>19. QED
    BY <2>17, <2>18
<1>11. CASE ~new.ok
  <2>1. phys' = phys /\ mm_of' = mm_of /\ mmaps' = mmaps /\ mm_count' = mm_count
    BY <1>5, <1>11 DEF Paging!Commit
  <2>2. QED
    BY <2>1 DEF PagingInv
<1>12. CASE ~dir.ok /\ new.ok
  <2>1. dir \in Failed
    BY <1>1, <1>6, <1>12, SetupFails
  <2>2. new \in Failed
    BY <1>4, <1>8, <1>9, <2>1, DupMmapFails
  <2>3. QED
    BY <1>12, <2>2 DEF Failed
<1>13. QED
  BY <1>10, <1>11, <1>12

LEMMA NextKeeps ==
  ASSUME PagingInv, Paging!Next
  PROVE  PagingInv'
<1>1. CASE Paging!Panicked
  <2>1. phys' = phys /\ mm_of' = mm_of /\ mmaps' = mmaps /\ mm_count' = mm_count
    BY <1>1 DEF Paging!Panicked, Paging!vars
  <2>2. QED
    BY <2>1 DEF PagingInv
<1>2. CASE ~Paging!Panicked
  <2>1. PICK p \in Tasks :
           \/ \E a \in Paging!Pages, v \in Contents :
                 \/ Paging!Write(p, a, v)
                 \/ \E write \in BOOLEAN : Paging!Fault(p, a, write, v)
           \/ \E prog \in Programs, v \in Contents : Paging!Exec(p, prog, v)
           \/ \E child \in Tasks : Paging!Fork(p, child) \/ Paging!Clone(p, child)
           \/ Paging!Exit(p)
    BY <1>2, Zenon DEF Paging!Next
  <2>2. CASE \E a \in Paging!Pages, v \in Contents : Paging!Write(p, a, v)
    BY <2>2, WriteKeeps
  <2>3. CASE \E a \in Paging!Pages, v \in Contents, write \in BOOLEAN :
                Paging!Fault(p, a, write, v)
    BY <2>3, FaultKeeps
  <2>4. CASE \E prog \in Programs, v \in Contents : Paging!Exec(p, prog, v)
    BY <2>4, ExecKeeps
  <2>5. CASE \E child \in Tasks : Paging!Fork(p, child)
    BY <2>5, ForkedKeeps
  <2>6. CASE \E child \in Tasks : Paging!Clone(p, child)
    BY <2>6, CloneKeeps
  <2>7. CASE Paging!Exit(p)
    BY <2>7, ExitKeeps
  <2>8. QED
    BY <2>1, <2>2, <2>3, <2>4, <2>5, <2>6, <2>7, Zenon
<1>3. QED
  BY <1>1, <1>2

-----------------------------------------------------------------------------
(* What the frames are used for.                                           *)

\* The instance has its own name for it.
LEMMA SameCardinality ==
  ASSUME NEW S
  PROVE  Paging!Cardinality(S) = Cardinality(S)
BY Zenon DEF Paging!Cardinality, Cardinality

IsTable(d, f) == d \in Paging!Live /\ f \in Paging!TablesOf(d)

IsPage(d, a, f) ==
    /\ d \in Paging!Live /\ a \in Paging!Pages
    /\ a \in Paging!MappedIn(d) /\ Paging!Pte(phys, d, a).frame = f

\* What FramesAccounted counts.
DirUses(f) == {<<d>> : d \in Paging!Live \cap {f}}

TableUses(f) == {<<d, "table", i>> : d \in {e \in Paging!Live : f \in Paging!TablesOf(e)},
                                    i \in {0}}

PageUses(f) == {x \in {<<d, "page", a>> : d \in Paging!Live, a \in Paging!Pages} :
                  /\ x[3] \in Paging!MappedIn(x[1])
                  /\ Paging!Pte(phys, x[1], x[3]).frame = f}

UsesOf(f) == DirUses(f) \cup TableUses(f) \cup PageUses(f)

\* What RefsExact counts.
TableRefs(f) == {d \in Paging!Live : f \in Paging!TablesOf(d)}

PageRefs(f) == {x \in Paging!Live \X Paging!Pages :
                  /\ x[2] \in Paging!MappedIn(x[1])
                  /\ Paging!Pte(phys, x[1], x[2]).frame = f}

\* These sets, element by element.
LEMMA UsesOfIs ==
  ASSUME NEW f
  PROVE  /\ \A x : x \in UsesOf(f) <=>
               \/ f \in Paging!Live /\ x = <<f>>
               \/ \E d : IsTable(d, f) /\ x = <<d, "table", 0>>
               \/ \E d, a : IsPage(d, a, f) /\ x = <<d, "page", a>>
         /\ \A d : d \in TableRefs(f) <=> IsTable(d, f)
         /\ \A x : x \in PageRefs(f) <=> \E d, a : IsPage(d, a, f) /\ x = <<d, a>>
<1>1. \A d : d \in TableRefs(f) <=> IsTable(d, f)
  BY DEF TableRefs, IsTable
<1>2. \A x : x \in PageRefs(f) <=> \E d, a : IsPage(d, a, f) /\ x = <<d, a>>
  BY DEF PageRefs, IsPage
<1>3. ASSUME NEW x
      PROVE  x \in UsesOf(f) <=>
               \/ f \in Paging!Live /\ x = <<f>>
               \/ \E d : IsTable(d, f) /\ x = <<d, "table", 0>>
               \/ \E d, a : IsPage(d, a, f) /\ x = <<d, "page", a>>
  <2>1. x \in DirUses(f) <=> f \in Paging!Live /\ x = <<f>>
    BY DEF DirUses
  <2>2. x \in TableUses(f) <=> \E d : IsTable(d, f) /\ x = <<d, "table", 0>>
    BY DEF TableUses, IsTable
  <2>3. x \in PageUses(f) <=> \E d, a : IsPage(d, a, f) /\ x = <<d, "page", a>>
    BY DEF PageUses, IsPage
  <2>4. QED
    BY <2>1, <2>2, <2>3, Zenon DEF UsesOf
<1>4. QED
  BY <1>1, <1>2, <1>3

\* The same as keys.
LEMMA KeysSay ==
  ASSUME PagingInv, NEW f \in Paging!Frames, NEW u, u = Uses(phys, LiveOf(mm_of))
  PROVE  /\ f \in Paging!Live => <<f, "dir", 0>> \in Keys /\ u[<<f, "dir", 0>>] = f
         /\ \A d : IsTable(d, f) => \E i \in Paging!Dirs :
               <<d, "table", i>> \in Keys /\ u[<<d, "table", i>>] = f
         /\ \A d, a : IsPage(d, a, f) =>
               <<d, "page", a>> \in Keys /\ u[<<d, "page", a>>] = f
         /\ \A q \in Keys : u[q] = f =>
               \/ f \in Paging!Live /\ q[2] = "dir"
               \/ IsTable(q[1], f) /\ q[2] = "table"
               \/ IsPage(q[1], q[3], f) /\ q[2] = "page"
<1>1. PICK D : D = LiveOf(mm_of)
  OBVIOUS
<1>2. /\ D = Paging!Live /\ u = Uses(phys, D) /\ D \subseteq Paging!Frames /\ phys \in Phys
  BY <1>1 DEF PagingInv, KeptBy, Kept, LiveOf, Paging!Live
<1>3. f # 0
  BY PagingConstants
<1>4. f \in Paging!Live => <<f, "dir", 0>> \in Keys /\ u[<<f, "dir", 0>>] = f
  BY <1>2, UsesAt
<1>5. ASSUME NEW d, IsTable(d, f)
      PROVE  \E i \in Paging!Dirs : <<d, "table", i>> \in Keys /\ u[<<d, "table", i>>] = f
  <2>1. PICK i \in Paging!Dirs : phys.dir[d][i] = f /\ d \in D
    BY <1>2, <1>5 DEF IsTable, Paging!TablesOf
  <2>2. QED
    BY <1>2, <2>1, UsesAt
<1>6. ASSUME NEW d, NEW a, IsPage(d, a, f)
      PROVE  <<d, "page", a>> \in Keys /\ u[<<d, "page", a>>] = f
  <2>1. /\ d \in D /\ a \in Paging!Pages /\ Paging!Pte(phys, d, a) # None
        /\ Paging!Pte(phys, d, a).frame = f
    BY <1>2, <1>6 DEF IsPage, Paging!MappedIn
  <2>2. FrameAt(phys, d, a) = f
    BY <2>1 DEF FrameAt
  <2>3. QED
    BY <1>2, <2>1, <2>2, UsesAt
<1>7. ASSUME NEW q \in Keys, u[q] = f
      PROVE  \/ f \in Paging!Live /\ q[2] = "dir"
             \/ IsTable(q[1], f) /\ q[2] = "table"
             \/ IsPage(q[1], q[3], f) /\ q[2] = "page"
  <2>1. /\ q[1] \in D
        /\ \/ q = <<q[1], "dir", 0>> /\ u[q] = q[1]
           \/ /\ q[3] \in Paging!Dirs /\ q = <<q[1], "table", q[3]>>
              /\ u[q] = phys.dir[q[1]][q[3]]
           \/ /\ q[3] \in Paging!Pages /\ q = <<q[1], "page", q[3]>>
              /\ u[q] = FrameAt(phys, q[1], q[3])
    BY <1>2, <1>3, <1>7, UsesOnly
  <2>2. CASE q = <<q[1], "dir", 0>> /\ u[q] = q[1]
    BY <1>2, <1>7, <2>1, <2>2
  <2>3. CASE /\ q[3] \in Paging!Dirs /\ q = <<q[1], "table", q[3]>>
             /\ u[q] = phys.dir[q[1]][q[3]]
    <3>1. IsTable(q[1], f)
      BY <1>2, <1>3, <1>7, <2>1, <2>3 DEF IsTable, Paging!TablesOf
    <3>2. q[2] = "table"
      BY <2>3
    <3>3. QED
      BY <3>1, <3>2
  <2>4. CASE /\ q[3] \in Paging!Pages /\ q = <<q[1], "page", q[3]>>
             /\ u[q] = FrameAt(phys, q[1], q[3])
    <3>1. IsPage(q[1], q[3], f)
      BY <1>2, <1>3, <1>7, <2>1, <2>4 DEF IsPage, Paging!MappedIn, FrameAt
    <3>2. q[2] = "page"
      BY <2>4
    <3>3. QED
      BY <3>1, <3>2
  <2>5. QED
    BY <2>1, <2>2, <2>3, <2>4
<1>8. QED
  BY <1>4, <1>5, <1>6, <1>7

\* A frame is free and unused, or has exactly one use, and the count of it.
LEMMA UsedOnce ==
  ASSUME PagingInv, NEW f \in Paging!Frames
  PROVE  \/ /\ f \in phys.free /\ phys.ref[f] = 0
            /\ UsesOf(f) = {} /\ TableRefs(f) = {} /\ PageRefs(f) = {}
         \/ /\ f \notin phys.free /\ phys.ref[f] = 0
            /\ \E x : UsesOf(f) = {x}
            /\ TableRefs(f) = {} /\ PageRefs(f) = {}
         \/ /\ f \notin phys.free /\ phys.ref[f] = 1
            /\ \E x : UsesOf(f) = {x}
            /\ \E x : TableRefs(f) = {x}
            /\ PageRefs(f) = {}
         \/ /\ f \notin phys.free /\ phys.ref[f] = 1
            /\ \E x : UsesOf(f) = {x}
            /\ TableRefs(f) = {}
            /\ \E x : PageRefs(f) = {x}
<1>1. PICK u : u = Uses(phys, LiveOf(mm_of))
  OBVIOUS
<1>2. /\ f \in Paging!Live => <<f, "dir", 0>> \in Keys /\ u[<<f, "dir", 0>>] = f
      /\ \A d : IsTable(d, f) => \E i \in Paging!Dirs :
            <<d, "table", i>> \in Keys /\ u[<<d, "table", i>>] = f
      /\ \A d, a : IsPage(d, a, f) =>
            <<d, "page", a>> \in Keys /\ u[<<d, "page", a>>] = f
      /\ \A q \in Keys : u[q] = f =>
            \/ f \in Paging!Live /\ q[2] = "dir"
            \/ IsTable(q[1], f) /\ q[2] = "table"
            \/ IsPage(q[1], q[3], f) /\ q[2] = "page"
  BY <1>1, KeysSay
<1>3. /\ \A q, r \in Keys : u[q] = f /\ u[q] = u[r] => q = r
      /\ f \in phys.free <=> \A q \in Keys : u[q] # f
      /\ \A q \in Keys : u[q] = f => phys.ref[f] = IF q[2] = "dir" THEN 0 ELSE 1
      /\ f \in phys.free => phys.ref[f] = 0
  <2>1. /\ Owned(u, phys.free, {}) /\ Counted(u, phys.free, phys.ref) /\ f # 0
    BY <1>1, PagingConstants DEF PagingInv, KeptBy, Kept
  <2>2. QED
    BY <2>1 DEF Owned, Counted
<1>4. CASE f \in phys.free
  <2>1. /\ f \notin Paging!Live /\ \A d : ~IsTable(d, f) /\ \A a : ~IsPage(d, a, f)
    BY <1>2, <1>3, <1>4
  <2>2. UsesOf(f) = {} /\ TableRefs(f) = {} /\ PageRefs(f) = {}
    BY <2>1, UsesOfIs
  <2>3. QED
    BY <1>3, <1>4, <2>2
<1>5. CASE f \notin phys.free
  <2>1. PICK q \in Keys : u[q] = f
    BY <1>3, <1>5
  <2>6. f \in Paging!Live => q[2] = "dir"
    <3>1. f \in Paging!Live => q = <<f, "dir", 0>>
      BY <1>2, <1>3, <2>1
    <3>2. QED
      BY <3>1
  <2>7. ASSUME NEW d, IsTable(d, f)
        PROVE  q[2] = "table" /\ d = q[1]
    <3>1. PICK i \in Paging!Dirs : <<d, "table", i>> \in Keys /\ u[<<d, "table", i>>] = f
      BY <1>2, <2>7
    <3>2. q = <<d, "table", i>>
      BY <1>3, <2>1, <3>1
    <3>3. QED
      BY <3>2
  <2>8. ASSUME NEW d, NEW a, IsPage(d, a, f)
        PROVE  q[2] = "page" /\ d = q[1] /\ a = q[3]
    <3>1. <<d, "page", a>> \in Keys /\ u[<<d, "page", a>>] = f
      BY <1>2, <2>8
    <3>2. q = <<d, "page", a>>
      BY <1>3, <2>1, <3>1
    <3>3. QED
      BY <3>2
  <2>2. CASE f \in Paging!Live /\ q[2] = "dir"
    <3>1. \A d : ~IsTable(d, f) /\ \A a : ~IsPage(d, a, f)
      BY <2>2, <2>7, <2>8
    <3>2. UsesOf(f) = {<<f>>}
      BY <2>2, <3>1, UsesOfIs
    <3>3. TableRefs(f) = {} /\ PageRefs(f) = {}
      BY <3>1, UsesOfIs
    <3>4. phys.ref[f] = 0
      BY <1>3, <2>1, <2>2
    <3>5. QED
      BY <1>5, <3>2, <3>3, <3>4
  <2>3. CASE IsTable(q[1], f) /\ q[2] = "table"
    <3>1. /\ f \notin Paging!Live /\ \A d, a : ~IsPage(d, a, f)
          /\ \A d : IsTable(d, f) => d = q[1]
      BY <2>3, <2>6, <2>7, <2>8
    <3>2. UsesOf(f) = {<<q[1], "table", 0>>}
      BY <2>3, <3>1, UsesOfIs
    <3>3. TableRefs(f) = {q[1]} /\ PageRefs(f) = {}
      BY <2>3, <3>1, UsesOfIs
    <3>4. phys.ref[f] = 1
      BY <1>3, <2>1, <2>3
    <3>5. QED
      BY <1>5, <3>2, <3>3, <3>4
  <2>4. CASE IsPage(q[1], q[3], f) /\ q[2] = "page"
    <3>1. /\ f \notin Paging!Live /\ \A d : ~IsTable(d, f)
          /\ \A d, a : IsPage(d, a, f) => d = q[1] /\ a = q[3]
      BY <2>4, <2>6, <2>7, <2>8
    <3>2. UsesOf(f) = {<<q[1], "page", q[3]>>}
      BY <2>4, <3>1, UsesOfIs
    <3>3. TableRefs(f) = {} /\ PageRefs(f) = {<<q[1], q[3]>>}
      BY <2>4, <3>1, UsesOfIs
    <3>4. phys.ref[f] = 1
      BY <1>3, <2>1, <2>4
    <3>5. QED
      BY <1>5, <3>2, <3>3, <3>4
  <2>5. QED
    BY <1>2, <2>1, <2>2, <2>3, <2>4
<1>6. QED
  BY <1>4, <1>5

\* So the invariant says what it should.
LEMMA InvAccounts ==
  ASSUME PagingInv
  PROVE  Paging!PagesAccounted
<1>1. /\ CountedIn(mm_of, mm_count) /\ phys \in Phys /\ LiveOf(mm_of) = Paging!Live
      /\ \A d \in Paging!Live : Follows(phys, d, mmaps[d])
  BY DEF PagingInv, KeptBy, Kept, LiveOf, Paging!Live
<1>2. Paging!TypeOK
  <2>1. /\ phys.free \subseteq Paging!Frames
        /\ phys.ref \in [Paging!Frames -> Nat]
        /\ phys.content \in [Paging!Frames -> Contents \cup {None}]
        /\ phys.dir \in [Paging!Frames -> [Paging!Dirs -> Paging!Frames \cup {0}]]
        /\ phys.table \in [Paging!Frames -> [0 .. NPTEENTRY - 1 -> Paging!Entry \cup {None}]]
    BY <1>1, PhysFields
  <2>2. ASSUME NEW p \in Tasks, mm_of[p] # 0
        PROVE  mm_count[mm_of[p]] = Paging!Cardinality({q \in Tasks : mm_of[q] = mm_of[p]})
    <3>1. mm_count[mm_of[p]] = Cardinality(Shares(mm_of, mm_of[p]))
      BY <1>1, <2>2 DEF CountedIn
    <3>2. QED
      BY <3>1, SameCardinality DEF Shares
  <2>3. mm_of \in [Tasks -> Paging!Frames \cup {0}]
    BY <1>1 DEF CountedIn
  <2>4. QED
    BY <2>1, <2>2, <2>3 DEF Paging!TypeOK
<1>3. Cardinality({}) = 0 /\ \A x : Cardinality({x}) = 1
  BY FS_EmptySet, FS_Singleton
<1>4. ASSUME NEW f \in Paging!Frames
      PROVE  /\ Cardinality(UsesOf(f)) = IF f \in phys.free THEN 0 ELSE 1
             /\ phys.ref[f] = Cardinality(TableRefs(f)) + Cardinality(PageRefs(f))
  <2>1. \A S : (\E x : S = {x}) => Cardinality(S) = 1
    BY <1>3
  <2>2. \/ /\ f \in phys.free /\ phys.ref[f] = 0
           /\ UsesOf(f) = {} /\ TableRefs(f) = {} /\ PageRefs(f) = {}
        \/ /\ f \notin phys.free /\ phys.ref[f] = 0
           /\ Cardinality(UsesOf(f)) = 1
           /\ TableRefs(f) = {} /\ PageRefs(f) = {}
        \/ /\ f \notin phys.free /\ phys.ref[f] = 1
           /\ Cardinality(UsesOf(f)) = 1
           /\ Cardinality(TableRefs(f)) = 1
           /\ PageRefs(f) = {}
        \/ /\ f \notin phys.free /\ phys.ref[f] = 1
           /\ Cardinality(UsesOf(f)) = 1
           /\ TableRefs(f) = {}
           /\ Cardinality(PageRefs(f)) = 1
    BY <2>1, UsedOnce, Zenon
  <2>3. QED
    BY <1>3, <2>2
<1>5. Paging!FramesAccounted
  <2>1. ASSUME NEW f \in Paging!Frames
        PROVE  Paging!Cardinality(UsesOf(f)) = IF f \in phys.free THEN 0 ELSE 1
    BY <1>4, SameCardinality
  <2>2. QED
    BY <2>1 DEF Paging!FramesAccounted, UsesOf, DirUses, TableUses, PageUses
<1>6. Paging!RefsExact
  <2>1. ASSUME NEW f \in Paging!Frames
        PROVE  phys.ref[f] = Paging!Cardinality(TableRefs(f))
                             + Paging!Cardinality(PageRefs(f))
    BY <1>4, SameCardinality
  <2>2. QED
    BY <2>1, Zenon DEF Paging!RefsExact, TableRefs, PageRefs
<1>7. Paging!MappingsFollowAreas
  <2>1. ASSUME NEW d \in Paging!Live, NEW a \in Paging!MappedIn(d)
        PROVE  /\ Paging!AreaAt(mmaps[d], a) # {}
               /\ Paging!Pte(phys, d, a).write <=> Paging!Writable(mmaps[d], a)
    BY <1>1 DEF Paging!MappedIn, Follows
  <2>2. QED
    BY <2>1 DEF Paging!MappingsFollowAreas
<1>8. QED
  BY <1>2, <1>5, <1>6, <1>7 DEF Paging!PagesAccounted

\* It holds at the start, and is kept.
LEMMA NothingMapped ==
  ASSUME Paging!Init
  PROVE  PagingInv
<1>1. /\ phys = [free |-> Paging!Frames, ref |-> [f \in Paging!Frames |-> 0],
                 content |-> [f \in Paging!Frames |-> None],
                 dir |-> [f \in Paging!Frames |-> Paging!NoDir],
                 table |-> [f \in Paging!Frames |-> Paging!NoTable],
                 got |-> 0, ok |-> TRUE]
      /\ mm_of = [p \in Tasks |-> 0]
      /\ mmaps = [f \in Paging!Frames |-> <<>>]
      /\ mm_count = [f \in Paging!Frames |-> 0]
  BY DEF Paging!Init
<1>2. LiveOf(mm_of) = {}
  BY <1>1 DEF LiveOf
<1>3. CountedIn(mm_of, mm_count)
  BY <1>1 DEF CountedIn
<1>4. mmaps \in [Paging!Frames -> Seq(Paging!Area)]
  <2>1. <<>> \in Seq(Paging!Area)
    OBVIOUS
  <2>2. QED
    BY <1>1, <2>1
<1>5. phys \in Phys /\ phys.ok
  <2>1. Paging!NoDir \in [Paging!Dirs -> Paging!Frames \cup {0}]
    BY DEF Paging!NoDir
  <2>2. Paging!NoTable \in [0 .. NPTEENTRY - 1 -> Paging!Entry \cup {None}]
    BY DEF Paging!NoTable
  <2>3. QED
    BY <1>1, <2>1, <2>2 DEF Phys
<1>6. PICK u : u = Uses(phys, {})
  OBVIOUS
<1>7. u \in [Keys -> {0}]
  BY <1>6 DEF Uses
<1>8. /\ Owned(u, Paging!Frames, {})
      /\ Counted(u, Paging!Frames, [f \in Paging!Frames |-> 0])
  BY <1>7, PagingConstants DEF Owned, Counted
<1>9. Kept(phys, {}, mmaps, {})
  BY <1>1, <1>5, <1>6, <1>8 DEF Kept
<1>10. QED
  BY <1>2, <1>3, <1>4, <1>9 DEF PagingInv, KeptBy, Filled

LEMMA PagingInit == PagingHeapInit => PagingPart
<1>1. running = "paging" /\ PagingHeapInit => Paging!Init
  BY DEF PagingHeapInit
<1>2. QED
  BY <1>1, NothingMapped DEF PagingPart

LEMMA PagingNext == PagingPart /\ [PagingHeapNext]_pagingheapvars => PagingPart'
<1> SUFFICES ASSUME PagingPart, [PagingHeapNext]_pagingheapvars, running' = "paging"
             PROVE  PagingInv'
  BY DEF PagingPart
<1>1. CASE PagingStep
  <2>1. PagingInv /\ Paging!Next
    BY <1>1 DEF PagingStep, PagingPart
  <2>2. QED
    BY <2>1, NextKeeps
<1>2. CASE SlobStep
  BY <1>2 DEF SlobStep
<1>3. CASE UNCHANGED pagingheapvars
  <2>1. /\ running' = running /\ phys' = phys /\ mm_of' = mm_of /\ mmaps' = mmaps
        /\ mm_count' = mm_count
    BY <1>3 DEF pagingheapvars, pagingvars
  <2>2. QED
    BY <2>1 DEF PagingPart, PagingInv
<1>4. QED
  BY <1>1, <1>2, <1>3 DEF PagingHeapNext

\* Every frame is free or is one page directory, one page table or the page
\* behind one entry, and its reference count is the number of entries that lead
\* to it, whatever processes fault, exec, fork, share and exit (alloc_page,
\* page_insert, page_remove_pte, exit_mmap, copy_range, dup_mmap).
THEOREM PagesStayAccounted == PagingHeapSpec => []PagesAccounted
<1>1. PagingPart => PagesAccounted
  BY InvAccounts DEF PagingPart, PagesAccounted
<1>2. QED
  BY <1>1, PagingInit, PagingNext, PTL DEF PagingHeapSpec

-----------------------------------------------------------------------------
(* Paging implements VirtualMemory.                                        *)

\* What the page a of d shows, of the mms D, and the contents of all spaces.
Seen(ph, D, d, a) == IF d \in D THEN Holds(ph, d, a) ELSE {}

Shown(h) == IF h = {} THEN None ELSE CHOOSE x : x \in h

MemOf(ph, D) ==
    [d \in Paging!Frames |-> [a \in Paging!Pages |-> Shown(Seen(ph, D, d, a))]]

SpaceOf(m) == [p \in Tasks |-> IF m[p] = 0 THEN None ELSE m[p]]

LEMMA ShownIs == Shown({}) = None /\ \A x : Shown({x}) = x
<1>1. ASSUME NEW x
      PROVE  Shown({x}) = x
  <2>1. (CHOOSE y : y \in {x}) = x
    OBVIOUS
  <2>2. QED
    BY <2>1 DEF Shown
<1>2. QED
  BY <1>1 DEF Shown

LEMMA VisibleIs ==
  ASSUME NEW d, NEW a \in Paging!Pages
  PROVE  Paging!Visible(d, a) = Shown(Seen(phys, LiveOf(mm_of), d, a))
<1>1. Paging!Live = LiveOf(mm_of)
  BY DEF Paging!Live, LiveOf
<1>2. CASE d \in LiveOf(mm_of) /\ Paging!Pte(phys, d, a) # None
  <2>1. Seen(phys, LiveOf(mm_of), d, a) = {phys.content[Paging!Pte(phys, d, a).frame]}
    BY <1>2 DEF Seen, Holds
  <2>2. Paging!Visible(d, a) = phys.content[Paging!Pte(phys, d, a).frame]
    BY <1>1, <1>2 DEF Paging!Visible, Paging!MappedIn
  <2>3. QED
    BY <2>1, <2>2, ShownIs
<1>3. CASE ~(d \in LiveOf(mm_of) /\ Paging!Pte(phys, d, a) # None)
  <2>1. Seen(phys, LiveOf(mm_of), d, a) = {}
    BY <1>3 DEF Seen, Holds
  <2>2. Paging!Visible(d, a) = None
    BY <1>1, <1>3 DEF Paging!Visible, Paging!MappedIn
  <2>3. QED
    BY <2>1, <2>2, ShownIs
<1>4. QED
  BY <1>2, <1>3

\* So the variables of VirtualMemory are these.
LEMMA SpacesAre ==
  /\ [d \in Paging!Frames |-> [a \in Paging!Pages |-> Paging!Visible(d, a)]]
        = MemOf(phys, LiveOf(mm_of))
  /\ [p \in Tasks |-> IF mm_of[p] = 0 THEN None ELSE mm_of[p]] = SpaceOf(mm_of)
BY VisibleIs DEF MemOf, SpaceOf

LEMMA SpacesWillBe ==
  /\ [d \in Paging!Frames |-> [a \in Paging!Pages |-> Paging!Visible(d, a)']]
        = MemOf(phys', LiveOf(mm_of'))
  /\ [p \in Tasks |-> IF mm_of'[p] = 0 THEN None ELSE mm_of'[p]] = SpaceOf(mm_of')
<1>1. ([d \in Paging!Frames |-> [a \in Paging!Pages |-> Paging!Visible(d, a)]]
         = MemOf(phys, LiveOf(mm_of)))'
  BY SpacesAre, PTL
<1>2. QED
  BY <1>1 DEF SpaceOf

\* Memory is a function of spaces and pages, and as such no more than its values.
IsMem(M) == M = [e \in Paging!Frames |-> [b \in Paging!Pages |-> M[e][b]]]

IsRow(row) == row = [b \in Paging!Pages |-> row[b]]

LEMMA MemRows ==
  ASSUME NEW M, IsMem(M)
  PROVE  DOMAIN M = Paging!Frames /\ \A e \in Paging!Frames : IsRow(M[e])
<1>1. PICK N : N = [e \in Paging!Frames |-> [b \in Paging!Pages |-> M[e][b]]]
  OBVIOUS
<1>2. M = N
  BY <1>1 DEF IsMem
<1>3. DOMAIN N = Paging!Frames
      /\ \A e \in Paging!Frames : N[e] = [b \in Paging!Pages |-> M[e][b]]
  BY <1>1
<1>4. QED
  BY <1>2, <1>3 DEF IsRow

Agree(M, N) ==
    \A e \in Paging!Frames, b \in Paging!Pages : M[e][b] = N[e][b]

LEMMA MemEqual ==
  ASSUME NEW M, IsMem(M), NEW N, IsMem(N), Agree(M, N)
  PROVE  M = N
<1>1. ASSUME NEW e \in Paging!Frames
      PROVE  [b \in Paging!Pages |-> M[e][b]] = [b \in Paging!Pages |-> N[e][b]]
  BY DEF Agree
<1>2. [e \in Paging!Frames |-> [b \in Paging!Pages |-> M[e][b]]]
         = [e \in Paging!Frames |-> [b \in Paging!Pages |-> N[e][b]]]
  BY <1>1
<1>3. QED
  BY <1>2 DEF IsMem

\* What changes with a row, or with a page.
WithRow(M, d, row) == [M EXCEPT ![d] = row]

WithPage(M, d, a, v) == [M EXCEPT ![d][a] = v]

RowIn(N, M, d, row) ==
    \A e \in Paging!Frames, b \in Paging!Pages :
        N[e][b] = IF e = d THEN row[b] ELSE M[e][b]

LEMMA MemRow ==
  ASSUME NEW M, IsMem(M), NEW d \in Paging!Frames, NEW row, IsRow(row)
  PROVE  IsMem(WithRow(M, d, row)) /\ RowIn(WithRow(M, d, row), M, d, row)
<1>1. DOMAIN M = Paging!Frames /\ \A e \in Paging!Frames : IsRow(M[e])
  BY MemRows
<1>2. PICK N : N = WithRow(M, d, row)
  OBVIOUS
<1>3. /\ N = [e \in Paging!Frames |-> N[e]]
      /\ \A e \in Paging!Frames : N[e] = IF e = d THEN row ELSE M[e]
  BY <1>1, <1>2 DEF WithRow
<1>4. ASSUME NEW e \in Paging!Frames
      PROVE  N[e] = [b \in Paging!Pages |-> N[e][b]]
  <2>1. IsRow(N[e])
    BY <1>1, <1>3
  <2>2. QED
    BY <2>1 DEF IsRow
<1>5. [e \in Paging!Frames |-> N[e]]
         = [e \in Paging!Frames |-> [b \in Paging!Pages |-> N[e][b]]]
  BY <1>4
<1>6. IsMem(N)
  BY <1>3, <1>5 DEF IsMem
<1>7. QED
  BY <1>2, <1>3, <1>6 DEF RowIn

LEMMA MemPage ==
  ASSUME NEW M, IsMem(M), NEW d \in Paging!Frames, NEW a \in Paging!Pages, NEW v
  PROVE  /\ IsMem(WithPage(M, d, a, v))
         /\ \A e \in Paging!Frames, b \in Paging!Pages :
               WithPage(M, d, a, v)[e][b] = IF e = d /\ b = a THEN v ELSE M[e][b]
<1>1. PICK row : row = [M[d] EXCEPT ![a] = v]
  OBVIOUS
<1>2. WithPage(M, d, a, v) = WithRow(M, d, row)
  BY <1>1 DEF WithPage, WithRow
<1>3. IsRow(M[d])
  BY MemRows
<1>4. IsRow(row) /\ \A b \in Paging!Pages : row[b] = IF b = a THEN v ELSE M[d][b]
  BY <1>1, <1>3 DEF IsRow
<1>5. PICK N : N = WithRow(M, d, row)
  OBVIOUS
<1>6. /\ IsMem(N)
      /\ \A e \in Paging!Frames, b \in Paging!Pages :
            N[e][b] = IF e = d THEN row[b] ELSE M[e][b]
  BY <1>4, <1>5, MemRow DEF RowIn
<1>7. QED
  BY <1>2, <1>4, <1>5, <1>6

LEMMA MemOfIs ==
  ASSUME NEW ph, NEW D
  PROVE  /\ IsMem(MemOf(ph, D))
         /\ \A e \in Paging!Frames, b \in Paging!Pages :
               MemOf(ph, D)[e][b] = Shown(Seen(ph, D, e, b))
<1>1. \A e \in Paging!Frames, b \in Paging!Pages :
         MemOf(ph, D)[e][b] = Shown(Seen(ph, D, e, b))
  BY DEF MemOf
<1>2. PICK M : M = MemOf(ph, D)
  OBVIOUS
<1>3. ASSUME NEW e \in Paging!Frames
      PROVE  [b \in Paging!Pages |-> Shown(Seen(ph, D, e, b))]
                = [b \in Paging!Pages |-> M[e][b]]
  BY <1>1, <1>2
<1>4. [e \in Paging!Frames |-> [b \in Paging!Pages |-> Shown(Seen(ph, D, e, b))]]
         = [e \in Paging!Frames |-> [b \in Paging!Pages |-> M[e][b]]]
  BY <1>3
<1>5. IsMem(M)
  BY <1>2, <1>4 DEF IsMem, MemOf
<1>6. QED
  BY <1>1, <1>2, <1>5

\* A page is written, or touched for the first time.
LEMMA MemWritten ==
  ASSUME NEW ph, NEW r, NEW D \in SUBSET Paging!Frames, NEW d \in D,
         NEW a \in Paging!Pages, NEW v, SameBut(ph, r, D, d, a, {v})
  PROVE  MemOf(r, D) = WithPage(MemOf(ph, D), d, a, v)
<1>1. PICK M : M = MemOf(ph, D)
  OBVIOUS
<1>2. PICK N : N = MemOf(r, D)
  OBVIOUS
<1>3. PICK Q : Q = WithPage(M, d, a, v)
  OBVIOUS
<1>4. /\ IsMem(M) /\ IsMem(N)
      /\ \A e \in Paging!Frames, b \in Paging!Pages :
            M[e][b] = Shown(Seen(ph, D, e, b)) /\ N[e][b] = Shown(Seen(r, D, e, b))
  BY <1>1, <1>2, MemOfIs
<1>5. /\ IsMem(Q)
      /\ \A e \in Paging!Frames, b \in Paging!Pages :
            Q[e][b] = IF e = d /\ b = a THEN v ELSE M[e][b]
  BY <1>3, <1>4, MemPage
<1>6. ASSUME NEW e \in Paging!Frames, NEW b \in Paging!Pages
      PROVE  N[e][b] = Q[e][b]
  <2>1. e \in D => Holds(r, e, b) = IF e = d /\ b = a THEN {v} ELSE Holds(ph, e, b)
    BY DEF SameBut
  <2>2. /\ M[e][b] = Shown(Seen(ph, D, e, b)) /\ N[e][b] = Shown(Seen(r, D, e, b))
        /\ Q[e][b] = IF e = d /\ b = a THEN v ELSE M[e][b]
    BY <1>4, <1>5
  <2>3. CASE e = d /\ b = a
    <3>1. Seen(r, D, e, b) = {v}
      BY <2>1, <2>3 DEF Seen
    <3>2. QED
      BY <2>2, <2>3, <3>1, ShownIs
  <2>4. CASE ~(e = d /\ b = a)
    <3>1. Seen(r, D, e, b) = Seen(ph, D, e, b)
      BY <2>1, <2>4 DEF Seen
    <3>2. QED
      BY <2>2, <2>4, <3>1
  <2>5. QED
    BY <2>3, <2>4
<1>a. Agree(N, Q)
  BY <1>6 DEF Agree
<1>7. N = Q
  BY <1>4, <1>5, <1>a, MemEqual
<1>8. QED
  BY <1>1, <1>2, <1>3, <1>7

\* A process leaves its space: the last one empties it.
LeftIn(s, M, p) ==
    IF s[p] # None /\ \A q \in Tasks \ {p} : s[q] # s[p]
    THEN WithRow(M, s[p], [a \in Paging!Pages |-> None])
    ELSE M

LEMMA MemLeft ==
  ASSUME NEW ph, NEW r, NEW m \in [Tasks -> Paging!Frames \cup {0}],
         NEW p \in Tasks, NEW n, n = Without(m, p), Same(ph, r, LiveOf(n)),
         NEW s, s = SpaceOf(m), NEW M, M = MemOf(ph, LiveOf(m)),
         NEW N, N = MemOf(r, LiveOf(n))
  PROVE  N = LeftIn(s, M, p)
<1>1. /\ IsMem(M) /\ IsMem(N)
      /\ \A e \in Paging!Frames, b \in Paging!Pages :
            /\ M[e][b] = Shown(Seen(ph, LiveOf(m), e, b))
            /\ N[e][b] = Shown(Seen(r, LiveOf(n), e, b))
  BY MemOfIs
<1>2. /\ \A q \in Tasks : s[q] = IF m[q] = 0 THEN None ELSE m[q]
      /\ \A q \in Tasks : m[q] # 0 => m[q] \in Paging!Frames /\ m[q] # None
      /\ \A q \in Tasks : n[q] = IF q = p THEN 0 ELSE m[q]
  BY PagingConstants DEF SpaceOf, Without
<1>4. CASE s[p] # None /\ \A q \in Tasks \ {p} : s[q] # s[p]
  <2>1. m[p] # 0 /\ s[p] = m[p] /\ m[p] \in Paging!Frames
    BY <1>2, <1>4
  <2>2. LiveOf(n) = LiveOf(m) \ {m[p]}
    <3>1. \A q \in Tasks : q # p => n[q] = m[q] /\ m[q] # m[p]
      BY <1>2, <1>4, <2>1
    <3>2. QED
      BY <1>2, <2>1, <3>1 DEF LiveOf
  <2>3. PICK row : row = [b \in Paging!Pages |-> None]
    OBVIOUS
  <2>4. IsRow(row) /\ \A b \in Paging!Pages : row[b] = None
    BY <2>3 DEF IsRow
  <2>5. PICK Q : Q = WithRow(M, s[p], row)
    OBVIOUS
  <2>6. /\ IsMem(Q)
        /\ \A e \in Paging!Frames, b \in Paging!Pages :
              Q[e][b] = IF e = s[p] THEN row[b] ELSE M[e][b]
    BY <1>1, <2>1, <2>4, <2>5, MemRow DEF RowIn
  <2>7. ASSUME NEW e \in Paging!Frames, NEW b \in Paging!Pages
        PROVE  N[e][b] = Q[e][b]
    <3>1. /\ M[e][b] = Shown(Seen(ph, LiveOf(m), e, b))
          /\ N[e][b] = Shown(Seen(r, LiveOf(n), e, b))
          /\ Q[e][b] = IF e = s[p] THEN row[b] ELSE M[e][b]
      BY <1>1, <2>6
    <3>2. CASE e = s[p]
      <4>1. Seen(r, LiveOf(n), e, b) = {}
        BY <2>1, <2>2, <3>2 DEF Seen
      <4>2. QED
        BY <2>4, <3>1, <3>2, <4>1, ShownIs
    <3>3. CASE e # s[p]
      <4>1. Seen(r, LiveOf(n), e, b) = Seen(ph, LiveOf(m), e, b)
        BY <2>1, <2>2, <3>3 DEF Seen, Same
      <4>2. QED
        BY <3>1, <3>3, <4>1
    <3>4. QED
      BY <3>2, <3>3
  <2>a. Agree(N, Q)
    BY <2>7 DEF Agree
  <2>8. N = Q
    BY <1>1, <2>6, <2>a, MemEqual
  <2>9. QED
    BY <1>4, <2>3, <2>5, <2>8 DEF LeftIn
<1>5. CASE ~(s[p] # None /\ \A q \in Tasks \ {p} : s[q] # s[p])
  <2>1. LiveOf(n) = LiveOf(m)
    <3>1. CASE m[p] = 0
      BY <1>2, <3>1 DEF LiveOf
    <3>2. CASE m[p] # 0
      <4>1. PICK q \in Tasks \ {p} : s[q] = s[p]
        BY <1>2, <1>5, <3>2
      <4>2. q # p /\ m[q] # 0 /\ m[q] = m[p]
        BY <1>2, <3>2, <4>1
      <4>3. n[q] = m[p]
        BY <1>2, <4>2
      <4>4. QED
        BY <1>2, <3>2, <4>3 DEF LiveOf
    <3>3. QED
      BY <3>1, <3>2
  <2>2. Agree(N, M)
    <3>1. ASSUME NEW e \in Paging!Frames, NEW b \in Paging!Pages
          PROVE  N[e][b] = M[e][b]
      <4>1. Seen(r, LiveOf(n), e, b) = Seen(ph, LiveOf(m), e, b)
        BY <2>1 DEF Seen, Same
      <4>2. /\ M[e][b] = Shown(Seen(ph, LiveOf(m), e, b))
            /\ N[e][b] = Shown(Seen(r, LiveOf(n), e, b))
        BY <1>1
      <4>3. QED
        BY <4>1, <4>2
    <3>2. QED
      BY <3>1 DEF Agree
  <2>3. N = M
    BY <1>1, <2>2, MemEqual
  <2>4. QED
    BY <1>5, <2>3 DEF LeftIn
<1>6. QED
  BY <1>4, <1>5

AgreeBut(L, M, d) ==
    \A e \in Paging!Frames, b \in Paging!Pages : e # d => L[e][b] = M[e][b]

Joins(E, D, d) == d \notin D /\ E = D \cup {d}

\* A space that comes with d: the others are as they were.
LEMMA MemJoined ==
  ASSUME NEW ph, NEW r, NEW D, NEW E, NEW d \in Paging!Frames, Joins(E, D, d),
         Same(ph, r, D), NEW L, IsMem(L), AgreeBut(L, MemOf(ph, D), d)
  PROVE  MemOf(r, E) = WithRow(L, d, MemOf(r, E)[d])
<1>1. PICK M : M = MemOf(ph, D)
  OBVIOUS
<1>2. PICK N : N = MemOf(r, E)
  OBVIOUS
<1>3. /\ IsMem(M) /\ IsMem(N)
      /\ \A e \in Paging!Frames, b \in Paging!Pages :
            M[e][b] = Shown(Seen(ph, D, e, b)) /\ N[e][b] = Shown(Seen(r, E, e, b))
  BY <1>1, <1>2, MemOfIs
<1>4. PICK row : row = N[d]
  OBVIOUS
<1>5. IsRow(row)
  BY <1>3, <1>4, MemRows
<1>6. PICK Q : Q = WithRow(L, d, row)
  OBVIOUS
<1>7. IsMem(Q) /\ RowIn(Q, L, d, row)
  BY <1>5, <1>6, MemRow
<1>8. ASSUME NEW e \in Paging!Frames, NEW b \in Paging!Pages
      PROVE  N[e][b] = Q[e][b]
  <2>1. /\ M[e][b] = Shown(Seen(ph, D, e, b)) /\ N[e][b] = Shown(Seen(r, E, e, b))
        /\ Q[e][b] = IF e = d THEN row[b] ELSE L[e][b]
    BY <1>3, <1>7 DEF RowIn
  <2>2. CASE e = d
    BY <1>4, <2>1, <2>2
  <2>3. CASE e # d
    <3>1. Seen(r, E, e, b) = Seen(ph, D, e, b)
      BY <2>3 DEF Seen, Same, Joins
    <3>2. L[e][b] = M[e][b]
      BY <1>1, <2>3 DEF AgreeBut
    <3>3. QED
      BY <2>1, <2>3, <3>1, <3>2
  <2>4. QED
    BY <2>2, <2>3
<1>9. Agree(N, Q)
  BY <1>8 DEF Agree
<1>10. N = Q
  BY <1>3, <1>7, <1>9, MemEqual
<1>11. QED
  BY <1>2, <1>4, <1>6, <1>10

\* The spaces after one process has moved.
Moved(s, p, d) == [s EXCEPT ![p] = d]

IsContent(row) == row \in [Paging!Pages -> Contents \cup {None}]

\* exec
LEMMA MemExecuted ==
  ASSUME NEW ph, NEW r, NEW m \in [Tasks -> Paging!Frames \cup {0}], NEW o,
         NEW p \in Tasks, NEW d, Executed(ph, r, m, o, p, d),
         NEW s, s = SpaceOf(m), NEW t, t = SpaceOf(o),
         NEW M, M = MemOf(ph, LiveOf(m)), NEW N, N = MemOf(r, LiveOf(o))
  PROVE  /\ d \in Paging!Frames /\ \A q \in Tasks \ {p} : s[q] # d
         /\ IsContent(N[d])
         /\ N = WithRow(LeftIn(s, M, p), d, N[d])
         /\ t = Moved(s, p, d)
<1>1. PICK n : n = Without(m, p)
  OBVIOUS
<1>2. /\ d \in Paging!Frames /\ d \notin LiveOf(n) /\ o = [m EXCEPT ![p] = d]
      /\ Same(ph, r, LiveOf(n)) /\ Filled(r, {d}) /\ d # 0 /\ d # None
  BY <1>1, PagingConstants DEF Executed
<1>3. /\ \A q \in Tasks : s[q] = IF m[q] = 0 THEN None ELSE m[q]
      /\ \A q \in Tasks : n[q] = IF q = p THEN 0 ELSE m[q]
      /\ \A q \in Tasks : o[q] = IF q = p THEN d ELSE m[q]
  BY <1>1, <1>2 DEF SpaceOf, Without
<1>4. ASSUME NEW q \in Tasks \ {p}
      PROVE  s[q] # d
  <2>1. m[q] # 0 => m[q] \in LiveOf(n)
    BY <1>3 DEF LiveOf
  <2>2. QED
    BY <1>2, <1>3, <2>1
<1>5. LiveOf(o) = LiveOf(n) \cup {d}
  BY <1>2, <1>3 DEF LiveOf
<1>6. PICK L : L = LeftIn(s, M, p)
  OBVIOUS
<1>7. PICK B : B = MemOf(r, LiveOf(n))
  OBVIOUS
<1>8. B = L
  BY <1>1, <1>2, <1>6, <1>7, MemLeft
<1>9. IsMem(L)
  BY <1>7, <1>8, MemOfIs
<1>10. N = WithRow(L, d, N[d])
  <2>1. Same(r, r, LiveOf(n))
    BY DEF Same
  <2>2. AgreeBut(L, MemOf(r, LiveOf(n)), d)
    BY <1>7, <1>8 DEF AgreeBut
  <2>3. PICK E : E = LiveOf(o)
    OBVIOUS
  <2>4. Joins(E, LiveOf(n), d)
    BY <1>2, <1>5, <2>3 DEF Joins
  <2>5. MemOf(r, E) = WithRow(L, d, MemOf(r, E)[d])
    BY <1>2, <1>9, <2>1, <2>2, <2>4, MemJoined
  <2>6. QED
    BY <2>3, <2>5
<1>11. IsContent(N[d])
  <2>1. IsRow(N[d])
    BY <1>2, MemOfIs, MemRows
  <2>2. ASSUME NEW b \in Paging!Pages
        PROVE  N[d][b] \in Contents \cup {None}
    <3>1. N[d][b] = Shown(Holds(r, d, b))
      <4>1. N[d][b] = Shown(Seen(r, LiveOf(o), d, b))
        BY <1>2, MemOfIs
      <4>2. QED
        BY <1>5, <4>1 DEF Seen
    <3>2. Holds(r, d, b) \subseteq Contents
      BY <1>2 DEF Filled
    <3>3. QED
      BY <3>1, <3>2, ShownIs DEF Holds
  <2>3. QED
    BY <2>1, <2>2 DEF IsRow, IsContent
<1>12. t = Moved(s, p, d)
  <2>1. s = [q \in Tasks |-> s[q]] /\ t = [q \in Tasks |-> t[q]]
        /\ \A q \in Tasks : t[q] = IF o[q] = 0 THEN None ELSE o[q]
    BY DEF SpaceOf
  <2>2. \A q \in Tasks : t[q] = IF q = p THEN d ELSE s[q]
    BY <1>2, <1>3, <2>1
  <2>3. QED
    BY <2>1, <2>2 DEF Moved
<1>13. QED
  BY <1>2, <1>4, <1>6, <1>10, <1>11, <1>12

\* fork
LEMMA MemForked ==
  ASSUME NEW ph, NEW r, NEW m \in [Tasks -> Paging!Frames \cup {0}], NEW o,
         NEW p \in Tasks, NEW child \in Tasks, m[p] # 0, NEW d,
         CopiedTo(ph, r, m, o, p, child, d), m[child] = 0,
         NEW s, s = SpaceOf(m), NEW t, t = SpaceOf(o),
         NEW M, M = MemOf(ph, LiveOf(m)), NEW N, N = MemOf(r, LiveOf(o))
  PROVE  /\ d \in Paging!Frames /\ \A q \in Tasks : s[q] # d
         /\ N = WithRow(M, d, M[s[p]])
         /\ t = Moved(s, child, d)
<1>1. /\ d \in Paging!Frames /\ d \notin LiveOf(m) /\ o = [m EXCEPT ![child] = d]
      /\ Same(ph, r, LiveOf(m)) /\ d # 0 /\ d # None
      /\ \A b \in Paging!Pages : Holds(r, d, b) = Holds(ph, m[p], b)
  BY PagingConstants DEF CopiedTo
<1>2. /\ \A q \in Tasks : s[q] = IF m[q] = 0 THEN None ELSE m[q]
      /\ \A q \in Tasks : o[q] = IF q = child THEN d ELSE m[q]
      /\ m[p] \in Paging!Frames /\ s[p] = m[p] /\ m[p] \in LiveOf(m)
  BY <1>1 DEF SpaceOf, LiveOf
<1>3. \A q \in Tasks : s[q] # d
  BY <1>1, <1>2 DEF LiveOf
<1>4. LiveOf(o) = LiveOf(m) \cup {d}
  BY <1>1, <1>2 DEF LiveOf
<1>5. IsMem(M) /\ IsMem(N)
  BY MemOfIs
<1>6. N[d] = M[s[p]]
  <2>1. IsRow(N[d]) /\ IsRow(M[s[p]])
    BY <1>1, <1>2, <1>5, MemRows
  <2>2. ASSUME NEW b \in Paging!Pages
        PROVE  N[d][b] = M[s[p]][b]
    <3>1. /\ N[d][b] = Shown(Seen(r, LiveOf(o), d, b))
          /\ M[s[p]][b] = Shown(Seen(ph, LiveOf(m), m[p], b))
      BY <1>1, <1>2, MemOfIs
    <3>2. Seen(r, LiveOf(o), d, b) = Seen(ph, LiveOf(m), m[p], b)
      BY <1>1, <1>2, <1>4 DEF Seen
    <3>3. QED
      BY <3>1, <3>2
  <2>3. QED
    BY <2>1, <2>2 DEF IsRow
<1>7. N = WithRow(M, d, M[s[p]])
  <2>1. AgreeBut(M, MemOf(ph, LiveOf(m)), d)
    BY DEF AgreeBut
  <2>2. PICK E : E = LiveOf(o)
    OBVIOUS
  <2>3. Joins(E, LiveOf(m), d)
    BY <1>1, <1>4, <2>2 DEF Joins
  <2>4. MemOf(r, E) = WithRow(M, d, MemOf(r, E)[d])
    BY <1>1, <1>5, <2>1, <2>3, MemJoined
  <2>5. QED
    BY <1>6, <2>2, <2>4
<1>8. t = Moved(s, child, d)
  <2>1. s = [q \in Tasks |-> s[q]] /\ t = [q \in Tasks |-> t[q]]
        /\ \A q \in Tasks : t[q] = IF o[q] = 0 THEN None ELSE o[q]
    BY DEF SpaceOf
  <2>2. \A q \in Tasks : t[q] = IF q = child THEN d ELSE s[q]
    BY <1>1, <1>2, <2>1
  <2>3. QED
    BY <2>1, <2>2 DEF Moved
<1>9. QED
  BY <1>1, <1>3, <1>7, <1>8

LEMMA SpaceRows ==
  ASSUME NEW m, NEW s, s = SpaceOf(m)
  PROVE  /\ s = [q \in Tasks |-> s[q]]
         /\ \A q \in Tasks : s[q] = IF m[q] = 0 THEN None ELSE m[q]
BY DEF SpaceOf

\* So each action is one of VirtualMemory, or changes nothing it knows of.
LEMMA SpaceIs ==
  ASSUME PagingInv, NEW p \in Tasks, mm_of[p] # 0,
         NEW s, s = SpaceOf(mm_of), NEW M, M = MemOf(phys, LiveOf(mm_of))
  PROVE  /\ s[p] = mm_of[p] /\ s[p] \in Paging!Frames /\ s[p] # None
         /\ s[p] \in LiveOf(mm_of) /\ LiveOf(mm_of) \in SUBSET Paging!Frames
         /\ \A a \in Paging!Pages : M[s[p]][a] = Shown(Holds(phys, mm_of[p], a))
<1>1. CountedIn(mm_of, mm_count) /\ LiveOf(mm_of) \subseteq Paging!Frames
  BY DEF PagingInv, KeptBy, Kept
<1>2. /\ s[p] = mm_of[p] /\ s[p] \in Paging!Frames /\ s[p] # None
      /\ s[p] \in LiveOf(mm_of)
  BY <1>1, PagingConstants DEF SpaceOf, LiveOf, CountedIn
<1>3. ASSUME NEW a \in Paging!Pages
      PROVE  M[s[p]][a] = Shown(Holds(phys, mm_of[p], a))
  <2>1. M[s[p]][a] = Shown(Seen(phys, LiveOf(mm_of), s[p], a))
    BY <1>2, MemOfIs
  <2>2. QED
    BY <1>2, <2>1 DEF Seen
<1>4. QED
  BY <1>1, <1>2, <1>3

LEMMA NothingSeen ==
  ASSUME phys' = phys, mm_of' = mm_of
  PROVE  UNCHANGED Paging!VM!vars
BY SpacesAre, SpacesWillBe DEF Paging!VM!vars

LEMMA WriteSeen ==
  ASSUME PagingInv, NEW p \in Tasks, NEW a \in Paging!Pages, NEW v \in Contents,
         Paging!Write(p, a, v)
  PROVE  Paging!VM!Write(p, a, v)
<1>1. PICK s : s = SpaceOf(mm_of)
  OBVIOUS
<1>2. PICK M : M = MemOf(phys, LiveOf(mm_of))
  OBVIOUS
<1>3. mm_of[p] # 0 /\ mm_of' = mm_of /\ Paging!Pte(phys, mm_of[p], a) # None
  BY DEF Paging!Write
<1>4. /\ s[p] = mm_of[p] /\ s[p] \in Paging!Frames /\ s[p] # None
      /\ s[p] \in LiveOf(mm_of) /\ LiveOf(mm_of) \in SUBSET Paging!Frames
      /\ M[s[p]][a] = Shown(Holds(phys, mm_of[p], a))
  BY <1>1, <1>2, <1>3, SpaceIs
<1>5. M[s[p]][a] # None
  <2>1. Holds(phys, mm_of[p], a) \subseteq Contents
    BY <1>4 DEF PagingInv, KeptBy, Filled
  <2>2. PICK x : Holds(phys, mm_of[p], a) = {x}
    BY <1>3 DEF Holds
  <2>3. QED
    BY <1>4, <2>1, <2>2, ShownIs, PagingConstants
<1>6. PICK d : d = s[p]
  OBVIOUS
<1>7. SameBut(phys, phys', LiveOf(mm_of), d, a, {v})
  BY <1>4, <1>6, WriteKeeps
<1>8. PICK N : N = MemOf(phys', LiveOf(mm_of'))
  OBVIOUS
<1>9. N = WithPage(M, d, a, v)
  <2>1. PICK r : r = phys'
    OBVIOUS
  <2>2. MemOf(r, LiveOf(mm_of)) = WithPage(M, d, a, v)
    BY <1>2, <1>4, <1>6, <1>7, <2>1, MemWritten
  <2>3. QED
    BY <1>3, <1>8, <2>1, <2>2
<1>10. N = [M EXCEPT ![s[p]][a] = v]
  BY <1>6, <1>9 DEF WithPage
<1>11. SpaceOf(mm_of') = s
  BY <1>1, <1>3
<1>12. QED
  BY <1>1, <1>2, <1>4, <1>5, <1>8, <1>10, <1>11, SpacesAre, SpacesWillBe
     DEF Paging!VM!Write

LEMMA FaultSeen ==
  ASSUME PagingInv, NEW p \in Tasks, NEW a \in Paging!Pages, NEW write \in BOOLEAN,
         NEW v \in Contents, Paging!Fault(p, a, write, v)
  PROVE  Paging!VM!Touch(p, a) \/ UNCHANGED Paging!VM!vars
<1>1. PICK s : s = SpaceOf(mm_of)
  OBVIOUS
<1>2. PICK M : M = MemOf(phys, LiveOf(mm_of))
  OBVIOUS
<1>3. mm_of[p] # 0 /\ mm_of' = mm_of
  BY DEF Paging!Fault
<1>4. /\ s[p] = mm_of[p] /\ s[p] \in Paging!Frames /\ s[p] # None
      /\ s[p] \in LiveOf(mm_of) /\ LiveOf(mm_of) \in SUBSET Paging!Frames
      /\ M[s[p]][a] = Shown(Holds(phys, mm_of[p], a))
  BY <1>1, <1>2, <1>3, SpaceIs
<1>5. PICK d : d = s[p]
  OBVIOUS
<1>6. \/ phys' = phys
      \/ Holds(phys, d, a) = {} /\ SameBut(phys, phys', LiveOf(mm_of), d, a, {v})
  BY <1>4, <1>5, FaultKeeps
<1>7. CASE phys' = phys
  BY <1>3, <1>7, NothingSeen
<1>8. CASE Holds(phys, d, a) = {} /\ SameBut(phys, phys', LiveOf(mm_of), d, a, {v})
  <2>1. M[s[p]][a] = None
    BY <1>4, <1>5, <1>8, ShownIs
  <2>2. PICK N : N = MemOf(phys', LiveOf(mm_of'))
    OBVIOUS
  <2>3. N = WithPage(M, d, a, v)
    <3>1. PICK r : r = phys'
      OBVIOUS
    <3>2. MemOf(r, LiveOf(mm_of)) = WithPage(M, d, a, v)
      BY <1>2, <1>4, <1>5, <1>8, <3>1, MemWritten
    <3>3. QED
      BY <1>3, <2>2, <3>1, <3>2
  <2>4. N = [M EXCEPT ![s[p]][a] = v]
    BY <1>5, <2>3 DEF WithPage
  <2>5. SpaceOf(mm_of') = s
    BY <1>1, <1>3
  <2>6. \E x \in Contents : N = [M EXCEPT ![s[p]][a] = x]
    BY <2>4
  <2>a. Paging!VM!Touch(p, a)
    BY <1>1, <1>2, <1>4, <2>1, <2>2, <2>5, <2>6, SpacesAre, SpacesWillBe
       DEF Paging!VM!Touch
  <2>7. QED
    BY <2>a
<1>9. QED
  BY <1>6, <1>7, <1>8

\* What VirtualMemory makes of a process that leaves.
LEMMA LeftSeen ==
  ASSUME NEW p, NEW s, s = SpaceOf(mm_of), NEW M, M = MemOf(phys, LiveOf(mm_of))
  PROVE  Paging!VM!Left(p) = LeftIn(s, M, p)
BY SpacesAre DEF Paging!VM!Left, Paging!VM!Empty, LeftIn, WithRow

LEMMA ExecSeen ==
  ASSUME PagingInv, NEW p \in Tasks, NEW prog \in Programs, NEW v \in Contents,
         Paging!Exec(p, prog, v)
  PROVE  (\E d \in Paging!Frames : Paging!VM!Exec(p, d)) \/ UNCHANGED Paging!VM!vars
<1>1. \/ phys' = phys /\ mm_of' = mm_of
      \/ \E d : Executed(phys, phys', mm_of, mm_of', p, d)
  BY ExecKeeps
<1>2. CASE phys' = phys /\ mm_of' = mm_of
  BY <1>2, NothingSeen
<1>3. CASE \E d : Executed(phys, phys', mm_of, mm_of', p, d)
  <2>1. PICK d : Executed(phys, phys', mm_of, mm_of', p, d)
    BY <1>3
  <2>2. PICK s : s = SpaceOf(mm_of)
    OBVIOUS
  <2>3. PICK t : t = SpaceOf(mm_of')
    OBVIOUS
  <2>4. PICK M : M = MemOf(phys, LiveOf(mm_of))
    OBVIOUS
  <2>5. PICK N : N = MemOf(phys', LiveOf(mm_of'))
    OBVIOUS
  <2>6. mm_of \in [Tasks -> Paging!Frames \cup {0}]
    BY DEF PagingInv, KeptBy, CountedIn
  <2>7. /\ d \in Paging!Frames /\ \A q \in Tasks \ {p} : s[q] # d
        /\ IsContent(N[d])
        /\ N = WithRow(LeftIn(s, M, p), d, N[d])
        /\ t = Moved(s, p, d)
    <3>1. PICK ph : ph = phys
      OBVIOUS
    <3>2. PICK r : r = phys'
      OBVIOUS
    <3>3. PICK m : m = mm_of
      OBVIOUS
    <3>4. PICK o : o = mm_of'
      OBVIOUS
    <3>5. /\ Executed(ph, r, m, o, p, d) /\ m \in [Tasks -> Paging!Frames \cup {0}]
          /\ s = SpaceOf(m) /\ t = SpaceOf(o)
          /\ M = MemOf(ph, LiveOf(m)) /\ N = MemOf(r, LiveOf(o))
      BY <2>1, <2>2, <2>3, <2>4, <2>5, <2>6, <3>1, <3>2, <3>3, <3>4
    <3>6. QED
      BY <3>5, MemExecuted, SMTT(60)
  <2>8. N = [Paging!VM!Left(p) EXCEPT ![d] = N[d]]
    BY <2>2, <2>4, <2>7, LeftSeen DEF WithRow
  <2>9. Paging!VM!Exec(p, d)
    BY <2>2, <2>3, <2>5, <2>7, <2>8, SpacesAre, SpacesWillBe
       DEF Moved, IsContent, Paging!VM!Exec
  <2>10. QED
    BY <2>7, <2>9
<1>4. QED
  BY <1>1, <1>2, <1>3

LEMMA ForkSeen ==
  ASSUME PagingInv, NEW p \in Tasks, NEW child \in Tasks, Paging!Fork(p, child)
  PROVE  \/ \E d \in Paging!Frames : Paging!VM!Fork(p, child, d)
         \/ UNCHANGED Paging!VM!vars
<1>1. \/ phys' = phys /\ mm_of' = mm_of
      \/ \E d : CopiedTo(phys, phys', mm_of, mm_of', p, child, d)
  BY ForkedKeeps
<1>2. CASE phys' = phys /\ mm_of' = mm_of
  BY <1>2, NothingSeen
<1>3. CASE \E d : CopiedTo(phys, phys', mm_of, mm_of', p, child, d)
  <2>1. PICK d : CopiedTo(phys, phys', mm_of, mm_of', p, child, d)
    BY <1>3
  <2>2. PICK s : s = SpaceOf(mm_of)
    OBVIOUS
  <2>3. PICK t : t = SpaceOf(mm_of')
    OBVIOUS
  <2>4. PICK M : M = MemOf(phys, LiveOf(mm_of))
    OBVIOUS
  <2>5. PICK N : N = MemOf(phys', LiveOf(mm_of'))
    OBVIOUS
  <2>6. mm_of \in [Tasks -> Paging!Frames \cup {0}]
    BY DEF PagingInv, KeptBy, CountedIn
  <2>7. mm_of[p] # 0 /\ mm_of[child] = 0
    BY DEF Paging!Fork
  <2>8. /\ d \in Paging!Frames /\ \A q \in Tasks : s[q] # d
        /\ N = WithRow(M, d, M[s[p]])
        /\ t = Moved(s, child, d)
    <3>1. PICK ph : ph = phys
      OBVIOUS
    <3>2. PICK r : r = phys'
      OBVIOUS
    <3>3. PICK m : m = mm_of
      OBVIOUS
    <3>4. PICK o : o = mm_of'
      OBVIOUS
    <3>5. /\ CopiedTo(ph, r, m, o, p, child, d) /\ m \in [Tasks -> Paging!Frames \cup {0}]
          /\ m[p] # 0 /\ m[child] = 0 /\ s = SpaceOf(m) /\ t = SpaceOf(o)
          /\ M = MemOf(ph, LiveOf(m)) /\ N = MemOf(r, LiveOf(o))
      BY <2>1, <2>2, <2>3, <2>4, <2>5, <2>6, <2>7, <3>1, <3>2, <3>3, <3>4
    <3>6. QED
      BY <3>5, MemForked
  <2>9. s[p] # None /\ s[child] = None
    BY <2>2, <2>4, <2>7, SpaceIs DEF SpaceOf
  <2>10. N = [M EXCEPT ![d] = M[s[p]]]
    BY <2>8 DEF WithRow
  <2>11. Paging!VM!Fork(p, child, d)
    BY <2>2, <2>3, <2>4, <2>5, <2>8, <2>9, <2>10, SpacesAre, SpacesWillBe
       DEF Moved, Paging!VM!Fork, Paging!VM!Unused
  <2>12. QED
    BY <2>8, <2>11
<1>4. QED
  BY <1>1, <1>2, <1>3

LEMMA CloneSeen ==
  ASSUME PagingInv, NEW p \in Tasks, NEW child \in Tasks, Paging!Clone(p, child)
  PROVE  Paging!VM!Clone(p, child)
<1>1. PICK s : s = SpaceOf(mm_of)
  OBVIOUS
<1>2. PICK t : t = SpaceOf(mm_of')
  OBVIOUS
<1>3. /\ mm_of[p] # 0 /\ mm_of[child] = 0
      /\ mm_of' = [mm_of EXCEPT ![child] = mm_of[p]]
      /\ mm_of \in [Tasks -> Paging!Frames \cup {0}]
  BY DEF Paging!Clone, PagingInv, KeptBy, CountedIn
<1>4. phys' = phys /\ LiveOf(mm_of') = LiveOf(mm_of)
  BY CloneKeeps
<1>5. s[p] = mm_of[p] /\ s[p] # None /\ s[child] = None
  <2>1. PICK M : M = MemOf(phys, LiveOf(mm_of))
    OBVIOUS
  <2>2. QED
    BY <1>1, <1>3, <2>1, SpaceIs DEF SpaceOf
<1>6. t = [s EXCEPT ![child] = s[p]]
  <2>a. PICK m : m = mm_of
    OBVIOUS
  <2>b. PICK o : o = mm_of'
    OBVIOUS
  <2>c. s = SpaceOf(m) /\ t = SpaceOf(o)
    BY <1>1, <1>2, <2>a, <2>b
  <2>1. /\ s = [q \in Tasks |-> s[q]] /\ t = [q \in Tasks |-> t[q]]
        /\ \A q \in Tasks : t[q] = IF o[q] = 0 THEN None ELSE o[q]
        /\ \A q \in Tasks : s[q] = IF m[q] = 0 THEN None ELSE m[q]
    BY <2>c, SpaceRows
  <2>2. \A q \in Tasks : o[q] = IF q = child THEN m[p] ELSE m[q]
    BY <1>3, <2>a, <2>b
  <2>3. \A q \in Tasks : t[q] = IF q = child THEN s[p] ELSE s[q]
    BY <1>3, <1>5, <2>1, <2>2, <2>a
  <2>4. QED
    BY <2>1, <2>3
<1>7. MemOf(phys', LiveOf(mm_of')) = MemOf(phys, LiveOf(mm_of))
  BY <1>4
<1>8. QED
  BY <1>1, <1>2, <1>5, <1>6, <1>7, SpacesAre, SpacesWillBe DEF Paging!VM!Clone

LEMMA ExitSeen ==
  ASSUME PagingInv, NEW p \in Tasks, Paging!Exit(p)
  PROVE  Paging!VM!Exit(p)
<1>1. PICK s : s = SpaceOf(mm_of)
  OBVIOUS
<1>2. PICK t : t = SpaceOf(mm_of')
  OBVIOUS
<1>3. PICK M : M = MemOf(phys, LiveOf(mm_of))
  OBVIOUS
<1>4. PICK N : N = MemOf(phys', LiveOf(mm_of'))
  OBVIOUS
<1>5. /\ mm_of[p] # 0 /\ mm_of' = Without(mm_of, p)
      /\ mm_of \in [Tasks -> Paging!Frames \cup {0}]
  BY DEF Paging!Exit, PagingInv, KeptBy, CountedIn, Without
<1>6. Same(phys, phys', LiveOf(mm_of'))
  BY ExitKeeps
<1>7. N = LeftIn(s, M, p)
  BY <1>1, <1>3, <1>4, <1>5, <1>6, MemLeft
<1>8. s[p] # None
  BY <1>1, <1>3, <1>5, SpaceIs
<1>9. t = [s EXCEPT ![p] = None]
  <2>a. PICK m : m = mm_of
    OBVIOUS
  <2>b. PICK o : o = mm_of'
    OBVIOUS
  <2>c. s = SpaceOf(m) /\ t = SpaceOf(o)
    BY <1>1, <1>2, <2>a, <2>b
  <2>1. /\ s = [q \in Tasks |-> s[q]] /\ t = [q \in Tasks |-> t[q]]
        /\ \A q \in Tasks : t[q] = IF o[q] = 0 THEN None ELSE o[q]
        /\ \A q \in Tasks : s[q] = IF m[q] = 0 THEN None ELSE m[q]
    BY <2>c, SpaceRows
  <2>2. \A q \in Tasks : o[q] = IF q = p THEN 0 ELSE m[q]
    BY <1>5, <2>a, <2>b DEF Without
  <2>3. \A q \in Tasks : t[q] = IF q = p THEN None ELSE s[q]
    BY <2>1, <2>2
  <2>4. QED
    BY <2>1, <2>3
<1>10. N = Paging!VM!Left(p)
  BY <1>1, <1>3, <1>7, LeftSeen
<1>11. QED
  BY <1>1, <1>2, <1>4, <1>8, <1>9, <1>10, SpacesAre, SpacesWillBe DEF Paging!VM!Exit

LEMMA NextSeen ==
  ASSUME PagingInv, Paging!Next
  PROVE  [Paging!VM!Next]_(Paging!VM!vars)
<1>1. CASE Paging!Panicked
  <2>1. phys' = phys /\ mm_of' = mm_of
    BY <1>1 DEF Paging!Panicked, Paging!vars
  <2>2. QED
    BY <2>1, NothingSeen
<1>2. CASE ~Paging!Panicked
  <2>1. PICK p \in Tasks :
           \/ \E a \in Paging!Pages, v \in Contents :
                 \/ Paging!Write(p, a, v)
                 \/ \E write \in BOOLEAN : Paging!Fault(p, a, write, v)
           \/ \E prog \in Programs, v \in Contents : Paging!Exec(p, prog, v)
           \/ \E child \in Tasks : Paging!Fork(p, child) \/ Paging!Clone(p, child)
           \/ Paging!Exit(p)
    BY <1>2, Zenon DEF Paging!Next
  <2>2. CASE \E a \in Paging!Pages, v \in Contents : Paging!Write(p, a, v)
    <3>1. PICK a \in Paging!Pages, v \in Contents : Paging!VM!Write(p, a, v)
      BY <2>2, WriteSeen
    <3>2. QED
      BY <3>1, Zenon DEF Paging!VM!Next
  <2>3. CASE \E a \in Paging!Pages, v \in Contents, write \in BOOLEAN :
                Paging!Fault(p, a, write, v)
    <3>1. PICK a \in Paging!Pages : Paging!VM!Touch(p, a) \/ UNCHANGED Paging!VM!vars
      BY <2>3, FaultSeen
    <3>2. QED
      BY <3>1, Zenon DEF Paging!VM!Next
  <2>4. CASE \E prog \in Programs, v \in Contents : Paging!Exec(p, prog, v)
    <3>1. (\E d \in Paging!Frames : Paging!VM!Exec(p, d)) \/ UNCHANGED Paging!VM!vars
      BY <2>4, ExecSeen
    <3>2. QED
      BY <3>1, Zenon DEF Paging!VM!Next
  <2>5. CASE \E child \in Tasks : Paging!Fork(p, child)
    <3>1. PICK child \in Tasks :
             \/ \E d \in Paging!Frames : Paging!VM!Fork(p, child, d)
             \/ UNCHANGED Paging!VM!vars
      BY <2>5, ForkSeen
    <3>2. QED
      BY <3>1, Zenon DEF Paging!VM!Next
  <2>6. CASE \E child \in Tasks : Paging!Clone(p, child)
    <3>1. PICK child \in Tasks : Paging!VM!Clone(p, child)
      BY <2>6, CloneSeen
    <3>2. QED
      BY <3>1, Zenon DEF Paging!VM!Next
  <2>7. CASE Paging!Exit(p)
    <3>1. Paging!VM!Exit(p)
      BY <2>7, ExitSeen
    <3>2. QED
      BY <3>1, Zenon DEF Paging!VM!Next
  <2>8. QED
    BY <2>1, <2>2, <2>3, <2>4, <2>5, <2>6, <2>7, Zenon
<1>3. QED
  BY <1>1, <1>2

LEMMA NothingShown ==
  ASSUME Paging!Init
  PROVE  Paging!VM!Init
<1>1. mm_of = [p \in Tasks |-> 0]
  BY DEF Paging!Init
<1>2. LiveOf(mm_of) = {}
  BY <1>1 DEF LiveOf
<1>3. SpaceOf(mm_of) = [p \in Tasks |-> None]
  BY <1>1 DEF SpaceOf
<1>4. MemOf(phys, LiveOf(mm_of)) =
         [d \in Paging!Frames |-> [a \in Paging!Pages |-> None]]
  BY <1>2, ShownIs DEF MemOf, Seen
<1>5. QED
  BY <1>3, <1>4, SpacesAre DEF Paging!VM!Init, Paging!VM!Empty

\* Processes that share no mm share no page: what the frames and page tables
\* show of a process is changed by the writes of those in its space alone, a
\* fork copies it and an exec begins anew, in every step of Paging (page_insert,
\* copy_range, exit_mmap, do_pgfault, load_icode).
THEOREM MemoryStaysPrivate == PagingHeapSpec => MemoryIsPrivate
<1>1. PagingHeapInit => (running = "paging" => Paging!VM!Init)
  BY NothingShown DEF PagingHeapInit
<1>2. PagingPart /\ [PagingHeapNext]_pagingheapvars =>
         (running = "paging" => [Paging!VM!Next]_(Paging!VM!vars))
  <2> SUFFICES ASSUME PagingPart, [PagingHeapNext]_pagingheapvars, running = "paging"
               PROVE  [Paging!VM!Next]_(Paging!VM!vars)
    OBVIOUS
  <2>1. CASE PagingStep
    BY <2>1, NextSeen DEF PagingStep, PagingPart
  <2>2. CASE SlobStep
    BY <2>2 DEF SlobStep
  <2>3. CASE UNCHANGED pagingheapvars
    <3>1. phys' = phys /\ mm_of' = mm_of
      BY <2>3 DEF pagingheapvars, pagingvars
    <3>2. QED
      BY <3>1, NothingSeen
  <2>4. QED
    BY <2>1, <2>2, <2>3 DEF PagingHeapNext
<1>3. QED
  BY <1>1, <1>2, PagingInit, PagingNext, PTL DEF PagingHeapSpec, MemoryIsPrivate
=============================================================================
