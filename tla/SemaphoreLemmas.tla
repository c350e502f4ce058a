-------------------------- MODULE SemaphoreLemmas --------------------------
(***************************************************************************)
(* Lemmas about Sched and Semaphore, for whatever runs on them: what       *)
(* schedule() and wakeup_proc keep of the run list, and what up() and      *)
(* down() keep of the wait queues.  The proofs of SemaphoreUse and         *)
(* Philosophers rest on them, and those of Stdin on the part about Sched.  *)
(***************************************************************************)
EXTENDS Semaphore, SequenceLemmas

States == {"RUNNABLE", "SLEEPING", "ZOMBIE"}
Waits  == {"none", "WT_KSEM", "WT_TIMER"}

\* The scheduler's part of an invariant: a process sleeps exactly while it
\* waits for something, what runs is runnable, and the run list is exact.
SchedInv ==
    /\ SchedTypeOK
    /\ wait_state \in [Everyone -> Waits]
    /\ \A p \in Everyone : state[p] = "SLEEPING" <=> wait_state[p] # "none"
    /\ state[current] = "RUNNABLE"
    /\ state[idleproc] = "RUNNABLE"
    /\ RunListExact
    /\ panicked = "no"

\* What schedule() and wakeup_proc keep by themselves, whatever the processes
\* wait for: idle can run, the run list is exact and no assertion has failed.
SchedCore ==
    /\ SchedTypeOK
    /\ state[idleproc] = "RUNNABLE"
    /\ RunListExact
    /\ panicked = "no"

LEMMA InvHasCore == SchedInv => SchedCore
BY DEF SchedInv, SchedCore

\* What RR_enqueue makes of the slices are slices.
LEMMA SlicesKeepType ==
  ASSUME SchedTypeOK, NEW set
  PROVE  Refilled(set) \in [Procs -> 0 .. MAX_TIME_SLICE]
BY SchedAssumption DEF SchedTypeOK, Refilled, Refill

\* A run list that holds everybody once, while idle runs.
LEMMA SchedStarts == SchedInit => SchedInv /\ \A p \in Procs : wait_state[p] = "none"
<1> SUFFICES ASSUME SchedInit
             PROVE  SchedInv /\ \A p \in Procs : wait_state[p] = "none"
  OBVIOUS
<1> USE SchedAssumption
<1>1. run_list \in Seq(Procs) /\ ToSet(run_list) = Procs
  <2>1. Cardinality(Procs) \in Nat
    BY FS_CardinalityType
  <2>2. run_list \in [1 .. Cardinality(Procs) -> Procs] /\ IsInjective(run_list)
    BY DEF SchedInit
  <2>3. run_list \in Injection(1 .. Cardinality(Procs), Procs)
    BY <2>2 DEF Injection
  <2>4. /\ IsFiniteSet(1 .. Cardinality(Procs))
        /\ Cardinality(1 .. Cardinality(Procs)) = Cardinality(Procs)
    <3>1. /\ 1 \in Int /\ Cardinality(Procs) \in Int
          /\ Cardinality(1 .. Cardinality(Procs))
               = IF 1 > Cardinality(Procs) THEN 0
                 ELSE Cardinality(Procs) - 1 + 1
      BY <2>1, FS_Interval
    <3>2. QED
      BY <2>1, <3>1, FS_Interval
  <2>5. run_list \in Surjection(1 .. Cardinality(Procs), Procs)
    BY <2>3, <2>4, FS_Injection
  <2>6. \A p \in Procs : \E i \in 1 .. Cardinality(Procs) : run_list[i] = p
    BY <2>5 DEF Surjection
  <2>7. DOMAIN run_list = 1 .. Cardinality(Procs)
    BY <2>2
  <2>8. run_list \in Seq(Procs)
    BY <2>1, <2>2
  <2>9. QED
    BY <2>2, <2>6, <2>7, <2>8 DEF ToSet
<1>2. /\ current = idleproc
      /\ state = [p \in Everyone |-> "RUNNABLE"]
      /\ wait_state = [p \in Everyone |-> "none"]
      /\ time_slice = [p \in Procs |-> MAX_TIME_SLICE]
      /\ need_resched = [p \in Everyone |-> p = idleproc]
      /\ panicked = "no"
      /\ IsInjective(run_list)
  BY DEF SchedInit
<1>3. Procs \subseteq Everyone /\ idleproc \in Everyone
  BY DEF Everyone
<1>4. SchedTypeOK
  BY <1>1, <1>2, <1>3 DEF SchedTypeOK
<1>5. RunListExact
  BY <1>1, <1>2, <1>3 DEF RunListExact
<1>6. QED
  BY <1>2, <1>3, <1>4, <1>5 DEF SchedInv, Waits

\* schedule() keeps it, whatever the running process has just become: it goes
\* to the end of the run list or stays away, and the first one is taken.
LEMMA ScheduleKeepsCore ==
  ASSUME SchedCore,
         NEW st \in [Everyone -> States], NEW ws,
         \A p \in Everyone : p # current => st[p] = state[p],
         st[idleproc] = "RUNNABLE",
         Schedule(st, ws)
  PROVE  /\ SchedCore' /\ state' = st /\ wait_state' = ws
         /\ current' \in Everyone /\ st[current'] = "RUNNABLE"
<1> USE SchedAssumption
<1> DEFINE list == IF Requeues(st) THEN Append(run_list, current) ELSE run_list
           ready == {p \in Procs : st[p] = "RUNNABLE"}
<1>1. /\ run_list \in Seq(Procs)
      /\ IsInjective(run_list)
      /\ ToSet(run_list) = {p \in Procs \ {current} : state[p] = "RUNNABLE"}
      /\ current \in Everyone
  BY DEF SchedCore, SchedTypeOK, RunListExact
<1>2. Procs \subseteq Everyone /\ idleproc \in Everyone
  BY DEF Everyone
<1>3. list \in Seq(Procs) /\ IsInjective(list) /\ ToSet(list) = ready
  <2>1. CASE Requeues(st)
    <3>1. /\ current \in Procs
          /\ st[current] = "RUNNABLE"
          /\ current \notin ToSet(run_list)
      BY <1>1, <2>1 DEF Requeues, Everyone
    <3>2. /\ list \in Seq(Procs)
          /\ IsInjective(list)
          /\ ToSet(list) = ToSet(run_list) \cup {current}
      BY <1>1, <2>1, <3>1, AppendSet
    <3>3. ToSet(run_list) \cup {current} = ready
      BY <1>1, <1>2, <3>1
    <3>4. QED
      BY <3>2, <3>3
  <2>2. CASE ~Requeues(st)
    <3>1. current \notin ready
      BY <2>2 DEF Requeues
    <3>2. ToSet(run_list) = ready
      BY <1>1, <1>2, <3>1
    <3>3. QED
      BY <1>1, <2>2, <3>2
  <2>3. QED
    BY <2>1, <2>2
<1>4. state' = st /\ wait_state' = ws
  BY DEF Schedule
<1>5. /\ IF list = <<>>
         THEN current' = idleproc /\ run_list' = <<>>
         ELSE current' = list[1] /\ run_list' = RemoveAt(list, 1)
      /\ time_slice' = Refilled(IF Requeues(st) THEN {current} ELSE {})
      /\ need_resched' = [need_resched EXCEPT ![current] = FALSE]
      /\ panicked' = IF Requeues(st) /\ current \in ToSet(run_list)
                     THEN "enqueued twice" ELSE panicked
  BY DEF Schedule, PickNext
<1> HIDE DEF list
<1>6. /\ current' \in Everyone
      /\ run_list' \in Seq(Procs)
      /\ IsInjective(run_list')
      /\ ToSet(run_list') = ready \ {current'}
      /\ st[current'] = "RUNNABLE"
  <2>1. CASE list = <<>>
    <3>1. ready = {} /\ ToSet(<<>>) = {} /\ IsInjective(<<>>)
      BY <1>3, <2>1 DEF ToSet, IsInjective
    <3>2. QED
      BY <1>2, <1>3, <1>5, <2>1, <3>1
  <2>2. CASE list # <<>>
    <3>1. 1 \in 1 .. Len(list) /\ DOMAIN list = 1 .. Len(list)
      BY <1>3, <2>2
    <3>2. list[1] \in ready
      BY <1>3, <3>1 DEF ToSet
    <3>3. /\ RemoveAt(list, 1) \in Seq(Procs)
          /\ ToSet(RemoveAt(list, 1)) = ToSet(list) \ {list[1]}
          /\ IsInjective(RemoveAt(list, 1))
      BY <1>3, <3>1, RemoveSet
    <3>4. QED
      BY <1>2, <1>3, <1>5, <2>2, <3>2, <3>3
  <2>3. QED
    BY <2>1, <2>2
<1>7. time_slice' \in [Procs -> 0 .. MAX_TIME_SLICE]
  BY <1>5, SlicesKeepType DEF SchedCore
<1>8. need_resched' \in [Everyone -> BOOLEAN]
  BY <1>5 DEF SchedCore, SchedTypeOK
<1>9. panicked' = "no"
  BY <1>1, <1>5 DEF SchedCore, Requeues
<1>10. RunListExact'
  BY <1>4, <1>6 DEF RunListExact
<1>11. QED
  BY <1>4, <1>6, <1>7, <1>8, <1>9, <1>10 DEF SchedCore, SchedTypeOK, States

LEMMA ScheduleKeeps ==
  ASSUME SchedInv,
         NEW st \in [Everyone -> States], NEW ws \in [Everyone -> Waits],
         \A p \in Everyone : st[p] = "SLEEPING" <=> ws[p] # "none",
         \A p \in Everyone : p # current => st[p] = state[p],
         st[idleproc] = "RUNNABLE",
         Schedule(st, ws)
  PROVE  SchedInv' /\ state' = st /\ wait_state' = ws
<1>1. /\ SchedCore' /\ state' = st /\ wait_state' = ws
      /\ st[current'] = "RUNNABLE"
  BY InvHasCore, ScheduleKeepsCore
<1>2. QED
  BY <1>1 DEF SchedCore, SchedInv

\* wakeup_proc of a sleeper keeps it, whatever the tick does to the slices:
\* one that has not called schedule() yet is current and stays off the list.
LEMMA WakeupKeepsCore ==
  ASSUME SchedCore, NEW p \in Procs, state[p] = "SLEEPING", WakeupProc(p),
         time_slice' \in [Procs -> 0 .. MAX_TIME_SLICE],
         need_resched' \in [Everyone -> BOOLEAN], current' = current
  PROVE  /\ SchedCore'
         /\ state' = [state EXCEPT ![p] = "RUNNABLE"]
         /\ wait_state' = [wait_state EXCEPT ![p] = "none"]
<1> USE SchedAssumption
<1>1. /\ run_list \in Seq(Procs)
      /\ IsInjective(run_list)
      /\ ToSet(run_list) = {q \in Procs \ {current} : state[q] = "RUNNABLE"}
      /\ current \in Everyone
      /\ state \in [Everyone -> States]
  BY DEF SchedCore, SchedTypeOK, RunListExact, States
<1>2. p \in Everyone /\ Procs \subseteq Everyone
  BY DEF Everyone
<1>3. p \notin ToSet(run_list)
  BY <1>1
<1>4. /\ state' = [state EXCEPT ![p] = "RUNNABLE"]
      /\ wait_state' = [wait_state EXCEPT ![p] = "none"]
      /\ run_list' = IF p # current THEN Append(run_list, p) ELSE run_list
      /\ panicked' = panicked
  BY <1>3 DEF WakeupProc, Enqueues
<1>5. /\ run_list' \in Seq(Procs)
      /\ IsInjective(run_list')
      /\ ToSet(run_list') = ToSet(run_list) \cup ({p} \ {current})
  <2>1. CASE p = current
    BY <1>1, <1>4, <2>1
  <2>2. CASE p # current
    BY <1>1, <1>3, <1>4, <2>2, AppendSet
  <2>3. QED
    BY <2>1, <2>2
<1>6. RunListExact'
  <2>1. ToSet(run_list') = {q \in Procs \ {current} : state'[q] = "RUNNABLE"}
    BY <1>1, <1>2, <1>4, <1>5
  <2>2. QED
    BY <1>5, <2>1 DEF RunListExact
<1>7. state' \in [Everyone -> States] /\ state'[idleproc] = "RUNNABLE"
  BY <1>1, <1>2, <1>4 DEF States, SchedCore
<1>8. QED
  BY <1>1, <1>4, <1>5, <1>6, <1>7 DEF SchedCore, SchedTypeOK, States

LEMMA WakeupKeeps ==
  ASSUME SchedInv, NEW p \in Procs, wait_state[p] # "none", WakeupProc(p),
         time_slice' \in [Procs -> 0 .. MAX_TIME_SLICE],
         need_resched' \in [Everyone -> BOOLEAN], current' = current
  PROVE  /\ SchedInv'
         /\ wait_state' = [wait_state EXCEPT ![p] = "none"]
<1>1. /\ p \in Everyone /\ current \in Everyone
      /\ state \in [Everyone -> States]
      /\ wait_state \in [Everyone -> Waits]
  BY DEF SchedInv, SchedTypeOK, States, Everyone
<1>2. state[p] = "SLEEPING"
  BY <1>1 DEF SchedInv
<1>3. /\ SchedCore'
      /\ state' = [state EXCEPT ![p] = "RUNNABLE"]
      /\ wait_state' = [wait_state EXCEPT ![p] = "none"]
  BY <1>2, InvHasCore, WakeupKeepsCore
<1>4. \A q \in Everyone : state'[q] = "SLEEPING" <=> wait_state'[q] # "none"
  BY <1>1, <1>3 DEF SchedInv
<1>5. wait_state' \in [Everyone -> Waits] /\ state'[current] = "RUNNABLE"
  BY <1>1, <1>3 DEF SchedInv, Waits
<1>6. QED
  BY <1>3, <1>4, <1>5 DEF SchedCore, SchedInv

\* One turn of Queued.
QueuedStep(list, p) == IF Enqueues(p) THEN Append(list, p) ELSE list

\* Queued as a run: it looks at the processes one by one.
LEMMA QueuedRun ==
  ASSUME NEW ps \in Seq(Procs)
  PROVE  \E g \in [0 .. Len(ps) -> Seq(Procs)] :
            /\ g[0] = <<>>
            /\ g[Len(ps)] = Queued(ps)
            /\ \A i \in 1 .. Len(ps) : g[i] = QueuedStep(g[i - 1], ps[i])
<1> DEFINE N == Len(ps)
           X == Seq(Procs)
           F == [i \in 1 .. N |-> [list \in X |-> QueuedStep(list, ps[i])]]
           iter == CHOOSE it : it = [s \in SUBSET (1 .. N) |->
                      IF s = {} THEN <<>>
                      ELSE QueuedStep(it[s \ {Max(s)}], ps[Max(s)])]
<1>1. N \in Nat /\ DOMAIN ps = 1 .. N /\ \A i \in 1 .. N : ps[i] \in Procs
  OBVIOUS
<1>2. F \in [1 .. N -> [X -> X]]
  <2>1. \A i \in 1 .. N : \A list \in X : QueuedStep(list, ps[i]) \in X
    BY <1>1 DEF QueuedStep
  <2> HIDE DEF N, X
  <2>2. QED
    BY <2>1
<1>3. <<>> \in X
  OBVIOUS
<1>4. Queued(ps) = iter[1 .. N]
  BY <1>1 DEF Queued, FoldLeft, MapThenFoldSet, QueuedStep, Max
<1> HIDE DEF X, N
<1>5. iter = [s \in SUBSET (1 .. N) |->
                 IF s = {} THEN <<>>
                 ELSE QueuedStep(iter[s \ {Max(s)}], ps[Max(s)])]
  <2>1. PICK it \in [SUBSET (1 .. N) -> X] : IsFold(it, N, <<>>, F)
    <3> HIDE DEF F
    <3>1. QED
      BY <1>1, <1>2, <1>3, FoldExists
  <2>2. ASSUME NEW s \in SUBSET (1 .. N), s # {}
        PROVE  F[Max(s)][it[s \ {Max(s)}]]
                  = QueuedStep(it[s \ {Max(s)}], ps[Max(s)])
    <3>1. Max(s) \in 1 .. N
      BY <1>1, <2>2, MaxInSet
    <3>2. it[s \ {Max(s)}] \in X
      OBVIOUS
    <3>3. QED
      BY <3>1, <3>2
  <2>3. it = [s \in SUBSET (1 .. N) |->
                 IF s = {} THEN <<>>
                 ELSE QueuedStep(it[s \ {Max(s)}], ps[Max(s)])]
    <3> HIDE DEF F
    <3>1. QED
      BY <2>1, <2>2 DEF IsFold
  <2>4. QED
    BY <2>3
<1>6. FoldsWithin(iter, N, X, <<>>, F)
  <2>1. iter[{}] = <<>>
    <3> HIDE DEF iter
    <3>1. QED
      BY <1>5
  <2>2. ASSUME NEW s \in SUBSET (1 .. N), s # {}, iter[s \ {Max(s)}] \in X
        PROVE  iter[s] = F[Max(s)][iter[s \ {Max(s)}]]
    <3>1. Max(s) \in 1 .. N
      BY <1>1, <2>2, MaxInSet
    <3> HIDE DEF iter
    <3>2. iter[s] = QueuedStep(iter[s \ {Max(s)}], ps[Max(s)])
      BY <1>5, <2>2
    <3>3. QED
      BY <2>2, <3>1, <3>2
  <2> HIDE DEF iter, F
  <2>3. QED
    BY <2>1, <2>2 DEF FoldsWithin
<1>7. PICK g \in [0 .. N -> X] : IsRun(g, iter, N, <<>>, F)
  <2> HIDE DEF iter, F
  <2>1. QED
    BY <1>1, <1>2, <1>3, <1>6, FoldPrefixes
<1>8. ASSUME NEW i \in 1 .. N
      PROVE  g[i] = QueuedStep(g[i - 1], ps[i])
  <2>1. i - 1 \in 0 .. N
    BY <1>1
  <2>2. g[i - 1] \in X
    BY <2>1
  <2>3. g[i] = F[i][g[i - 1]]
    <3> HIDE DEF F, iter
    <3>1. QED
      BY <1>7 DEF IsRun
  <2>4. QED
    BY <2>2, <2>3
<1>9. g[0] = <<>> /\ g[N] = Queued(ps)
  <2> HIDE DEF F, iter
  <2>1. QED
    BY <1>4, <1>7 DEF IsRun
<1>10. QED
  BY <1>8, <1>9 DEF X, N

\* What Queued leaves are the sleepers among the processes of the list.
LEMMA QueuedProperties ==
  ASSUME NEW ps \in Seq(Procs), IsInjective(ps)
  PROVE  /\ Queued(ps) \in Seq(Procs)
         /\ IsInjective(Queued(ps))
         /\ ToSet(Queued(ps)) = {p \in ToSet(ps) : Enqueues(p)}
<1> DEFINE N == Len(ps)
           Among(i) == {ps[j] : j \in 1 .. i}
<1>1. /\ N \in Nat /\ DOMAIN ps = 1 .. N
      /\ \A i \in 1 .. N : ps[i] \in Procs
      /\ \A i, j \in 1 .. N : ps[i] = ps[j] => i = j
  BY DEF IsInjective
<1>2. PICK g \in [0 .. N -> Seq(Procs)] :
            /\ g[0] = <<>>
            /\ g[N] = Queued(ps)
            /\ \A i \in 1 .. N : g[i] = QueuedStep(g[i - 1], ps[i])
  BY QueuedRun
<1> DEFINE Good(i) == /\ IsInjective(g[i])
                      /\ ToSet(g[i]) = {p \in Among(i) : Enqueues(p)}
           S == {i \in 0 .. N : Good(i)}
<1> HIDE DEF N
<1>3. 0 \in S
  <2>1. Among(0) = {}
    OBVIOUS
  <2>2. IsInjective(<<>>) /\ ToSet(<<>>) = {}
    BY DEF IsInjective, ToSet
  <2>3. QED
    BY <1>1, <1>2, <2>1, <2>2
<1>4. ASSUME NEW i \in 0 .. N, i < N, i \in S
      PROVE  i + 1 \in S
  <2>0. g[i] \in Seq(Procs) /\ Good(i)
    BY <1>4
  <2>1. i + 1 \in 1 .. N /\ i + 1 \in 0 .. N /\ (i + 1) - 1 = i
    <3>1. N \in Nat
      BY <1>1
    <3>2. QED
      BY <1>4, <3>1
  <2>2. g[i + 1] = QueuedStep(g[i], ps[i + 1])
    BY <1>2, <2>1
  <2>3. Among(i + 1) = Among(i) \cup {ps[i + 1]}
    BY <2>1
  <2>4. ps[i + 1] \in Procs /\ ps[i + 1] \notin Among(i)
    <3>1. \A j \in 1 .. i : j \in 1 .. N /\ j # i + 1
      BY <1>1, <2>1
    <3>2. QED
      BY <1>1, <2>1, <3>1
  <2> HIDE DEF Among
  <2>5. CASE Enqueues(ps[i + 1])
    <3>1. g[i + 1] = Append(g[i], ps[i + 1])
      BY <2>2, <2>5 DEF QueuedStep
    <3>2. ps[i + 1] \notin ToSet(g[i])
      BY <2>0, <2>4
    <3>3. /\ IsInjective(g[i + 1])
          /\ ToSet(g[i + 1]) = ToSet(g[i]) \cup {ps[i + 1]}
      BY <2>0, <2>4, <3>1, <3>2, AppendSet
    <3>4. QED
      BY <2>0, <2>1, <2>3, <2>5, <3>3
  <2>6. CASE ~Enqueues(ps[i + 1])
    <3>1. g[i + 1] = g[i]
      BY <2>2, <2>6 DEF QueuedStep
    <3>2. QED
      BY <2>0, <2>1, <2>3, <2>6, <3>1
  <2>7. QED
    BY <2>5, <2>6
<1>5. 0 .. N \subseteq S
  <2>1. N \in Nat
    BY <1>1
  <2> HIDE DEF S
  <2>2. QED
    BY <2>1, <1>3, <1>4, IntervalInduction
<1>6. N \in 0 .. N /\ Good(N) /\ Among(N) = ToSet(ps)
  <2>1. N \in 0 .. N
    BY <1>1
  <2>2. Good(N)
    <3> HIDE DEF Good
    <3> QED BY <1>5, <2>1
  <2>3. Among(N) = ToSet(ps)
    BY <1>1 DEF ToSet
  <2>4. QED
    BY <2>1, <2>2, <2>3
<1> HIDE DEF Among
<1>7. QED
  BY <1>2, <1>6

\* wakeup_proc of several sleepers in turn keeps it; those that have been
\* woken before are left alone.
LEMMA WakeupsKeepCore ==
  ASSUME SchedCore, NEW ps \in Seq(Procs), IsInjective(ps),
         \A p \in ToSet(ps) : state[p] # "ZOMBIE",
         WakeupProcs(ps),
         time_slice' \in [Procs -> 0 .. MAX_TIME_SLICE],
         need_resched' \in [Everyone -> BOOLEAN], current' = current
  PROVE  /\ SchedCore'
         /\ state' = [p \in Everyone |-> IF p \in ToSet(ps) THEN "RUNNABLE"
                                         ELSE state[p]]
         /\ wait_state' = [p \in Everyone |->
                              IF p \in ToSet(ps) /\ state[p] # "RUNNABLE"
                              THEN "none" ELSE wait_state[p]]
<1> USE SchedAssumption
<1> DEFINE new == Queued(ps)
<1>1. /\ run_list \in Seq(Procs)
      /\ IsInjective(run_list)
      /\ ToSet(run_list) = {q \in Procs \ {current} : state[q] = "RUNNABLE"}
      /\ current \in Everyone
      /\ state \in [Everyone -> States]
  BY DEF SchedCore, SchedTypeOK, RunListExact, States
<1>2. Procs \subseteq Everyone /\ idleproc \in Everyone /\ ToSet(ps) \subseteq Procs
  BY DEF Everyone, ToSet
<1>3. /\ new \in Seq(Procs)
      /\ IsInjective(new)
      /\ ToSet(new) = {p \in ToSet(ps) : state[p] # "RUNNABLE" /\ p # current}
  BY QueuedProperties DEF Enqueues
<1>4. \A q \in ToSet(run_list) : q \notin ToSet(new)
  BY <1>1, <1>3
<1>5. /\ state' = [p \in Everyone |-> IF p \in ToSet(ps) THEN "RUNNABLE"
                                       ELSE state[p]]
      /\ wait_state' = [p \in Everyone |->
                            IF p \in ToSet(ps) /\ state[p] # "RUNNABLE"
                            THEN "none" ELSE wait_state[p]]
      /\ run_list' = run_list \o new
      /\ panicked' = panicked
  <2>1. ToSet(new) \cap ToSet(run_list) = {}
    BY <1>4
  <2>2. QED
    BY <2>1 DEF WakeupProcs
<1> HIDE DEF new
<1>6. /\ run_list' \in Seq(Procs)
      /\ IsInjective(run_list')
      /\ ToSet(run_list') = ToSet(run_list) \cup ToSet(new)
  <2>1. /\ run_list \o new \in Seq(Procs)
        /\ IsInjective(run_list \o new)
        /\ ToSet(run_list \o new) = ToSet(run_list) \cup ToSet(new)
    BY <1>1, <1>3, <1>4, ConcatSet
  <2>2. QED
    BY <1>5, <2>1
<1>7. RunListExact'
  <2>1. ToSet(run_list') = {q \in Procs \ {current} : state'[q] = "RUNNABLE"}
    BY <1>1, <1>2, <1>3, <1>5, <1>6
  <2>2. QED
    BY <1>6, <2>1 DEF RunListExact
<1>8. state' \in [Everyone -> States] /\ state'[idleproc] = "RUNNABLE"
  BY <1>1, <1>2, <1>5 DEF States, SchedCore
<1>9. QED
  BY <1>1, <1>5, <1>6, <1>7, <1>8 DEF SchedCore, SchedTypeOK, States

\* What RR_proc_tick makes of the slices are slices, too.
LEMMA ProcTickKeepsType ==
  ASSUME SchedTypeOK, NEW slices \in [Procs -> 0 .. MAX_TIME_SLICE],
         ProcTick(slices)
  PROVE  /\ time_slice' \in [Procs -> 0 .. MAX_TIME_SLICE]
         /\ need_resched' \in [Everyone -> BOOLEAN]
<1>1. CASE current = idleproc
  BY <1>1 DEF ProcTick, SchedTypeOK, Everyone
<1>2. CASE current # idleproc
  <2>1. current \in Procs /\ slices[current] \in 0 .. MAX_TIME_SLICE
    BY <1>2 DEF SchedTypeOK, Everyone
  <2>2. (IF slices[current] > 0 THEN slices[current] - 1 ELSE 0)
           \in 0 .. MAX_TIME_SLICE
    BY <2>1, SchedAssumption
  <2>3. QED
    BY <1>2, <2>1, <2>2 DEF ProcTick, SchedTypeOK, Everyone
<1>3. QED
  BY <1>1, <1>2
-----------------------------------------------------------------------------
\* The semaphores' part of an invariant: nobody waits twice, who waits sleeps,
\* and nobody waits for a semaphore that is free.
SemInv ==
    /\ SemTypeOK
    /\ \A s \in Sems : IsInjective(wait_queue[s])
    /\ \A s, t \in Sems : s # t =>
          ToSet(wait_queue[s]) \cap ToSet(wait_queue[t]) = {}
    /\ WaitersSleep
    /\ NobodyWaitsForFree

\* In terms of a single process: it waits if and only if some queue holds it.
LEMMA QueuedIffWaiting ==
  ASSUME SemInv, NEW p \in Procs
  PROVE  wait_state[p] = "WT_KSEM"
            <=> \E s \in Sems : p \in ToSet(wait_queue[s])
BY DEF SemInv, WaitersSleep

\* New semaphores, for which nobody waits.
LEMMA SemStarts ==
  ASSUME SchedInv, \A p \in Procs : wait_state[p] = "none",
         NEW initial \in [Sems -> Nat], SemInit(initial)
  PROVE  SemInv
<1>1. /\ value = initial
      /\ wait_queue = [s \in Sems |-> <<>>]
      /\ wakeup_flags = [p \in Procs |-> "WT_INTERRUPTED"]
  BY DEF SemInit
<1>2. SemTypeOK
  BY <1>1 DEF SemTypeOK
<1>3. \A s \in Sems : wait_queue[s] = <<>> /\ ToSet(wait_queue[s]) = {}
                     /\ IsInjective(wait_queue[s])
  BY <1>1 DEF ToSet, IsInjective
<1>4. WaitersSleep
  BY <1>3 DEF WaitersSleep
<1>5. QED
  BY <1>2, <1>3, <1>4 DEF SemInv, NobodyWaitsForFree

\* Steps that leave the semaphores alone, and those who wait for them.
LEMMA OthersKeepSemInv ==
  ASSUME SemInv, SchedInv', UNCHANGED semvars,
         \A p \in Procs :
            wait_state'[p] = "WT_KSEM" <=> wait_state[p] = "WT_KSEM"
  PROVE  SemInv'
<1>1. SemTypeOK'
  BY DEF SemInv, SemTypeOK, semvars
<1>2. \A p \in Procs : wait_state'[p] = "WT_KSEM"
            <=> \E s \in Sems : p \in ToSet(wait_queue'[s])
  BY QueuedIffWaiting DEF semvars
<1>3. WaitersSleep'
  <2>1. \A p \in Procs : wait_state'[p] = "WT_KSEM" => state'[p] = "SLEEPING"
    BY DEF SchedInv, Everyone
  <2>2. {p \in Procs : wait_state'[p] = "WT_KSEM"}
           = {p \in Procs : wait_state[p] = "WT_KSEM"}
    OBVIOUS
  <2>3. QED
    BY <2>1, <2>2 DEF WaitersSleep, SemInv, semvars
<1>4. QED
  BY <1>1, <1>3 DEF SemInv, NobodyWaitsForFree, semvars

\* up() when nobody waits.
LEMMA UpCounts ==
  ASSUME SchedInv, SemInv, NEW s \in Sems, wait_queue[s] = <<>>, Up(s)
  PROVE  /\ SchedInv' /\ SemInv'
         /\ value' = [value EXCEPT ![s] = value[s] + 1]
         /\ UNCHANGED <<wait_queue, wakeup_flags, schedvars>>
<1>1. /\ value' = [value EXCEPT ![s] = value[s] + 1]
      /\ UNCHANGED <<wait_queue, wakeup_flags, schedvars>>
  BY DEF Up
<1>2. SchedInv'
  BY <1>1 DEF SchedInv, SchedTypeOK, RunListExact, schedvars
<1>3. SemInv'
  BY <1>1 DEF SemInv, SemTypeOK, WaitersSleep, NobodyWaitsForFree, schedvars
<1>4. QED
  BY <1>1, <1>2, <1>3

\* up() when somebody does: the first waiter leaves the queue, awake, and the
\* count stays as it is.
LEMMA UpHandsOver ==
  ASSUME SchedInv, SemInv, NEW s \in Sems, wait_queue[s] # <<>>, Up(s),
         NEW p, p = wait_queue[s][1]
  PROVE  /\ p \in Procs /\ p \in ToSet(wait_queue[s])
         /\ SchedInv' /\ SemInv'
         /\ UNCHANGED <<value, current>>
         /\ wait_queue' = [wait_queue EXCEPT ![s] = RemoveAt(wait_queue[s], 1)]
         /\ ToSet(wait_queue'[s]) = ToSet(wait_queue[s]) \ {p}
         /\ wakeup_flags' = [wakeup_flags EXCEPT ![p] = "WT_KSEM"]
         /\ wait_state' = [wait_state EXCEPT ![p] = "none"]
<1>1. /\ wait_queue \in [Sems -> Seq(Procs)]
      /\ wait_queue[s] \in Seq(Procs)
      /\ IsInjective(wait_queue[s])
      /\ value \in [Sems -> Nat]
      /\ wakeup_flags \in [Procs -> {"WT_INTERRUPTED", "WT_KSEM"}]
  BY DEF SemInv, SemTypeOK
<1>2. 1 \in 1 .. Len(wait_queue[s]) /\ DOMAIN wait_queue[s] = 1 .. Len(wait_queue[s])
  BY <1>1
<1>3. p \in Procs /\ p \in ToSet(wait_queue[s])
  <2>1. wait_queue[s][1] \in Procs
    BY <1>1, <1>2
  <2>2. wait_queue[s][1] \in ToSet(wait_queue[s])
    BY <1>2 DEF ToSet
  <2>3. QED
    BY <2>1, <2>2
<1>4. wait_state[p] = "WT_KSEM"
  BY <1>3, QueuedIffWaiting
<1>5. /\ wait_queue' = [wait_queue EXCEPT ![s] = RemoveAt(wait_queue[s], 1)]
      /\ wakeup_flags' = [wakeup_flags EXCEPT ![p] = "WT_KSEM"]
      /\ WakeupProc(p)
      /\ time_slice' = Refilled(Enqueued(p))
      /\ value' = value
      /\ current' = current /\ need_resched' = need_resched
  BY <1>4 DEF Up, FirstWaiter, HandOver
<1>6. SchedInv' /\ wait_state' = [wait_state EXCEPT ![p] = "none"]
  <2>1. time_slice' \in [Procs -> 0 .. MAX_TIME_SLICE]
    BY <1>5, SlicesKeepType DEF SchedInv
  <2>2. need_resched' \in [Everyone -> BOOLEAN]
    BY <1>5 DEF SchedInv, SchedTypeOK
  <2>3. QED
    BY <1>3, <1>4, <1>5, <2>1, <2>2, WakeupKeeps
<1>7. /\ RemoveAt(wait_queue[s], 1) \in Seq(Procs)
      /\ ToSet(RemoveAt(wait_queue[s], 1)) = ToSet(wait_queue[s]) \ {p}
      /\ IsInjective(RemoveAt(wait_queue[s], 1))
  BY <1>1, <1>2, RemoveSet
<1>8. /\ wait_queue'[s] = RemoveAt(wait_queue[s], 1)
      /\ \A t \in Sems : t # s => wait_queue'[t] = wait_queue[t]
      /\ wait_queue' \in [Sems -> Seq(Procs)]
  BY <1>1, <1>5, <1>7
<1>9. ToSet(wait_queue'[s]) = ToSet(wait_queue[s]) \ {p}
  BY <1>7, <1>8
<1>10. SemTypeOK'
  BY <1>1, <1>3, <1>5, <1>8 DEF SemTypeOK
<1>11. \A t, u \in Sems : t # u =>
          ToSet(wait_queue'[t]) \cap ToSet(wait_queue'[u]) = {}
  BY <1>8, <1>9 DEF SemInv
<1>12. \A q \in Procs : wait_state'[q] = "WT_KSEM"
            <=> \E t \in Sems : q \in ToSet(wait_queue'[t])
  <2> SUFFICES ASSUME NEW q \in Procs
               PROVE  wait_state'[q] = "WT_KSEM"
                         <=> \E t \in Sems : q \in ToSet(wait_queue'[t])
    OBVIOUS
  <2>1. wait_state \in [Everyone -> Waits] /\ q \in Everyone /\ p \in Everyone
    BY <1>3 DEF SchedInv, Everyone
  <2>2. CASE q = p
    <3>1. \A t \in Sems : p \notin ToSet(wait_queue'[t])
      BY <1>3, <1>8, <1>9 DEF SemInv
    <3>2. QED
      BY <1>6, <2>1, <2>2, <3>1
  <2>3. CASE q # p
    <3>1. wait_state'[q] = wait_state[q]
      BY <1>6, <2>1, <2>3
    <3>2. \A t \in Sems :
             q \in ToSet(wait_queue'[t]) <=> q \in ToSet(wait_queue[t])
      BY <1>8, <1>9, <2>3
    <3>3. QED
      BY <3>1, <3>2, QueuedIffWaiting
  <2>4. QED
    BY <2>2, <2>3
<1>13. WaitersSleep'
  <2>1. \A t \in Sems : ToSet(wait_queue'[t]) \subseteq Procs
    BY <1>8 DEF ToSet
  <2>2. \A q \in Procs : wait_state'[q] = "WT_KSEM" => state'[q] = "SLEEPING"
    BY <1>6 DEF SchedInv, Everyone
  <2>3. {q \in Procs : wait_state'[q] = "WT_KSEM"}
           = UNION {ToSet(wait_queue'[t]) : t \in Sems}
    BY <1>12, <2>1
  <2>4. QED
    BY <2>2, <2>3 DEF WaitersSleep
<1>14. NobodyWaitsForFree'
  <2>1. value[s] = 0
    BY <1>1 DEF SemInv, NobodyWaitsForFree
  <2>2. QED
    BY <1>5, <1>8, <2>1 DEF SemInv, NobodyWaitsForFree
<1>15. \A t \in Sems : IsInjective(wait_queue'[t])
  BY <1>7, <1>8 DEF SemInv
<1>16. QED
  BY <1>3, <1>5, <1>6, <1>9, <1>10, <1>11, <1>13, <1>14, <1>15 DEF SemInv

\* down() and try_down() of a free semaphore.
LEMMA DownTakesKeeps ==
  ASSUME SchedInv, SemInv, NEW s \in Sems, NEW p \in Procs, DownTakes(p, s)
  PROVE  /\ SchedInv' /\ SemInv'
         /\ value[s] > 0
         /\ value' = [value EXCEPT ![s] = value[s] - 1]
         /\ UNCHANGED <<wait_queue, wakeup_flags, schedvars>>
<1>1. /\ value[s] > 0
      /\ value' = [value EXCEPT ![s] = value[s] - 1]
      /\ UNCHANGED <<wait_queue, wakeup_flags, schedvars>>
  BY DEF DownTakes
<1>2. SchedInv'
  BY <1>1 DEF SchedInv, SchedTypeOK, RunListExact, schedvars
<1>3. SemInv'
  BY <1>1 DEF SemInv, SemTypeOK, WaitersSleep, NobodyWaitsForFree, schedvars
<1>4. QED
  BY <1>1, <1>2, <1>3

\* down() of one that is taken: the running process joins the queue, asleep.
LEMMA DownWaitsKeeps ==
  ASSUME SchedInv, SemInv, NEW s \in Sems, NEW p \in Procs, current = p,
         DownWaits(p, s)
  PROVE  /\ SchedInv' /\ SemInv'
         /\ value[s] = 0
         /\ UNCHANGED value
         /\ \A t \in Sems : p \notin ToSet(wait_queue[t])
         /\ wait_queue' = [wait_queue EXCEPT ![s] = Append(wait_queue[s], p)]
         /\ ToSet(wait_queue'[s]) = ToSet(wait_queue[s]) \cup {p}
         /\ wakeup_flags' = [wakeup_flags EXCEPT ![p] = "WT_INTERRUPTED"]
         /\ wait_state' = [wait_state EXCEPT ![p] = "WT_KSEM"]
<1>1. /\ wait_queue \in [Sems -> Seq(Procs)]
      /\ wait_queue[s] \in Seq(Procs)
      /\ IsInjective(wait_queue[s])
      /\ wakeup_flags \in [Procs -> {"WT_INTERRUPTED", "WT_KSEM"}]
      /\ state \in [Everyone -> States]
      /\ wait_state \in [Everyone -> Waits]
      /\ p \in Everyone /\ p # idleproc
  BY SchedAssumption
     DEF SemInv, SemTypeOK, SchedInv, SchedTypeOK, States, Everyone
<1>2. /\ value[s] = 0
      /\ wait_queue' = [wait_queue EXCEPT ![s] = Append(wait_queue[s], p)]
      /\ wakeup_flags' = [wakeup_flags EXCEPT ![p] = "WT_INTERRUPTED"]
      /\ Schedule([state EXCEPT ![p] = "SLEEPING"],
                  [wait_state EXCEPT ![p] = "WT_KSEM"])
      /\ value' = value
  BY DEF DownWaits
<1>3. wait_state[p] = "none"
  BY <1>1 DEF SchedInv
<1>4. \A t \in Sems : p \notin ToSet(wait_queue[t])
  BY <1>3, QueuedIffWaiting
<1>5. SchedInv' /\ wait_state' = [wait_state EXCEPT ![p] = "WT_KSEM"]
  <2> DEFINE st == [state EXCEPT ![p] = "SLEEPING"]
             ws == [wait_state EXCEPT ![p] = "WT_KSEM"]
  <2>1. st \in [Everyone -> States] /\ ws \in [Everyone -> Waits]
    BY <1>1 DEF States, Waits
  <2>2. \A q \in Everyone : st[q] = "SLEEPING" <=> ws[q] # "none"
    BY <1>1 DEF SchedInv
  <2>3. \A q \in Everyone : q # current => st[q] = state[q]
    BY <1>1
  <2>4. st[idleproc] = "RUNNABLE"
    BY <1>1 DEF SchedInv, Everyone
  <2>5. Schedule(st, ws)
    BY <1>2
  <2> HIDE DEF st, ws
  <2>6. SchedInv' /\ wait_state' = ws
    BY <2>1, <2>2, <2>3, <2>4, <2>5, ScheduleKeeps
  <2>7. QED
    BY <2>6 DEF ws
<1>6. /\ Append(wait_queue[s], p) \in Seq(Procs)
      /\ ToSet(Append(wait_queue[s], p)) = ToSet(wait_queue[s]) \cup {p}
      /\ IsInjective(Append(wait_queue[s], p))
  BY <1>1, <1>4, AppendSet
<1>7. /\ wait_queue'[s] = Append(wait_queue[s], p)
      /\ \A t \in Sems : t # s => wait_queue'[t] = wait_queue[t]
      /\ wait_queue' \in [Sems -> Seq(Procs)]
  BY <1>1, <1>2, <1>6
<1>8. ToSet(wait_queue'[s]) = ToSet(wait_queue[s]) \cup {p}
  BY <1>6, <1>7
<1>9. SemTypeOK'
  BY <1>1, <1>2, <1>7 DEF SemTypeOK, SemInv
<1>10. \A t, u \in Sems : t # u =>
          ToSet(wait_queue'[t]) \cap ToSet(wait_queue'[u]) = {}
  <2> SUFFICES ASSUME NEW t \in Sems, NEW u \in Sems, t # u, NEW q,
                      q \in ToSet(wait_queue'[t]), q \in ToSet(wait_queue'[u])
               PROVE  FALSE
    OBVIOUS
  <2>1. ASSUME NEW v \in Sems, q \in ToSet(wait_queue'[v])
        PROVE  q \in ToSet(wait_queue[v]) \/ (q = p /\ v = s)
    BY <1>7, <1>8, <2>1
  <2>2. q # p => FALSE
    BY <2>1 DEF SemInv
  <2>3. q = p => FALSE
    BY <1>4, <2>1
  <2>4. QED
    BY <2>2, <2>3
<1>11. \A q \in Procs : wait_state'[q] = "WT_KSEM"
            <=> \E t \in Sems : q \in ToSet(wait_queue'[t])
  <2> SUFFICES ASSUME NEW q \in Procs
               PROVE  wait_state'[q] = "WT_KSEM"
                         <=> \E t \in Sems : q \in ToSet(wait_queue'[t])
    OBVIOUS
  <2>1. q \in Everyone
    BY DEF Everyone
  <2>2. CASE q = p
    BY <1>1, <1>5, <1>8, <2>2
  <2>3. CASE q # p
    <3>1. wait_state'[q] = wait_state[q]
      BY <1>1, <1>5, <2>1, <2>3
    <3>2. \A t \in Sems :
             q \in ToSet(wait_queue'[t]) <=> q \in ToSet(wait_queue[t])
      BY <1>7, <1>8, <2>3
    <3>3. QED
      BY <3>1, <3>2, QueuedIffWaiting
  <2>4. QED
    BY <2>2, <2>3
<1>12. WaitersSleep'
  <2>1. \A t \in Sems : ToSet(wait_queue'[t]) \subseteq Procs
    BY <1>7 DEF ToSet
  <2>2. \A q \in Procs : wait_state'[q] = "WT_KSEM" => state'[q] = "SLEEPING"
    BY <1>5 DEF SchedInv, Everyone
  <2>3. {q \in Procs : wait_state'[q] = "WT_KSEM"}
           = UNION {ToSet(wait_queue'[t]) : t \in Sems}
    BY <1>11, <2>1
  <2>4. QED
    BY <2>2, <2>3 DEF WaitersSleep
<1>13. NobodyWaitsForFree'
  BY <1>2, <1>7 DEF SemInv, NobodyWaitsForFree
<1>14. \A t \in Sems : IsInjective(wait_queue'[t])
  BY <1>6, <1>7 DEF SemInv
<1>15. QED
  BY <1>2, <1>4, <1>5, <1>8, <1>9, <1>10, <1>12, <1>13, <1>14 DEF SemInv

\* down() going on after schedule(): whoever was handed the semaphore is in no
\* queue any more, and the assertion holds.
LEMMA DownReturnsKeeps ==
  ASSUME SchedInv, SemInv, NEW s \in Sems, NEW p \in Procs, current = p,
         wakeup_flags[p] = "WT_KSEM", DownReturns(p, s)
  PROVE  /\ SchedInv' /\ SemInv'
         /\ UNCHANGED <<schedvars, semvars>>
<1>1. p \notin ToSet(wait_queue[s])
  <2>1. wait_state[p] = "none"
    BY DEF SchedInv, Everyone
  <2>2. QED
    BY <2>1, QueuedIffWaiting
<1>2. RemoveFirst(wait_queue[s], p) = wait_queue[s]
  <2>1. wait_queue[s] \in Seq(Procs)
    BY DEF SemInv, SemTypeOK
  <2>2. QED
    BY <1>1, <2>1, RemoveAbsent
<1>3. wait_queue' = wait_queue
  BY <1>2 DEF DownReturns, SemInv, SemTypeOK
<1>4. UNCHANGED <<schedvars, semvars>>
  BY <1>3 DEF DownReturns, schedvars, semvars
<1>5. SchedInv'
  BY <1>4 DEF SchedInv, SchedTypeOK, RunListExact, schedvars
<1>6. SemInv'
  BY <1>4 DEF SemInv, SemTypeOK, WaitersSleep, NobodyWaitsForFree, schedvars, semvars
<1>7. QED
  BY <1>4, <1>5, <1>6
=============================================================================
