------------------------- MODULE PhilosophersProofs -------------------------
(***************************************************************************)
(* Proof about Philosophers, for any number of them: neighbours never eat  *)
(* together, permits and states tell the same, the critical section is     *)
(* one, and no assertion of scheduler or semaphores fails.                 *)
(*                                                                         *)
(* The invariant gives, for each place in the code, what state_sema, the   *)
(* private semaphore and its queue hold there (Row).  It holds because     *)
(* only the philosopher that runs is in the critical section: nobody else  *)
(* is between the change of a state and the up() that belongs to it.       *)
(***************************************************************************)
EXTENDS Philosophers, SemaphoreLemmas

Queue(s) == ToSet(wait_queue[s])

Resting == {"think", "thinking", "take", "quit", "gone"}
Feasting == {"eat", "eating", "put"}
Places == Resting \cup Feasting
            \cup {"test", "taken", "fork", "fork_w", "drop", "dropped", "leave"}

Row(i) ==
    /\ pc[i] \in Resting \cup {"test", "dropped", "leave"} =>
          state_sema[i] = "THINKING" /\ value[i] = 0
    /\ pc[i] \in {"taken", "fork"} =>
          \/ state_sema[i] = "HUNGRY" /\ value[i] = 0
          \/ state_sema[i] = "EATING" /\ value[i] = 1
    /\ pc[i] = "fork_w" =>
          /\ value[i] = 0
          /\ \/ state_sema[i] = "HUNGRY" /\ Queue(i) = {i}
             \/ /\ state_sema[i] = "EATING" /\ Queue(i) = {}
                /\ wakeup_flags[i] = "WT_KSEM"
    /\ pc[i] \in Feasting \cup {"drop"} =>
          state_sema[i] = "EATING" /\ value[i] = 0
    /\ pc[i] # "fork_w" => Queue(i) = {}

Apart(st) == \A i \in Procs : ~(st[i] = "EATING" /\ st[RIGHT(i)] = "EATING")

Section ==
    /\ \A i \in Procs : InSection(i) => current = i /\ value[mutex] = 0
    /\ (\A i \in Procs : ~InSection(i)) => value[mutex] = 1
    /\ Queue(mutex) = {}

PhiInv ==
    /\ SchedInv
    /\ SemInv
    /\ state_sema \in [Procs -> {"THINKING", "HUNGRY", "EATING"}]
    /\ pc \in [Procs -> Places]
    /\ \A i \in Procs : Row(i)
    /\ Apart(state_sema)
    /\ Section

-----------------------------------------------------------------------------
\* The table is round, and nobody is its own neighbour.
LEMMA Neighbours ==
  ASSUME NEW i \in Procs
  PROVE  /\ LEFT(i) \in Procs /\ RIGHT(i) \in Procs
         /\ RIGHT(LEFT(i)) = i /\ LEFT(RIGHT(i)) = i
         /\ LEFT(i) # i /\ RIGHT(i) # i
<1>1. N \in Nat /\ N > 1 /\ i \in 0 .. N - 1 /\ Procs = 0 .. N - 1
  BY PhilosophersAssumption
<1>2. \A k \in 0 .. N - 1 : k % N = k /\ (k + N) % N = k
  BY <1>1
<1>3. RIGHT(i) = IF i = N - 1 THEN 0 ELSE i + 1
  <2>1. CASE i = N - 1
    <3>1. i + 1 = 0 + N /\ 0 \in 0 .. N - 1
      BY <1>1, <2>1
    <3>2. QED
      BY <1>2, <2>1, <3>1 DEF RIGHT
  <2>2. CASE i # N - 1
    <3>1. i + 1 \in 0 .. N - 1
      BY <1>1, <2>2
    <3>2. QED
      BY <1>2, <2>2, <3>1 DEF RIGHT
  <2>3. QED
    BY <2>1, <2>2
<1>4. LEFT(i) = IF i = 0 THEN N - 1 ELSE i - 1
  <2>1. CASE i = 0
    <3>1. i - 1 + N = N - 1 /\ N - 1 \in 0 .. N - 1
      BY <1>1, <2>1
    <3>2. QED
      BY <1>2, <2>1, <3>1 DEF LEFT
  <2>2. CASE i # 0
    <3>1. i - 1 \in 0 .. N - 1
      BY <1>1, <2>2
    <3>2. QED
      BY <1>2, <2>2, <3>1 DEF LEFT
  <2>3. QED
    BY <2>1, <2>2
<1>5. RIGHT(i) \in Procs /\ LEFT(i) \in Procs /\ RIGHT(i) # i /\ LEFT(i) # i
  BY <1>1, <1>3, <1>4
<1>6. RIGHT(LEFT(i)) = i
  <2>1. CASE i = 0
    <3>1. LEFT(i) + 1 = 0 + N
      BY <1>1, <1>4, <2>1
    <3>2. QED
      BY <1>1, <1>2, <2>1, <3>1 DEF RIGHT
  <2>2. CASE i # 0
    <3>1. LEFT(i) + 1 = i
      BY <1>1, <1>4, <2>2
    <3>2. QED
      BY <1>1, <1>2, <3>1 DEF RIGHT
  <2>3. QED
    BY <2>1, <2>2
<1>7. LEFT(RIGHT(i)) = i
  <2>1. CASE i = N - 1
    <3>1. RIGHT(i) - 1 + N = i
      BY <1>1, <1>3, <2>1
    <3>2. QED
      BY <1>1, <1>2, <3>1 DEF LEFT
  <2>2. CASE i # N - 1
    <3>1. RIGHT(i) - 1 + N = i + N
      BY <1>1, <1>3, <2>2
    <3>2. QED
      BY <1>1, <1>2, <3>1 DEF LEFT
  <2>3. QED
    BY <2>1, <2>2
<1>8. QED
  BY <1>5, <1>6, <1>7

\* One that becomes HUNGRY or THINKING disturbs nobody.
LEMMA ApartWithout ==
  ASSUME NEW st \in [Procs -> {"THINKING", "HUNGRY", "EATING"}], Apart(st),
         NEW i \in Procs, NEW s \in {"THINKING", "HUNGRY"}
  PROVE  Apart([st EXCEPT ![i] = s])
BY Neighbours DEF Apart

\* Nor does one that MayEat when it becomes EATING.
LEMMA ApartWith ==
  ASSUME NEW st \in [Procs -> {"THINKING", "HUNGRY", "EATING"}], Apart(st),
         NEW i \in Procs, MayEat(st, i)
  PROVE  Apart([st EXCEPT ![i] = "EATING"])
<1> SUFFICES ASSUME NEW k \in Procs,
                    [st EXCEPT ![i] = "EATING"][k] = "EATING",
                    [st EXCEPT ![i] = "EATING"][RIGHT(k)] = "EATING"
             PROVE  FALSE
  BY DEF Apart
<1>1. RIGHT(k) \in Procs /\ LEFT(RIGHT(k)) = k /\ RIGHT(k) # k
  BY Neighbours
<1>2. st[LEFT(i)] # "EATING" /\ st[RIGHT(i)] # "EATING"
  BY DEF MayEat
<1>3. CASE k = i
  BY <1>1, <1>2, <1>3
<1>4. CASE RIGHT(k) = i
  BY <1>1, <1>2, <1>4
<1>5. CASE k # i /\ RIGHT(k) # i
  BY <1>1, <1>5 DEF Apart
<1>6. QED
  BY <1>3, <1>4, <1>5

LEMMA EmptyQueue ==
  ASSUME SemInv, NEW s \in Sems
  PROVE  wait_queue[s] = <<>> <=> Queue(s) = {}
<1>1. wait_queue[s] \in Seq(Procs)
  BY DEF SemInv, SemTypeOK
<1>2. wait_queue[s] # <<>> => wait_queue[s][1] \in Queue(s)
  BY <1>1 DEF Queue, ToSet
<1>3. wait_queue[s] = <<>> => Queue(s) = {}
  BY DEF Queue, ToSet
<1>4. QED
  BY <1>2, <1>3

LEMMA InitPhi == Init => PhiInv
<1> SUFFICES ASSUME Init PROVE PhiInv
  OBVIOUS
<1> DEFINE initial == [s \in Sems |-> IF s = mutex THEN 1 ELSE 0]
<1>1. Sems = Procs \cup {mutex} /\ mutex \notin Procs
  BY PhilosophersAssumption
<1>2. SchedInv /\ \A i \in Procs : wait_state[i] = "none"
  BY SchedStarts DEF Init
<1>3. initial \in [Sems -> Nat] /\ SemInit(initial)
  BY DEF Init
<1>4. SemInv
  BY <1>2, <1>3, SemStarts
<1>5. /\ value = initial
      /\ wait_queue = [s \in Sems |-> <<>>]
      /\ state_sema = [i \in Procs |-> "THINKING"]
      /\ pc = [i \in Procs |-> "think"]
  BY DEF Init, SemInit
<1>6. \A s \in Sems : Queue(s) = {}
  BY <1>5 DEF Queue, ToSet
<1>7. \A i \in Procs : Row(i)
  BY <1>1, <1>5, <1>6 DEF Row, Resting, Feasting
<1>8. Section
  BY <1>1, <1>5, <1>6 DEF Section, InSection
<1>9. Apart(state_sema)
  BY <1>5 DEF Apart
<1>10. QED
  BY <1>2, <1>4, <1>5, <1>7, <1>8, <1>9 DEF PhiInv, Places, Resting

-----------------------------------------------------------------------------
\* While one that is outside runs, nobody is in the critical section.
LEMMA SectionFree ==
  ASSUME PhiInv, NEW i \in Procs, current = i, ~InSection(i)
  PROVE  /\ \A k \in Procs : ~InSection(k)
         /\ value[mutex] = 1
BY DEF PhiInv, Section

\* Steps that change neither places nor semaphores.
LEMMA StillStep ==
  ASSUME PhiInv, SchedInv', SemInv', UNCHANGED <<semvars, state_sema, pc>>,
         \A i \in Procs : InSection(i) => current' = current
  PROVE  PhiInv'
<1>1. \A i \in Procs : Row(i)'
  BY DEF PhiInv, Row, Queue, semvars
<1>2. Section'
  BY DEF PhiInv, Section, InSection, Queue, semvars
<1>3. QED
  BY <1>1, <1>2 DEF PhiInv, Apart

\* Steps of philosopher i between two places that are alike to the others.
Moves == {<<"think", "thinking">>, <<"thinking", "take">>, <<"quit", "gone">>,
          <<"eat", "eating">>, <<"eating", "put">>}

LEMMA MoveStep ==
  ASSUME PhiInv, NEW i \in Procs, NEW to, current = i, <<pc[i], to>> \in Moves,
         SchedInv', SemInv', UNCHANGED <<semvars, state_sema>>, Goto(i, to)
  PROVE  PhiInv'
<1>1. /\ pc' = [pc EXCEPT ![i] = to]
      /\ pc'[i] = to
      /\ \A k \in Procs : k # i => pc'[k] = pc[k]
  BY DEF Goto, PhiInv
<1>2. \/ pc[i] \in Resting /\ to \in Resting
      \/ pc[i] \in Feasting /\ to \in Feasting
  BY DEF Moves, Resting, Feasting
<1>3. pc' \in [Procs -> Places]
  BY <1>1, <1>2 DEF PhiInv, Places
<1>4. \A k \in Procs : Row(k)'
  <2>1. Row(i)'
    BY <1>1, <1>2 DEF PhiInv, Row, Queue, semvars, Resting, Feasting
  <2>2. ASSUME NEW k \in Procs, k # i PROVE Row(k)'
    BY <1>1, <2>2 DEF PhiInv, Row, Queue, semvars
  <2>3. QED
    BY <2>1, <2>2
<1>5. Section'
  <2>1. ~InSection(i) /\ ~InSection(i)'
    BY <1>1, <1>2 DEF InSection, Resting, Feasting
  <2>2. \A k \in Procs : ~InSection(k)'
    BY <1>1, <2>1, SectionFree DEF InSection
  <2>3. value'[mutex] = 1 /\ Queue(mutex)' = {}
    BY <2>1, SectionFree DEF PhiInv, Section, Queue, semvars
  <2>4. QED
    BY <2>2, <2>3 DEF Section
<1>6. QED
  BY <1>3, <1>4, <1>5 DEF PhiInv, Apart

-----------------------------------------------------------------------------
\* down(&mutex) never waits, and enters the section.
LEMMA EnterStep ==
  ASSUME PhiInv, NEW i \in Procs, NEW to, current = i,
         <<pc[i], to>> \in {<<"take", "test">>, <<"put", "drop">>},
         DownTakes(i, mutex), Goto(i, to), UNCHANGED state_sema
  PROVE  PhiInv'
<1>1. mutex \in Sems /\ mutex \notin Procs /\ Procs \subseteq Sems
  BY PhilosophersAssumption
<1>2. ~InSection(i)
  BY DEF InSection
<1>3. value[mutex] = 1 /\ \A k \in Procs : ~InSection(k)
  BY <1>2, SectionFree
<1>4. /\ SchedInv' /\ SemInv'
      /\ value' = [value EXCEPT ![mutex] = value[mutex] - 1]
      /\ UNCHANGED <<wait_queue, wakeup_flags, schedvars>>
  BY <1>1, DownTakesKeeps DEF PhiInv
<1>5. value'[mutex] = 0 /\ \A k \in Procs : value'[k] = value[k]
  BY <1>1, <1>3, <1>4 DEF PhiInv, SemInv, SemTypeOK
<1>6. /\ pc' \in [Procs -> Places]
      /\ pc'[i] = to
      /\ \A k \in Procs : k # i => pc'[k] = pc[k]
  BY DEF Goto, PhiInv, Places
<1>7. \A k \in Procs : Row(k)'
  <2>1. Row(i)'
    BY <1>4, <1>5, <1>6 DEF PhiInv, Row, Queue, Resting, Feasting
  <2>2. ASSUME NEW k \in Procs, k # i PROVE Row(k)'
    BY <1>4, <1>5, <1>6, <2>2 DEF PhiInv, Row, Queue
  <2>3. QED
    BY <2>1, <2>2
<1>8. Section'
  <2>1. InSection(i)' /\ current' = i
    BY <1>4, <1>6 DEF InSection, schedvars
  <2>2. \A k \in Procs : k # i => ~InSection(k)'
    BY <1>3, <1>6 DEF InSection
  <2>3. QED
    BY <1>4, <1>5, <2>1, <2>2 DEF PhiInv, Section, Queue
<1>9. QED
  BY <1>4, <1>6, <1>7, <1>8 DEF PhiInv, Apart

\* up(&mutex) leaves it, and finds nobody waiting.
LEMMA LeaveStep ==
  ASSUME PhiInv, NEW i \in Procs, NEW to, current = i,
         <<pc[i], to>> \in {<<"taken", "fork">>, <<"leave", "think">>, <<"leave", "quit">>},
         Up(mutex), Goto(i, to), UNCHANGED state_sema
  PROVE  PhiInv'
<1>1. mutex \in Sems /\ mutex \notin Procs /\ Procs \subseteq Sems
  BY PhilosophersAssumption
<1>2. InSection(i) /\ value[mutex] = 0
  BY DEF InSection, PhiInv, Section
<1>3. wait_queue[mutex] = <<>>
  BY <1>1, EmptyQueue DEF PhiInv, Section
<1>4. /\ SchedInv' /\ SemInv'
      /\ value' = [value EXCEPT ![mutex] = value[mutex] + 1]
      /\ UNCHANGED <<wait_queue, wakeup_flags, schedvars>>
  BY <1>1, <1>3, UpCounts DEF PhiInv
<1>5. value'[mutex] = 1 /\ \A k \in Procs : value'[k] = value[k]
  BY <1>1, <1>2, <1>4 DEF PhiInv, SemInv, SemTypeOK
<1>6. /\ pc' \in [Procs -> Places]
      /\ pc'[i] = to
      /\ \A k \in Procs : k # i => pc'[k] = pc[k]
  BY DEF Goto, PhiInv, Places, Resting
<1>7. \A k \in Procs : Row(k)'
  <2>1. Row(i)'
    BY <1>4, <1>5, <1>6 DEF PhiInv, Row, Queue, Resting, Feasting
  <2>2. ASSUME NEW k \in Procs, k # i PROVE Row(k)'
    BY <1>4, <1>5, <1>6, <2>2 DEF PhiInv, Row, Queue
  <2>3. QED
    BY <2>1, <2>2
<1>8. Section'
  <2>1. \A k \in Procs : ~InSection(k)'
    BY <1>6 DEF InSection, PhiInv, Section
  <2>2. QED
    BY <1>4, <1>5, <2>1 DEF PhiInv, Section, Queue
<1>9. QED
  BY <1>4, <1>6, <1>7, <1>8 DEF PhiInv, Apart

-----------------------------------------------------------------------------
\* down(&s[i]) when up() came first: the permit is used up.
LEMMA ForkTakenStep ==
  ASSUME PhiInv, NEW i \in Procs, At(i, "fork"), DownTakes(i, i), Goto(i, "eat"),
         UNCHANGED state_sema
  PROVE  PhiInv'
<1>1. i \in Sems /\ mutex \in Sems /\ mutex # i /\ Procs \subseteq Sems
  BY PhilosophersAssumption
<1>2. current = i /\ pc[i] = "fork" /\ ~InSection(i)
  BY DEF At, Running, InSection
<1>3. /\ SchedInv' /\ SemInv'
      /\ value[i] > 0
      /\ value' = [value EXCEPT ![i] = value[i] - 1]
      /\ UNCHANGED <<wait_queue, wakeup_flags, schedvars>>
  BY <1>1, DownTakesKeeps DEF PhiInv
<1>4. state_sema[i] = "EATING" /\ value[i] = 1
  BY <1>2, <1>3 DEF PhiInv, Row
<1>5. /\ value'[i] = 0
      /\ \A s \in Sems : s # i => value'[s] = value[s]
  BY <1>1, <1>3, <1>4 DEF PhiInv, SemInv, SemTypeOK
<1>6. /\ pc' \in [Procs -> Places]
      /\ pc'[i] = "eat"
      /\ \A k \in Procs : k # i => pc'[k] = pc[k]
  BY DEF Goto, PhiInv, Places, Feasting
<1>7. \A k \in Procs : Row(k)'
  <2>1. Row(i)'
    BY <1>2, <1>3, <1>4, <1>5, <1>6 DEF PhiInv, Row, Queue, Resting, Feasting
  <2>2. ASSUME NEW k \in Procs, k # i PROVE Row(k)'
    BY <1>1, <1>3, <1>5, <1>6, <2>2 DEF PhiInv, Row, Queue
  <2>3. QED
    BY <2>1, <2>2
<1>8. Section'
  <2>1. \A k \in Procs : ~InSection(k)'
    BY <1>2, <1>6, SectionFree DEF InSection
  <2>2. value'[mutex] = 1
    BY <1>1, <1>2, <1>5, SectionFree
  <2>3. QED
    BY <1>3, <2>1, <2>2 DEF PhiInv, Section, Queue
<1>9. QED
  BY <1>3, <1>6, <1>7, <1>8 DEF PhiInv, Apart

\* down(&s[i]) when it has to come yet.
LEMMA ForkWaitsStep ==
  ASSUME PhiInv, NEW i \in Procs, At(i, "fork"), DownWaits(i, i), Goto(i, "fork_w"),
         UNCHANGED state_sema
  PROVE  PhiInv'
<1>1. i \in Sems /\ mutex \in Sems /\ mutex # i /\ Procs \subseteq Sems
  BY PhilosophersAssumption
<1>2. current = i /\ pc[i] = "fork" /\ ~InSection(i)
  BY DEF At, Running, InSection
<1>3. /\ SchedInv' /\ SemInv'
      /\ value[i] = 0
      /\ UNCHANGED value
      /\ wait_queue' = [wait_queue EXCEPT ![i] = Append(wait_queue[i], i)]
      /\ ToSet(wait_queue'[i]) = ToSet(wait_queue[i]) \cup {i}
      /\ wakeup_flags' = [wakeup_flags EXCEPT ![i] = "WT_INTERRUPTED"]
  BY <1>1, <1>2, DownWaitsKeeps DEF PhiInv
<1>4. state_sema[i] = "HUNGRY" /\ Queue(i) = {}
  BY <1>2, <1>3 DEF PhiInv, Row
<1>5. /\ Queue(i)' = {i}
      /\ \A s \in Sems : s # i => Queue(s)' = Queue(s)
      /\ \A k \in Procs : k # i => wakeup_flags'[k] = wakeup_flags[k]
  BY <1>1, <1>3, <1>4 DEF PhiInv, SemInv, SemTypeOK, Queue
<1>6. /\ pc' \in [Procs -> Places]
      /\ pc'[i] = "fork_w"
      /\ \A k \in Procs : k # i => pc'[k] = pc[k]
  BY DEF Goto, PhiInv, Places
<1>7. \A k \in Procs : Row(k)'
  <2>1. Row(i)'
    BY <1>3, <1>4, <1>5, <1>6 DEF Row, Resting, Feasting
  <2>2. ASSUME NEW k \in Procs, k # i PROVE Row(k)'
    BY <1>1, <1>3, <1>5, <1>6, <2>2 DEF PhiInv, Row
  <2>3. QED
    BY <2>1, <2>2
<1>8. Section'
  <2>1. \A k \in Procs : ~InSection(k)'
    BY <1>2, <1>6, SectionFree DEF InSection
  <2>2. value'[mutex] = 1 /\ Queue(mutex)' = {}
    BY <1>1, <1>2, <1>3, <1>5, SectionFree DEF PhiInv, Section
  <2>3. QED
    BY <2>1, <2>2 DEF Section
<1>9. QED
  BY <1>3, <1>6, <1>7, <1>8 DEF PhiInv, Apart

\* And when it has come.
LEMMA ForkComesStep ==
  ASSUME PhiInv, NEW i \in Procs, At(i, "fork_w"), DownReturns(i, i),
         Goto(i, "eat"), UNCHANGED state_sema
  PROVE  PhiInv'
<1>1. i \in Sems /\ Procs \subseteq Sems
  BY PhilosophersAssumption
<1>2. current = i /\ pc[i] = "fork_w" /\ ~InSection(i)
  BY DEF At, Running, InSection
<1>3. i \notin Queue(i)
  <2>1. wait_state[i] = "none"
    BY <1>2 DEF PhiInv, SchedInv, Everyone
  <2>2. QED
    BY <1>1, <2>1, QueuedIffWaiting DEF PhiInv, Queue
<1>4. /\ value[i] = 0 /\ state_sema[i] = "EATING" /\ Queue(i) = {}
      /\ wakeup_flags[i] = "WT_KSEM"
  BY <1>2, <1>3 DEF PhiInv, Row
<1>5. SchedInv' /\ SemInv' /\ UNCHANGED <<schedvars, semvars>>
  BY <1>1, <1>2, <1>4, DownReturnsKeeps DEF PhiInv
<1>6. /\ pc' \in [Procs -> Places]
      /\ pc'[i] = "eat"
      /\ \A k \in Procs : k # i => pc'[k] = pc[k]
  BY DEF Goto, PhiInv, Places, Feasting
<1>7. \A k \in Procs : Row(k)'
  <2>1. Row(i)'
    BY <1>4, <1>5, <1>6 DEF Row, Queue, semvars, Resting, Feasting
  <2>2. ASSUME NEW k \in Procs, k # i PROVE Row(k)'
    BY <1>5, <1>6, <2>2 DEF PhiInv, Row, Queue, semvars
  <2>3. QED
    BY <2>1, <2>2
<1>8. Section'
  <2>1. \A k \in Procs : ~InSection(k)'
    BY <1>2, <1>6, SectionFree DEF InSection
  <2>2. value'[mutex] = 1
    BY <1>2, <1>5, SectionFree DEF semvars
  <2>3. QED
    BY <1>5, <2>1, <2>2 DEF PhiInv, Section, Queue, semvars
<1>9. QED
  BY <1>5, <1>6, <1>7, <1>8 DEF PhiInv, Apart

LEMMA DownStep ==
  ASSUME PhiInv, NEW i \in Procs, Down(i)
  PROVE  PhiInv'
<1>1. UNCHANGED state_sema
  BY DEF Down
<1>2. PICK call \in Downs(i) :
         \/ /\ At(i, call[1])
            /\ \/ DownTakes(i, call[2]) /\ Goto(i, call[3])
               \/ DownWaits(i, call[2]) /\ Goto(i, Waiting(call[1]))
         \/ /\ At(i, Waiting(call[1]))
            /\ DownReturns(i, call[2])
            /\ Goto(i, call[3])
  BY DEF Down
<1>3. CASE call = <<"fork", i, "eat">>
  BY <1>1, <1>2, <1>3, ForkTakenStep, ForkWaitsStep, ForkComesStep DEF Waiting
<1>4. CASE call \in {<<"take", mutex, "test">>, <<"put", mutex, "drop">>}
  <2>1. call[1] \in {"take", "put"} /\ call[2] = mutex
        /\ <<call[1], call[3]>> \in {<<"take", "test">>, <<"put", "drop">>}
    BY <1>4
  <2>2. ~At(i, Waiting(call[1]))
    BY <2>1 DEF Waiting, At, PhiInv, Places, Resting, Feasting
  <2>3. At(i, call[1])
    BY <1>2, <2>2
  <2>4. current = i /\ pc[i] = call[1] /\ ~InSection(i)
    BY <2>1, <2>3 DEF At, Running, InSection
  <2>5. ~DownWaits(i, mutex)
    BY <2>4, SectionFree DEF DownWaits
  <2>6. QED
    BY <1>1, <1>2, <2>1, <2>2, <2>4, <2>5, EnterStep
<1>5. QED
  BY <1>3, <1>4 DEF Downs

-----------------------------------------------------------------------------
\* phi_test_sema(j): what it does to the semaphores, when nobody but j waits
\* for its own.
LEMMA PhiTestKeeps ==
  ASSUME SchedInv, SemInv, NEW j \in Procs, NEW st, PhiTest(st, j),
         Queue(j) \subseteq {j}
  PROVE  /\ SchedInv' /\ SemInv' /\ current' = current
         /\ \A s \in Sems : s # j => value'[s] = value[s] /\ Queue(s)' = Queue(s)
         /\ \A k \in Procs : k # j => wakeup_flags'[k] = wakeup_flags[k]
         /\ ~MayEat(st, j) => /\ state_sema' = st
                              /\ value'[j] = value[j]
                              /\ Queue(j)' = Queue(j)
                              /\ wakeup_flags'[j] = wakeup_flags[j]
         /\ MayEat(st, j) => /\ state_sema' = [st EXCEPT ![j] = "EATING"]
                             /\ Queue(j)' = {}
         /\ MayEat(st, j) /\ Queue(j) = {} => value'[j] = value[j] + 1
         /\ MayEat(st, j) /\ Queue(j) = {j} => /\ value'[j] = value[j]
                                               /\ wakeup_flags'[j] = "WT_KSEM"
<1>1. j \in Sems
  BY PhilosophersAssumption
<1>2. CASE ~MayEat(st, j)
  <2>1. state_sema' = st /\ UNCHANGED <<schedvars, semvars>>
    BY <1>2 DEF PhiTest
  <2>2. SchedInv'
    BY <2>1 DEF SchedInv, SchedTypeOK, RunListExact, schedvars
  <2>3. SemInv'
    BY <2>1 DEF SemInv, SemTypeOK, WaitersSleep, NobodyWaitsForFree, schedvars, semvars
  <2>4. QED
    BY <1>2, <2>1, <2>2, <2>3 DEF schedvars, semvars, Queue
<1>3. CASE MayEat(st, j) /\ wait_queue[j] = <<>>
  <2>1. state_sema' = [st EXCEPT ![j] = "EATING"] /\ Up(j)
    BY <1>3 DEF PhiTest
  <2>2. /\ SchedInv' /\ SemInv'
        /\ value' = [value EXCEPT ![j] = value[j] + 1]
        /\ UNCHANGED <<wait_queue, wakeup_flags, schedvars>>
    BY <1>1, <1>3, <2>1, UpCounts
  <2>3. Queue(j) = {}
    BY <1>1, <1>3, EmptyQueue
  <2>4. value'[j] = value[j] + 1 /\ \A s \in Sems : s # j => value'[s] = value[s]
    BY <1>1, <2>2 DEF SemInv, SemTypeOK
  <2>5. QED
    BY <1>3, <2>1, <2>2, <2>3, <2>4 DEF schedvars, Queue
<1>4. CASE MayEat(st, j) /\ wait_queue[j] # <<>>
  <2>1. state_sema' = [st EXCEPT ![j] = "EATING"] /\ Up(j)
    BY <1>4 DEF PhiTest
  <2>2. Queue(j) = {j}
    BY <1>1, <1>4, EmptyQueue
  <2> DEFINE p == wait_queue[j][1]
  <2>3. /\ p \in Procs /\ p \in Queue(j)
        /\ SchedInv' /\ SemInv'
        /\ UNCHANGED <<value, current>>
        /\ wait_queue' = [wait_queue EXCEPT ![j] = RemoveAt(wait_queue[j], 1)]
        /\ Queue(j)' = Queue(j) \ {p}
        /\ wakeup_flags' = [wakeup_flags EXCEPT ![p] = "WT_KSEM"]
    BY <1>1, <1>4, <2>1, UpHandsOver DEF Queue
  <2> HIDE DEF p
  <2>4. p = j /\ Queue(j)' = {}
    BY <2>2, <2>3
  <2>5. /\ \A s \in Sems : s # j => Queue(s)' = Queue(s)
        /\ \A k \in Procs : k # j => wakeup_flags'[k] = wakeup_flags[k]
        /\ wakeup_flags'[j] = "WT_KSEM"
    BY <1>1, <2>3, <2>4 DEF SemInv, SemTypeOK, Queue
  <2>6. QED
    BY <1>4, <2>1, <2>2, <2>3, <2>4, <2>5
<1>5. QED
  BY <1>2, <1>3, <1>4

\* Nobody but i waits for s[i].
LEMMA OwnQueue ==
  ASSUME PhiInv, NEW i \in Procs
  PROVE  Queue(i) \subseteq {i} /\ (Queue(i) # {} => Queue(i) = {i})
BY DEF PhiInv, Row

\* A philosopher in the section tests whether another may eat, or itself.
\* st is what state_sema was when it called phi_test_sema.
LEMMA TestStep ==
  ASSUME PhiInv, NEW i \in Procs, NEW to, NEW st, NEW j \in Procs, current = i,
         InSection(i), PhiTest(st, j), Goto(i, to),
         \/ /\ pc[i] = "test" /\ to = "taken" /\ j = i
            /\ st = [state_sema EXCEPT ![i] = "HUNGRY"]
         \/ /\ pc[i] = "drop" /\ to = "dropped" /\ j # i
            /\ st = [state_sema EXCEPT ![i] = "THINKING"]
         \/ /\ pc[i] = "dropped" /\ to = "leave" /\ j # i
            /\ st = state_sema
  PROVE  PhiInv'
<1>1. j \in Sems /\ mutex \in Sems /\ mutex \notin Procs /\ Procs \subseteq Sems
  BY PhilosophersAssumption
<1>2. /\ SchedInv' /\ SemInv' /\ current' = current
      /\ \A s \in Sems : s # j => value'[s] = value[s] /\ Queue(s)' = Queue(s)
      /\ \A k \in Procs : k # j => wakeup_flags'[k] = wakeup_flags[k]
      /\ ~MayEat(st, j) => /\ state_sema' = st
                           /\ value'[j] = value[j]
                           /\ Queue(j)' = Queue(j)
                           /\ wakeup_flags'[j] = wakeup_flags[j]
      /\ MayEat(st, j) => /\ state_sema' = [st EXCEPT ![j] = "EATING"]
                          /\ Queue(j)' = {}
      /\ MayEat(st, j) /\ Queue(j) = {} => value'[j] = value[j] + 1
      /\ MayEat(st, j) /\ Queue(j) = {j} => /\ value'[j] = value[j]
                                            /\ wakeup_flags'[j] = "WT_KSEM"
  BY OwnQueue, PhiTestKeeps DEF PhiInv
<1>3. /\ pc' \in [Procs -> Places]
      /\ pc'[i] = to
      /\ \A k \in Procs : k # i => pc'[k] = pc[k]
  BY DEF Goto, PhiInv, Places
<1>4. /\ st \in [Procs -> {"THINKING", "HUNGRY", "EATING"}]
      /\ \A k \in Procs : k # i => st[k] = state_sema[k]
      /\ st[i] = IF to = "taken" THEN "HUNGRY" ELSE "THINKING"
      /\ Apart(st)
  <2>1. pc[i] = "dropped" => state_sema[i] = "THINKING"
    BY DEF PhiInv, Row
  <2>2. QED
    BY <2>1, ApartWithout DEF PhiInv
<1>5. /\ state_sema' \in [Procs -> {"THINKING", "HUNGRY", "EATING"}]
      /\ \A k \in Procs : k # j => state_sema'[k] = st[k]
      /\ state_sema'[j] = IF MayEat(st, j) THEN "EATING" ELSE st[j]
      /\ Apart(state_sema')
  BY <1>2, <1>4, ApartWith
<1>6. \A k \in Procs : Row(k)'
  <2>1. CASE j = i
    <3>1. to = "taken" /\ value[i] = 0 /\ Queue(i) = {}
      BY <2>1 DEF PhiInv, Row, Resting
    <3>2. Row(i)'
      BY <1>2, <1>3, <1>4, <1>5, <2>1, <3>1 DEF Row, Resting, Feasting
    <3>3. ASSUME NEW k \in Procs, k # i PROVE Row(k)'
      BY <1>1, <1>2, <1>3, <1>4, <1>5, <2>1, <3>3 DEF PhiInv, Row
    <3>4. QED
      BY <3>2, <3>3
  <2>2. CASE j # i
    <3>1. to \in {"dropped", "leave"} /\ value[i] = 0 /\ Queue(i) = {}
      BY <2>2 DEF PhiInv, Row, Resting, Feasting
    <3>2. Row(i)'
      BY <1>1, <1>2, <1>3, <1>4, <1>5, <2>2, <3>1 DEF Row, Resting, Feasting
    <3>3. Row(j)'
      <4>1. CASE MayEat(st, j)
        <5>1. state_sema[j] = "HUNGRY"
          BY <1>4, <2>2, <4>1 DEF MayEat
        <5>2. pc[j] \in {"taken", "fork", "fork_w"}
          BY <5>1 DEF PhiInv, Row, Places, Resting, Feasting
        <5>3. pc'[j] = pc[j] /\ pc[j] # "taken"
          BY <1>3, <2>2, <5>2 DEF PhiInv, Section, InSection
        <5>4. CASE pc[j] = "fork"
          <6>1. value[j] = 0 /\ Queue(j) = {}
            BY <5>1, <5>4 DEF PhiInv, Row
          <6>2. QED
            BY <1>2, <1>5, <4>1, <5>3, <5>4, <6>1 DEF Row, Resting, Feasting
        <5>5. CASE pc[j] = "fork_w"
          <6>1. value[j] = 0 /\ Queue(j) = {j}
            BY <5>1, <5>5 DEF PhiInv, Row
          <6>2. QED
            BY <1>2, <1>5, <4>1, <5>3, <5>5, <6>1 DEF Row, Resting, Feasting
        <5>6. QED
          BY <5>2, <5>3, <5>4, <5>5
      <4>2. CASE ~MayEat(st, j)
        BY <1>2, <1>3, <1>4, <1>5, <2>2, <4>2 DEF PhiInv, Row
      <4>3. QED
        BY <4>1, <4>2
    <3>4. ASSUME NEW k \in Procs, k # i, k # j PROVE Row(k)'
      BY <1>1, <1>2, <1>3, <1>4, <1>5, <3>4 DEF PhiInv, Row
    <3>5. QED
      BY <3>2, <3>3, <3>4
  <2>3. QED
    BY <2>1, <2>2
<1>7. Section'
  <2>1. InSection(i)' /\ current' = i
    BY <1>2, <1>3 DEF InSection
  <2>2. value'[mutex] = 0 /\ Queue(mutex)' = {}
    BY <1>1, <1>2 DEF PhiInv, Section
  <2>3. \A k \in Procs : k # i => ~InSection(k)'
    BY <1>3 DEF PhiInv, Section, InSection
  <2>4. QED
    BY <2>1, <2>2, <2>3 DEF Section
<1>8. QED
  BY <1>2, <1>3, <1>5, <1>6, <1>7 DEF PhiInv

LEMMA BecomeHungryStep ==
  ASSUME PhiInv, NEW i \in Procs, BecomeHungry(i)
  PROVE  PhiInv'
<1>1. /\ current = i /\ pc[i] = "test" /\ InSection(i)
      /\ PhiTest([state_sema EXCEPT ![i] = "HUNGRY"], i)
      /\ Goto(i, "taken")
  BY DEF BecomeHungry, At, Running, InSection
<1>2. QED
  BY <1>1, TestStep

LEMMA LookLeftStep ==
  ASSUME PhiInv, NEW i \in Procs, LookLeft(i)
  PROVE  PhiInv'
<1>1. /\ current = i /\ pc[i] = "drop" /\ InSection(i)
      /\ PhiTest([state_sema EXCEPT ![i] = "THINKING"], LEFT(i))
      /\ Goto(i, "dropped")
  BY DEF LookLeft, At, Running, InSection
<1>2. LEFT(i) \in Procs /\ LEFT(i) # i
  BY Neighbours
<1>3. QED
  BY <1>1, <1>2, TestStep

LEMMA LookRightStep ==
  ASSUME PhiInv, NEW i \in Procs, LookRight(i)
  PROVE  PhiInv'
<1>1. /\ current = i /\ pc[i] = "dropped" /\ InSection(i)
      /\ PhiTest(state_sema, RIGHT(i))
      /\ Goto(i, "leave")
  BY DEF LookRight, At, Running, InSection
<1>2. RIGHT(i) \in Procs /\ RIGHT(i) # i
  BY Neighbours
<1>3. QED
  BY <1>1, <1>2, TestStep

LEMMA LeavesStep ==
  ASSUME PhiInv, NEW i \in Procs, LeaveHungry(i) \/ LeaveFed(i)
  PROVE  PhiInv'
<1>1. CASE LeaveHungry(i)
  <2>1. /\ current = i /\ pc[i] = "taken"
        /\ Up(mutex) /\ Goto(i, "fork") /\ UNCHANGED state_sema
    BY <1>1 DEF LeaveHungry, At, Running
  <2>2. QED
    BY <2>1, LeaveStep
<1>2. CASE LeaveFed(i)
  <2> DEFINE to == IF iter[i] < TIMES THEN "think" ELSE "quit"
  <2>1. /\ current = i /\ pc[i] = "leave"
        /\ Up(mutex) /\ Goto(i, to) /\ UNCHANGED state_sema
    BY <1>2 DEF LeaveFed, At, Running
  <2>2. to = "think" \/ to = "quit"
    OBVIOUS
  <2> HIDE DEF to
  <2>3. QED
    BY <2>1, <2>2, LeaveStep
<1>3. QED
  BY <1>1, <1>2

-----------------------------------------------------------------------------
LEMMA DoSleepStep ==
  ASSUME PhiInv, NEW i \in Procs, DoSleep(i)
  PROVE  PhiInv'
<1>1. PICK place \in {"think", "eat"} :
         /\ current = i /\ pc[i] = place
         /\ Goto(i, Sleeping(place))
         /\ Schedule([state EXCEPT ![i] = "SLEEPING"],
                     [wait_state EXCEPT ![i] = "WT_TIMER"])
         /\ UNCHANGED <<semvars, state_sema>>
  BY DEF DoSleep, At, Running
<1>2. /\ state \in [Everyone -> States]
      /\ wait_state \in [Everyone -> Waits]
      /\ i \in Everyone /\ i # idleproc
      /\ wait_state[i] = "none"
  BY <1>1, SchedAssumption DEF PhiInv, SchedInv, SchedTypeOK, States, Everyone
<1> DEFINE st == [state EXCEPT ![i] = "SLEEPING"]
           ws == [wait_state EXCEPT ![i] = "WT_TIMER"]
<1>3. /\ st \in [Everyone -> States] /\ ws \in [Everyone -> Waits]
      /\ \A k \in Everyone : st[k] = "SLEEPING" <=> ws[k] # "none"
      /\ \A k \in Everyone : k # current => st[k] = state[k]
      /\ st[idleproc] = "RUNNABLE"
  BY <1>1, <1>2 DEF PhiInv, SchedInv, States, Waits, Everyone
<1>4. \A k \in Everyone : ws[k] = "WT_KSEM" <=> wait_state[k] = "WT_KSEM"
  BY <1>2
<1>5. Schedule(st, ws)
  BY <1>1
<1> HIDE DEF st, ws
<1>6. SchedInv' /\ wait_state' = ws
  BY <1>3, <1>5, ScheduleKeeps DEF PhiInv
<1>7. SemInv'
  BY <1>1, <1>4, <1>6, OthersKeepSemInv DEF PhiInv, Everyone
<1>8. <<pc[i], Sleeping(place)>> \in Moves
  BY <1>1 DEF Moves, Sleeping
<1>9. QED
  BY <1>1, <1>6, <1>7, <1>8, MoveStep

LEMMA QuitStep ==
  ASSUME PhiInv, NEW i \in Procs, Quit(i)
  PROVE  PhiInv'
<1> DEFINE st == [state EXCEPT ![i] = "ZOMBIE"]
<1>1. /\ current = i /\ pc[i] = "quit"
      /\ Goto(i, "gone")
      /\ Schedule(st, wait_state)
      /\ UNCHANGED <<semvars, state_sema>>
  BY DEF Quit, At, Running
<1>2. /\ state \in [Everyone -> States]
      /\ wait_state \in [Everyone -> Waits]
      /\ i \in Everyone /\ i # idleproc
      /\ wait_state[i] = "none"
  BY <1>1, SchedAssumption DEF PhiInv, SchedInv, SchedTypeOK, States, Everyone
<1>3. /\ st \in [Everyone -> States]
      /\ \A k \in Everyone : st[k] = "SLEEPING" <=> wait_state[k] # "none"
      /\ \A k \in Everyone : k # current => st[k] = state[k]
      /\ st[idleproc] = "RUNNABLE"
  BY <1>1, <1>2 DEF PhiInv, SchedInv, States, Everyone
<1> HIDE DEF st
<1>4. SchedInv' /\ wait_state' = wait_state
  BY <1>1, <1>2, <1>3, ScheduleKeeps DEF PhiInv
<1>5. SemInv'
  BY <1>1, <1>4, OthersKeepSemInv DEF PhiInv
<1>6. <<pc[i], "gone">> \in Moves
  BY <1>1 DEF Moves
<1>7. QED
  BY <1>1, <1>4, <1>5, <1>6, MoveStep

\* Steps that only touch the time slices and the flags.
LEMMA QuietStep ==
  ASSUME PhiInv,
         UNCHANGED <<current, state, wait_state, run_list, panicked, semvars>>,
         time_slice' \in [Procs -> 0 .. MAX_TIME_SLICE],
         need_resched' \in [Everyone -> BOOLEAN]
  PROVE  SchedInv' /\ SemInv'
<1>1. SchedInv'
  BY DEF PhiInv, SchedInv, SchedTypeOK, RunListExact
<1>2. QED
  BY <1>1, OthersKeepSemInv DEF PhiInv

LEMMA SleepEndsStep ==
  ASSUME PhiInv, NEW i \in Procs, SleepEnds(i)
  PROVE  PhiInv'
<1>1. SchedInv' /\ SemInv'
  BY QuietStep DEF SleepEnds, schedvars, PhiInv, SchedInv, SchedTypeOK
<1>2. current = i /\ UNCHANGED <<semvars, state_sema>>
  BY DEF SleepEnds, At, Running
<1>3. PICK to \in {"take", "put"} : <<pc[i], to>> \in Moves /\ Goto(i, to)
  BY DEF SleepEnds, At, Moves
<1>4. QED
  BY <1>1, <1>2, <1>3, MoveStep

LEMMA TickStep ==
  ASSUME PhiInv, Tick
  PROVE  PhiInv'
<1>1. /\ ProcTick(time_slice)
      /\ UNCHANGED <<current, state, wait_state, run_list, panicked, semvars,
                     state_sema, pc>>
  BY DEF Tick
<1>2. /\ time_slice' \in [Procs -> 0 .. MAX_TIME_SLICE]
      /\ need_resched' \in [Everyone -> BOOLEAN]
  BY <1>1, ProcTickKeepsType DEF PhiInv, SchedInv, SchedTypeOK
<1>3. SchedInv' /\ SemInv'
  BY <1>1, <1>2, QuietStep
<1>4. QED
  BY <1>1, <1>3, StillStep

LEMMA TimerExpiresStep ==
  ASSUME PhiInv, NEW i \in Procs, TimerExpires(i)
  PROVE  PhiInv'
<1>1. Refilled(Enqueued(i)) \in [Procs -> 0 .. MAX_TIME_SLICE]
  BY SlicesKeepType DEF PhiInv, SchedInv
<1>2. /\ wait_state[i] = "WT_TIMER" /\ WakeupProc(i)
      /\ ProcTick(Refilled(Enqueued(i)))
      /\ UNCHANGED <<current, semvars, state_sema, pc>>
  BY DEF TimerExpires
<1>3. /\ time_slice' \in [Procs -> 0 .. MAX_TIME_SLICE]
      /\ need_resched' \in [Everyone -> BOOLEAN]
  BY <1>1, <1>2, ProcTickKeepsType DEF PhiInv, SchedInv
<1>4. SchedInv' /\ wait_state' = [wait_state EXCEPT ![i] = "none"]
  BY <1>2, <1>3, WakeupKeeps DEF PhiInv
<1>5. \A k \in Procs : wait_state'[k] = "WT_KSEM" <=> wait_state[k] = "WT_KSEM"
  BY <1>2, <1>4 DEF PhiInv, SchedInv, Everyone
<1>6. SemInv'
  BY <1>2, <1>4, <1>5, OthersKeepSemInv DEF PhiInv
<1>7. QED
  BY <1>2, <1>4, <1>6, StillStep

LEMMA IdleSchedulesStep ==
  ASSUME PhiInv, IdleSchedules
  PROVE  PhiInv'
<1>1. /\ current = idleproc
      /\ Schedule(state, wait_state)
      /\ UNCHANGED <<semvars, state_sema, pc>>
  BY DEF IdleSchedules, Running
<1>2. /\ state \in [Everyone -> States]
      /\ wait_state \in [Everyone -> Waits]
      /\ \A k \in Everyone : state[k] = "SLEEPING" <=> wait_state[k] # "none"
      /\ state[idleproc] = "RUNNABLE"
  BY DEF PhiInv, SchedInv, SchedTypeOK, States
<1>3. SchedInv' /\ wait_state' = wait_state
  BY <1>1, <1>2, ScheduleKeeps DEF PhiInv
<1>4. SemInv'
  BY <1>1, <1>3, OthersKeepSemInv DEF PhiInv
<1>5. \A k \in Procs : ~InSection(k)
  BY <1>1, SchedAssumption DEF PhiInv, Section
<1>6. QED
  BY <1>1, <1>3, <1>4, <1>5, StillStep

LEMMA NextPhi == PhiInv /\ [Next]_vars => PhiInv'
<1> SUFFICES ASSUME PhiInv, [Next]_vars PROVE PhiInv'
  OBVIOUS
<1>1. ASSUME NEW i \in Procs, Thread(i) \/ TimerExpires(i) PROVE PhiInv'
  BY <1>1, DownStep, BecomeHungryStep, LookLeftStep, LookRightStep, LeavesStep,
     DoSleepStep, SleepEndsStep, QuitStep, TimerExpiresStep DEF Thread
<1>2. CASE UNCHANGED vars
  <2>1. UNCHANGED <<schedvars, semvars, state_sema, pc>>
    BY <1>2 DEF vars
  <2>2. SchedInv' /\ SemInv'
    BY <2>1, QuietStep DEF schedvars, PhiInv, SchedInv, SchedTypeOK
  <2>3. QED
    BY <2>1, <2>2, StillStep DEF schedvars
<1>3. QED
  BY <1>1, <1>2, TickStep, IdleSchedulesStep DEF Next

-----------------------------------------------------------------------------
\* Every reachable state satisfies the inductive invariant.
THEOREM Invariance == Spec => []PhiInv
BY InitPhi, NextPhi, PTL DEF Spec

\* For every number of philosophers: neighbours never eat at the same time,
\* each has a permit exactly when it is entered as EATING, the critical section
\* is held by the one that runs, and the run list and all assertions hold.
THEOREM TableStaysInOrder == Spec => []TableInOrder
<1>1. PhiInv => TableInOrder
  <2> SUFFICES ASSUME PhiInv PROVE TableInOrder
    OBVIOUS
  <2>1. \A i \in Procs : Eats(i) => state_sema[i] = "EATING" /\ value[i] = 0
    BY DEF PhiInv, Row, Eats, Places, Resting, Feasting
  <2>2. NeighboursApart
    BY <2>1, Neighbours DEF NeighboursApart, PhiInv, Apart
  <2>3. PermitsMatchStates
    <3> SUFFICES ASSUME NEW i \in Procs
                 PROVE  /\ value[i] <= 1
                        /\ Eats(i) => value[i] = 0
                        /\ pc[i] # "drop" => (state_sema[i] = "EATING" <=> Invited(i))
      BY DEF PermitsMatchStates
    <3>1. wait_queue[i] = <<>> <=> Queue(i) = {}
      BY PhilosophersAssumption, EmptyQueue DEF PhiInv
    <3>2. pc[i] \in Places /\ Row(i)
      BY DEF PhiInv
    <3>3. value[i] = 0 \/ value[i] = 1
      BY <3>2 DEF Row, Places
    <3>4. pc[i] # "drop" => (state_sema[i] = "EATING" <=> Invited(i))
      BY <3>1, <3>2 DEF Row, Places, Resting, Feasting, Invited, Eats
    <3>5. QED
      BY <2>1, <3>3, <3>4
  <2>4. QED
    BY <2>2, <2>3 DEF TableInOrder, SectionIsAtomic, PhiInv, Section, SchedInv
<1>2. QED
  BY <1>1, Invariance, PTL
=============================================================================
