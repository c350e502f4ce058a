---------------------------- MODULE TimersProofs ----------------------------
(***************************************************************************)
(* Proofs about Timers: for any number of processes and any time they ask  *)
(* to sleep, its lists stay exact and it implements AlarmClock.            *)
(*                                                                         *)
(* First what add_timer, del_timer and a tick do to the sums of relative   *)
(* expiries (AddTimerIs, DelTimerIs, TickIs), then what that means for the *)
(* alarms a list stands for (AddTimerAlarm, DelTimerAlarm, TickAlarm), at  *)
(* last the inductive invariant TimerInv and the refinement.               *)
(***************************************************************************)
EXTENDS Timers, SemaphoreLemmas

Timer == [proc : Procs, expires : Nat]

-----------------------------------------------------------------------------
(***************************************************************************)
(* The ticks until a timer is due are the sum of the expiries up to it.    *)
(***************************************************************************)
LEMMA PostponedIs ==
  ASSUME NEW t \in Timer, NEW d \in Int, t.expires + d \in Nat
  PROVE  /\ Postponed(t, d) \in Timer
         /\ Postponed(t, d).proc = t.proc
         /\ Postponed(t, d).expires = t.expires + d
BY DEF Postponed, Timer

\* One turn of the sum.
SumStep(sum, t) == sum + t.expires

\* The sum of all the expiries of a list.
SumOf(list) == FoldLeft(LAMBDA sum, t : SumStep(sum, t), 0, list)

\* SumOf as a run: it looks at the timers one by one.
LEMMA SumRun ==
  ASSUME NEW list \in Seq(Timer)
  PROVE  \E g \in [0 .. Len(list) -> Nat] :
            /\ g[0] = 0
            /\ g[Len(list)] = SumOf(list)
            /\ \A i \in 1 .. Len(list) : g[i] = g[i - 1] + list[i].expires
<1> DEFINE N == Len(list)
           F == [i \in 1 .. N |-> [sum \in Nat |-> SumStep(sum, list[i])]]
           iter == CHOOSE it : it = [s \in SUBSET (1 .. N) |->
                      IF s = {} THEN 0
                      ELSE SumStep(it[s \ {Max(s)}], list[Max(s)])]
<1>1. /\ N \in Nat /\ DOMAIN list = 1 .. N
      /\ \A i \in 1 .. N : list[i] \in Timer
  OBVIOUS
<1>2. \A i \in 1 .. N : \A sum \in Nat : SumStep(sum, list[i]) \in Nat
  BY <1>1 DEF SumStep, Timer
<1>3. F \in [1 .. N -> [Nat -> Nat]]
  BY <1>2
<1>4. SumOf(list) = iter[1 .. N]
  BY <1>1 DEF SumOf, FoldLeft, MapThenFoldSet, Max
<1> HIDE DEF N
<1>5. iter = [s \in SUBSET (1 .. N) |->
                 IF s = {} THEN 0
                 ELSE SumStep(iter[s \ {Max(s)}], list[Max(s)])]
  <2>1. PICK it \in [SUBSET (1 .. N) -> Nat] : IsFold(it, N, 0, F)
    <3> HIDE DEF F
    <3>1. QED
      BY <1>1, <1>3, FoldExists
  <2>2. ASSUME NEW s \in SUBSET (1 .. N), s # {}
        PROVE  F[Max(s)][it[s \ {Max(s)}]]
                  = SumStep(it[s \ {Max(s)}], list[Max(s)])
    <3>1. Max(s) \in 1 .. N
      BY <1>1, <2>2, MaxInSet
    <3>2. it[s \ {Max(s)}] \in Nat
      OBVIOUS
    <3>3. QED
      BY <3>1, <3>2
  <2>3. it = [s \in SUBSET (1 .. N) |->
                 IF s = {} THEN 0
                 ELSE SumStep(it[s \ {Max(s)}], list[Max(s)])]
    <3> HIDE DEF F
    <3>1. QED
      BY <2>1, <2>2 DEF IsFold
  <2>4. QED
    BY <2>3
<1>6. FoldsWithin(iter, N, Nat, 0, F)
  <2>1. iter[{}] = 0
    <3> HIDE DEF iter
    <3>1. QED
      BY <1>5
  <2>2. ASSUME NEW s \in SUBSET (1 .. N), s # {}, iter[s \ {Max(s)}] \in Nat
        PROVE  iter[s] = F[Max(s)][iter[s \ {Max(s)}]]
    <3>1. Max(s) \in 1 .. N
      BY <1>1, <2>2, MaxInSet
    <3> HIDE DEF iter
    <3>2. iter[s] = SumStep(iter[s \ {Max(s)}], list[Max(s)])
      BY <1>5, <2>2
    <3>3. QED
      BY <2>2, <3>1, <3>2
  <2> HIDE DEF iter, F
  <2>3. QED
    BY <2>1, <2>2 DEF FoldsWithin
<1>7. PICK g \in [0 .. N -> Nat] : IsRun(g, iter, N, 0, F)
  <2> HIDE DEF iter, F
  <2>1. QED
    BY <1>1, <1>3, <1>6, FoldPrefixes
<1>8. ASSUME NEW i \in 1 .. N
      PROVE  g[i] = g[i - 1] + list[i].expires
  <2>1. i - 1 \in 0 .. N
    BY <1>1
  <2>2. g[i - 1] \in Nat
    BY <2>1
  <2>3. g[i] = F[i][g[i - 1]]
    <3> HIDE DEF F, iter
    <3>1. QED
      BY <1>7 DEF IsRun
  <2>4. g[i] = SumStep(g[i - 1], list[i])
    BY <2>2, <2>3
  <2>5. QED
    BY <2>4 DEF SumStep
<1>9. g[0] = 0 /\ g[N] = SumOf(list)
  <2> HIDE DEF F, iter
  <2>1. QED
    BY <1>4, <1>7 DEF IsRun
<1>10. QED
  BY <1>8, <1>9 DEF N

\* Two runs agree as far as their lists do.
LEMMA SumsAgree ==
  ASSUME NEW n \in Nat, NEW g \in [0 .. n -> Nat], NEW h \in [0 .. n -> Nat],
         NEW e \in [1 .. n -> Nat],
         g[0] = h[0],
         \A i \in 1 .. n : g[i] = g[i - 1] + e[i],
         \A i \in 1 .. n : h[i] = h[i - 1] + e[i]
  PROVE  \A i \in 0 .. n : g[i] = h[i]
<1> DEFINE S == {i \in 0 .. n : g[i] = h[i]}
<1>1. 0 \in S
  OBVIOUS
<1>2. ASSUME NEW i \in 0 .. n, i < n, i \in S
      PROVE  i + 1 \in S
  <2>1. i + 1 \in 1 .. n /\ (i + 1) - 1 = i /\ i + 1 \in 0 .. n
    BY <1>2
  <2>2. g[i + 1] = g[i] + e[i + 1] /\ h[i + 1] = h[i] + e[i + 1]
    BY <2>1
  <2>3. QED
    BY <1>2, <2>1, <2>2
<1> HIDE DEF S
<1>3. 0 .. n \subseteq S
  BY <1>1, <1>2, IntervalInduction
<1>4. QED
  BY <1>3 DEF S

\* What is due at a place is due after what is due at the place in front.
LEMMA DueSteps ==
  ASSUME NEW list \in Seq(Timer)
  PROVE  /\ DueAfter(list, 0) = 0
         /\ \A i \in 0 .. Len(list) : DueAfter(list, i) \in Nat
         /\ \A i \in 1 .. Len(list) :
               DueAfter(list, i) = DueAfter(list, i - 1) + list[i].expires
<1> DEFINE UpTo(i) == SubSeq(list, 1, i)
<1>1. \A i \in 0 .. Len(list) :
         /\ UpTo(i) \in Seq(Timer) /\ Len(UpTo(i)) = i
         /\ \A k \in 1 .. i : UpTo(i)[k] = list[k]
  OBVIOUS
<1>2. \A i : DueAfter(list, i) = SumOf(UpTo(i))
  BY DEF DueAfter, SumOf, SumStep
<1> HIDE DEF UpTo
<1>3. ASSUME NEW i \in 0 .. Len(list)
      PROVE  \E g \in [0 .. i -> Nat] :
                /\ g[0] = 0
                /\ g[i] = DueAfter(list, i)
                /\ \A k \in 1 .. i : g[k] = g[k - 1] + list[k].expires
  <2>1. UpTo(i) \in Seq(Timer) /\ Len(UpTo(i)) = i
    BY <1>1
  <2>2. PICK g \in [0 .. i -> Nat] :
               /\ g[0] = 0
               /\ g[i] = SumOf(UpTo(i))
               /\ \A k \in 1 .. i : g[k] = g[k - 1] + UpTo(i)[k].expires
    BY <2>1, SumRun
  <2>3. QED
    BY <1>1, <1>2, <2>2
<1>4. ASSUME NEW i \in 0 .. Len(list)
      PROVE  DueAfter(list, i) \in Nat
  <2>1. PICK g \in [0 .. i -> Nat] : g[i] = DueAfter(list, i)
    BY <1>3
  <2>2. i \in 0 .. i
    OBVIOUS
  <2>3. QED
    BY <2>1, <2>2
<1>5. DueAfter(list, 0) = 0
  <2>1. 0 \in 0 .. Len(list)
    OBVIOUS
  <2>2. QED
    BY <1>3, <2>1
<1>6. ASSUME NEW i \in 1 .. Len(list)
      PROVE  DueAfter(list, i) = DueAfter(list, i - 1) + list[i].expires
  <2>1. /\ i \in 0 .. Len(list) /\ i - 1 \in 0 .. Len(list) /\ i - 1 \in Nat
        /\ i \in 1 .. i /\ i \in Nat
    OBVIOUS
  <2>2. PICK g \in [0 .. i -> Nat] :
               /\ g[0] = 0
               /\ g[i] = DueAfter(list, i)
               /\ \A k \in 1 .. i : g[k] = g[k - 1] + list[k].expires
    BY <1>3, <2>1
  <2>3. PICK h \in [0 .. i - 1 -> Nat] :
               /\ h[0] = 0
               /\ h[i - 1] = DueAfter(list, i - 1)
               /\ \A k \in 1 .. i - 1 : h[k] = h[k - 1] + list[k].expires
    BY <1>3, <2>1
  <2> DEFINE low == [k \in 0 .. i - 1 |-> g[k]]
             e == [k \in 1 .. i - 1 |-> list[k].expires]
  <2>4. \A k \in 0 .. i - 1 : k \in 0 .. i /\ low[k] = g[k]
    BY <2>1
  <2>5. low \in [0 .. i - 1 -> Nat]
    BY <2>4
  <2>6. e \in [1 .. i - 1 -> Nat]
    <3>1. \A k \in 1 .. i - 1 : k \in 1 .. Len(list) /\ list[k] \in Timer
      BY <2>1
    <3>2. QED
      BY <3>1 DEF Timer
  <2>7. \A k \in 1 .. i - 1 : /\ k - 1 \in 0 .. i - 1 /\ k \in 0 .. i - 1
                             /\ k \in 1 .. i
                             /\ e[k] = list[k].expires
    BY <2>1
  <2>8. \A k \in 1 .. i - 1 : low[k] = low[k - 1] + e[k]
    BY <2>2, <2>4, <2>7
  <2>9. \A k \in 1 .. i - 1 : h[k] = h[k - 1] + e[k]
    BY <2>3, <2>7
  <2>10. low[0] = h[0]
    BY <2>1, <2>2, <2>3, <2>4
  <2> HIDE DEF low, e
  <2>11. low[i - 1] = h[i - 1]
    <3>1. \A k \in 0 .. i - 1 : low[k] = h[k]
      BY <2>1, <2>3, <2>5, <2>6, <2>8, <2>9, <2>10, SumsAgree
    <3>2. i - 1 \in 0 .. i - 1
      BY <2>1
    <3>3. QED
      BY <3>1, <3>2
  <2>12. g[i - 1] = h[i - 1]
    BY <2>1, <2>4, <2>11
  <2>13. QED
    BY <2>1, <2>2, <2>3, <2>12
<1>7. QED
  BY <1>4, <1>5, <1>6

\* Nothing else adds up like that.
LEMMA DueIs ==
  ASSUME NEW list \in Seq(Timer), NEW d \in [0 .. Len(list) -> Nat],
         d[0] = 0,
         \A i \in 1 .. Len(list) : d[i] = d[i - 1] + list[i].expires
  PROVE  \A i \in 0 .. Len(list) : DueAfter(list, i) = d[i]
<1> DEFINE N == Len(list)
           g == [i \in 0 .. N |-> DueAfter(list, i)]
           e == [i \in 1 .. N |-> list[i].expires]
<1>1. N \in Nat /\ \A i \in 1 .. N : i - 1 \in 0 .. N /\ i \in 0 .. N
  OBVIOUS
<1>2. g \in [0 .. N -> Nat]
  BY DueSteps
<1>3. e \in [1 .. N -> Nat]
  <2>1. \A i \in 1 .. N : list[i] \in Timer
    OBVIOUS
  <2>2. \A i \in 1 .. N : list[i].expires \in Nat
    BY <2>1 DEF Timer
  <2>3. QED
    BY <2>2
<1>4. g[0] = d[0]
  BY DueSteps
<1>5. \A i \in 1 .. N : g[i] = g[i - 1] + e[i]
  BY <1>1, DueSteps
<1>6. \A i \in 1 .. N : d[i] = d[i - 1] + e[i]
  OBVIOUS
<1>7. d \in [0 .. N -> Nat]
  OBVIOUS
<1>8. \A i \in 0 .. N : g[i] = DueAfter(list, i)
  OBVIOUS
<1> HIDE DEF g, e, N
<1>9. \A i \in 0 .. N : g[i] = d[i]
  BY <1>1, <1>2, <1>3, <1>4, <1>5, <1>6, <1>7, SumsAgree
<1>10. QED
  BY <1>8, <1>9 DEF N

\* Timers are due in the order of the list.
LEMMA DueInOrder ==
  ASSUME NEW list \in Seq(Timer), NEW j \in 0 .. Len(list), NEW i \in 0 .. j
  PROVE  DueAfter(list, i) <= DueAfter(list, j)
<1> DEFINE N == Len(list)
           S == {k \in 0 .. N : i <= k => DueAfter(list, i) <= DueAfter(list, k)}
<1>1. N \in Nat /\ i \in 0 .. N
  OBVIOUS
<1>2. DueAfter(list, i) \in Nat
  BY <1>1, DueSteps
<1>3. 0 \in S
  BY <1>1, <1>2
<1>4. ASSUME NEW k \in 0 .. N, k < N, k \in S
      PROVE  k + 1 \in S
  <2>1. k + 1 \in 1 .. N /\ k + 1 \in 0 .. N /\ (k + 1) - 1 = k
    BY <1>1, <1>4
  <2>2. DueAfter(list, k + 1) = DueAfter(list, k) + list[k + 1].expires
    BY <2>1, DueSteps
  <2>3. list[k + 1].expires \in Nat /\ DueAfter(list, k) \in Nat
    <3>1. list[k + 1] \in Timer
      BY <2>1
    <3>2. QED
      BY <3>1, DueSteps DEF Timer
  <2>4. CASE i = k + 1
    BY <1>2, <2>1, <2>4
  <2>5. CASE i <= k
    <3>1. DueAfter(list, i) <= DueAfter(list, k)
      BY <1>4, <2>5
    <3>2. DueAfter(list, i) <= DueAfter(list, k + 1)
      BY <1>2, <2>2, <2>3, <3>1
    <3>3. QED
      BY <2>1, <3>2
  <2>6. CASE i > k + 1
    BY <1>1, <2>1, <2>6
  <2>7. i \in Nat /\ k \in Nat
    BY <1>1
  <2>8. QED
    BY <2>4, <2>5, <2>6, <2>7
<1> HIDE DEF S, N
<1>5. 0 .. N \subseteq S
  BY <1>1, <1>3, <1>4, IntervalInduction
<1>6. j \in S /\ i <= j
  BY <1>5 DEF N
<1>7. QED
  BY <1>6 DEF S

\* A set of positions that lacks none before one it holds.
LEMMA InitialPositions ==
  ASSUME NEW N \in Nat, NEW T \in SUBSET (1 .. N),
         \A i \in T : 1 .. i \subseteq T
  PROVE  Cardinality(T) \in 0 .. N /\ T = 1 .. Cardinality(T)
<1>1. \A n \in Nat : Cardinality(1 .. n) = n
  <2> SUFFICES ASSUME NEW n \in Nat PROVE Cardinality(1 .. n) = n
    OBVIOUS
  <2>1. 1 \in Int /\ n \in Int
    OBVIOUS
  <2>2. Cardinality(1 .. n) = IF 1 > n THEN 0 ELSE n - 1 + 1
    BY <2>1, FS_Interval
  <2>3. QED
    BY <2>2
<1>2. CASE T = {}
  <2>1. T = 1 .. 0 /\ 0 \in 0 .. N
    BY <1>2
  <2>2. QED
    BY <1>1, <2>1
<1>3. CASE T # {}
  <2>1. Max(T) \in T /\ \A i \in T : i <= Max(T)
    BY <1>3, MaxInSet
  <2>2. Max(T) \in 1 .. N /\ 1 .. Max(T) \subseteq T
    BY <2>1
  <2>3. Max(T) \in Nat /\ Max(T) \in 0 .. N
    BY <2>2
  <2>6. T \subseteq 1 .. Max(T)
    <3>1. \A i \in T : i \in 1 .. N /\ i <= Max(T)
      BY <2>1
    <3>2. QED
      BY <3>1, <2>3
  <2>7. T = 1 .. Max(T)
    BY <2>2, <2>6
  <2>4. Cardinality(T) = Max(T)
    BY <1>1, <2>3, <2>7
  <2>5. QED
    BY <2>3, <2>4, <2>7
<1>4. QED
  BY <1>2, <1>3

-----------------------------------------------------------------------------
(***************************************************************************)
(* What add_timer, del_timer and a tick make of a list.                    *)
(***************************************************************************)

\* Place i of list is the timer of p, due after d ticks.
Holds(list, i, p, d) == list[i].proc = p /\ DueAfter(list, i) = d

\* The timers that are not due later than the new one stay in front of it.
LEMMA AddTimerIs ==
  ASSUME NEW list \in Seq(Timer), NEW p \in Procs, NEW time \in Nat
  PROVE  \E n \in 0 .. Len(list) :
            /\ AddTimer(list, p, time) \in Seq(Timer)
            /\ Len(AddTimer(list, p, time)) = Len(list) + 1
            /\ \A i \in 1 .. n :
                  Holds(AddTimer(list, p, time), i, list[i].proc, DueAfter(list, i))
            /\ Holds(AddTimer(list, p, time), n + 1, p, time)
            /\ \A i \in n + 1 .. Len(list) :
                  Holds(AddTimer(list, p, time), i + 1, list[i].proc, DueAfter(list, i))
<1> DEFINE N == Len(list)
           passed == {i \in 1 .. N : DueAfter(list, i) <= time}
           n == Cardinality(passed)
           expires == time - DueAfter(list, n)
           new == AddTimer(list, p, time)
<1>1. N \in Nat /\ DOMAIN list = 1 .. N
      /\ \A i \in 1 .. N : list[i] \in Timer
  OBVIOUS
<1>2. n \in 0 .. N /\ passed = 1 .. n
  <2>1. \A j \in passed : 1 .. j \subseteq passed
    <3> SUFFICES ASSUME NEW j \in passed, NEW i \in 1 .. j
                 PROVE  i \in passed
      OBVIOUS
    <3>1. j \in 0 .. N /\ i \in 0 .. j /\ i \in 1 .. N /\ i \in 0 .. N
      BY <1>1
    <3>2. DueAfter(list, i) <= DueAfter(list, j)
      BY <3>1, DueInOrder
    <3>3. DueAfter(list, i) \in Nat /\ DueAfter(list, j) \in Nat
      BY <3>1, DueSteps
    <3>4. DueAfter(list, j) <= time
      OBVIOUS
    <3>5. DueAfter(list, i) <= time
      BY <3>2, <3>3, <3>4
    <3>6. QED
      BY <3>1, <3>5
  <2>2. passed \in SUBSET (1 .. N)
    OBVIOUS
  <2> HIDE DEF passed, N
  <2>3. QED
    BY <1>1, <2>1, <2>2, InitialPositions
<1>3. new = [i \in 1 .. N + 1 |->
               CASE i <= n    -> list[i]
                 [] i = n + 1 -> [proc |-> p, expires |-> expires]
                 [] i = n + 2 -> Postponed(list[n + 1], -expires)
                 [] OTHER     -> list[i - 1]]
  BY <1>1 DEF AddTimer
<1>4. /\ DueAfter(list, n) \in Nat /\ DueAfter(list, n) <= time
      /\ n < N => DueAfter(list, n + 1) > time
      /\ n < N => DueAfter(list, n + 1) = DueAfter(list, n) + list[n + 1].expires
  <2>1. DueAfter(list, n) \in Nat
    BY <1>2, DueSteps
  <2>2. DueAfter(list, n) <= time
    <3>1. CASE n = 0
      BY <3>1, DueSteps
    <3>2. CASE n # 0
      <4>1. n \in 1 .. n
        BY <1>2, <3>2
      <4>2. n \in passed
        BY <1>2, <4>1
      <4>3. QED
        BY <4>2
    <3>3. QED
      BY <3>1, <3>2
  <2>3. ASSUME n < N
        PROVE  /\ DueAfter(list, n + 1) > time
               /\ DueAfter(list, n + 1) = DueAfter(list, n) + list[n + 1].expires
    <3>1. n + 1 \in 1 .. N /\ n + 1 \in 0 .. N /\ (n + 1) - 1 = n
          /\ n + 1 \notin 1 .. n
      BY <1>1, <1>2, <2>3
    <3>2. n + 1 \notin passed
      BY <1>2, <3>1
    <3>3. DueAfter(list, n + 1) \in Nat
      BY <3>1, DueSteps
    <3>4. ~ (DueAfter(list, n + 1) <= time)
      BY <3>1, <3>2
    <3>5. DueAfter(list, n + 1) > time
      BY <3>3, <3>4
    <3>6. QED
      BY <3>1, <3>5, DueSteps
  <2>4. QED
    BY <2>1, <2>2, <2>3
<1> HIDE DEF passed, n, N
<1>5. expires \in Nat
  BY <1>4
<1>6. n < N => /\ Postponed(list[n + 1], -expires) \in Timer
               /\ Postponed(list[n + 1], -expires).proc = list[n + 1].proc
               /\ Postponed(list[n + 1], -expires).expires
                     = list[n + 1].expires - expires
  <2> SUFFICES ASSUME n < N
               PROVE  /\ Postponed(list[n + 1], -expires) \in Timer
                      /\ Postponed(list[n + 1], -expires).proc = list[n + 1].proc
                      /\ Postponed(list[n + 1], -expires).expires
                            = list[n + 1].expires - expires
    OBVIOUS
  <2>1. n + 1 \in 1 .. N
    BY <1>1, <1>2
  <2>2. list[n + 1] \in Timer /\ list[n + 1].expires \in Nat
    BY <1>1, <2>1 DEF Timer
  <2>3. list[n + 1].expires + (-expires) \in Nat /\ -expires \in Int
    BY <1>4, <1>5, <2>2
  <2>4. list[n + 1].expires + (-expires) = list[n + 1].expires - expires
    BY <1>5, <2>2
  <2> HIDE DEF expires
  <2>5. QED
    BY <2>2, <2>3, <2>4, PostponedIs
<1> HIDE DEF expires
<1>7. /\ \A i \in 1 .. n : new[i] = list[i]
      /\ new[n + 1] = [proc |-> p, expires |-> expires]
      /\ n < N => new[n + 2] = Postponed(list[n + 1], -expires)
      /\ \A i \in n + 2 .. N : new[i + 1] = list[i]
  <2> HIDE DEF new
  <2>1. \A i \in 1 .. n : /\ i \in 1 .. N + 1 /\ i <= n
                           /\ i # n + 1 /\ i # n + 2
    BY <1>1, <1>2
  <2>2. n + 1 \in 1 .. N + 1 /\ ~ (n + 1 <= n) /\ n + 1 # n + 2
    BY <1>1, <1>2
  <2>3. n < N => n + 2 \in 1 .. N + 1 /\ ~ (n + 2 <= n) /\ n + 2 # n + 1
    BY <1>1, <1>2
  <2>4. \A i \in n + 2 .. N : /\ i + 1 \in 1 .. N + 1 /\ ~ (i + 1 <= n)
                             /\ i + 1 # n + 1 /\ i + 1 # n + 2
                             /\ (i + 1) - 1 = i
    BY <1>1, <1>2
  <2>5. \A i \in 1 .. n : new[i] = list[i]
    BY <1>3, <2>1
  <2>6. new[n + 1] = [proc |-> p, expires |-> expires]
    BY <1>3, <2>2
  <2>7. n < N => new[n + 2] = Postponed(list[n + 1], -expires)
    BY <1>3, <2>3
  <2>8. \A i \in n + 2 .. N : new[i + 1] = list[i]
    BY <1>3, <2>4
  <2>9. QED
    BY <2>5, <2>6, <2>7, <2>8
<1>8. /\ new \in Seq(Timer) /\ Len(new) = N + 1
  <2>1. \A i \in 1 .. N + 1 : new[i] \in Timer
    <3> SUFFICES ASSUME NEW i \in 1 .. N + 1 PROVE new[i] \in Timer
      OBVIOUS
    <3>1. CASE i <= n
      <4>1. i \in 1 .. n /\ i \in 1 .. N
        BY <1>1, <1>2, <3>1
      <4>2. QED
        BY <1>1, <1>7, <4>1
    <3>2. CASE i = n + 1
      <4>1. [proc |-> p, expires |-> expires] \in Timer
        BY <1>5 DEF Timer
      <4>2. QED
        BY <1>7, <3>2, <4>1
    <3>3. CASE i = n + 2
      <4>1. n < N
        BY <1>1, <1>2, <3>3
      <4>2. QED
        BY <1>6, <1>7, <3>3, <4>1
    <3>4. CASE i > n + 2
      <4>1. i - 1 \in n + 2 .. N /\ (i - 1) + 1 = i /\ i - 1 \in 1 .. N
        BY <1>1, <1>2, <3>4
      <4>2. new[(i - 1) + 1] = list[i - 1]
        BY <1>7, <4>1
      <4>3. QED
        BY <1>1, <4>1, <4>2
    <3>5. i \in Nat /\ n \in Nat
      BY <1>1, <1>2
    <3>6. QED
      BY <3>1, <3>2, <3>3, <3>4, <3>5
  <2>2. \E f : new = [i \in 1 .. N + 1 |-> f[i]]
    <3> DEFINE f == [i \in 1 .. N + 1 |->
                      CASE i <= n    -> list[i]
                        [] i = n + 1 -> [proc |-> p, expires |-> expires]
                        [] i = n + 2 -> Postponed(list[n + 1], -expires)
                        [] OTHER     -> list[i - 1]]
    <3>1. f = [i \in 1 .. N + 1 |-> f[i]]
      OBVIOUS
    <3>2. new = f
      BY <1>3
    <3> HIDE DEF f, new
    <3>3. QED
      BY <3>1, <3>2
  <2> HIDE DEF new
  <2>3. new \in [1 .. N + 1 -> Timer]
    BY <2>1, <2>2
  <2>4. N + 1 \in Nat
    BY <1>1
  <2>5. QED
    BY <2>3, <2>4
<1> HIDE DEF new
\* The sums: as before up to n, the time at n + 1, as before one further on.
<1> DEFINE d == [i \in 0 .. N + 1 |-> IF i <= n THEN DueAfter(list, i)
                                      ELSE IF i = n + 1 THEN time
                                      ELSE DueAfter(list, i - 1)]
<1>9. /\ \A i \in 0 .. n : d[i] = DueAfter(list, i)
      /\ d[n + 1] = time
      /\ \A i \in n + 1 .. N : d[i + 1] = DueAfter(list, i)
  <2>1. \A i \in 0 .. n : i \in 0 .. N + 1 /\ i <= n
    BY <1>1, <1>2
  <2>2. n + 1 \in 0 .. N + 1 /\ ~ (n + 1 <= n)
    BY <1>1, <1>2
  <2>3. \A i \in n + 1 .. N : /\ i + 1 \in 0 .. N + 1 /\ ~ (i + 1 <= n)
                             /\ i + 1 # n + 1 /\ (i + 1) - 1 = i
    BY <1>1, <1>2
  <2>4. QED
    BY <2>1, <2>2, <2>3
<1>10. d \in [0 .. N + 1 -> Nat]
  <2>1. \A i \in 0 .. N : DueAfter(list, i) \in Nat
    BY DueSteps DEF N
  <2>2. \A i \in 0 .. N + 1 : (i <= n => i \in 0 .. N) /\ (~ (i <= n) => i - 1 \in 0 .. N)
    BY <1>1, <1>2
  <2>3. QED
    BY <2>1, <2>2
<1> HIDE DEF d
<1>11. d[0] = 0
  <2>1. 0 \in 0 .. n
    BY <1>2
  <2>2. QED
    BY <1>9, <2>1, DueSteps
<1>12. ASSUME NEW i \in 1 .. N + 1
       PROVE  d[i] = d[i - 1] + new[i].expires
  <2>1. CASE i <= n
    <3>1. i \in 1 .. N /\ i \in 1 .. n /\ i \in 0 .. n /\ i - 1 \in 0 .. n
      BY <1>1, <1>2, <2>1
    <3>2. DueAfter(list, i) = DueAfter(list, i - 1) + list[i].expires
      BY <3>1, DueSteps DEF N
    <3>3. QED
      BY <1>7, <1>9, <3>1, <3>2
  <2>2. CASE i = n + 1
    <3>1. n \in 0 .. n /\ i - 1 = n
      BY <1>2, <2>2
    <3>2. d[i - 1] = DueAfter(list, n) /\ d[i] = time
      BY <1>9, <2>2, <3>1
    <3>3. new[i].expires = expires
      BY <1>7, <2>2
    <3>4. time = DueAfter(list, n) + expires
      BY <1>4 DEF expires
    <3>5. QED
      BY <3>2, <3>3, <3>4
  <2>3. CASE i = n + 2
    <3>1. n < N /\ n + 1 \in n + 1 .. N /\ (n + 1) + 1 = i /\ i - 1 = n + 1
      BY <1>1, <1>2, <2>3
    <3>2. d[i] = DueAfter(list, n + 1) /\ d[i - 1] = time
      BY <1>9, <3>1
    <3>3. new[i].expires = list[n + 1].expires - expires
      BY <1>6, <1>7, <2>3, <3>1
    <3>4. DueAfter(list, n + 1) = time + (list[n + 1].expires - expires)
      <4>1. n + 1 \in 1 .. N
        BY <1>1, <1>2, <3>1
      <4>2. list[n + 1].expires \in Nat
        BY <1>1, <4>1 DEF Timer
      <4>3. QED
        BY <1>4, <3>1, <4>2 DEF expires
    <3>5. QED
      BY <3>2, <3>3, <3>4
  <2>4. CASE i > n + 2
    <3>1. /\ i - 1 \in n + 1 .. N /\ (i - 1) + 1 = i /\ i - 1 \in n + 2 .. N
          /\ i - 2 \in n + 1 .. N /\ (i - 2) + 1 = i - 1 /\ i - 1 \in 1 .. N
          /\ (i - 1) - 1 = i - 2
      BY <1>1, <1>2, <2>4
    <3>2. DueAfter(list, i - 1) = DueAfter(list, (i - 1) - 1) + list[i - 1].expires
      BY <3>1, DueSteps DEF N
    <3>3. d[(i - 1) + 1] = DueAfter(list, i - 1) /\ d[(i - 2) + 1] = DueAfter(list, i - 2)
      BY <1>9, <3>1
    <3>4. new[(i - 1) + 1] = list[i - 1]
      BY <1>7, <3>1
    <3>5. QED
      BY <3>1, <3>2, <3>3, <3>4
  <2>5. i \in Nat /\ n \in Nat
    BY <1>1, <1>2
  <2>6. QED
    BY <2>1, <2>2, <2>3, <2>4, <2>5
<1>13. \A i \in 0 .. N + 1 : DueAfter(new, i) = d[i]
  <2>1. \A i \in 1 .. Len(new) : d[i] = d[i - 1] + new[i].expires
    BY <1>8, <1>12
  <2>2. d \in [0 .. Len(new) -> Nat]
    BY <1>8, <1>10
  <2>3. QED
    BY <1>8, <1>11, <2>1, <2>2, DueIs
<1>14. ASSUME NEW i \in 1 .. n
       PROVE  Holds(new, i, list[i].proc, DueAfter(list, i))
  <2>1. i \in 0 .. n /\ i \in 0 .. N + 1
    BY <1>1, <1>2
  <2>2. QED
    BY <1>7, <1>9, <1>13, <2>1 DEF Holds
<1>15. Holds(new, n + 1, p, time)
  <2>1. n + 1 \in 0 .. N + 1
    BY <1>1, <1>2
  <2>2. QED
    BY <1>7, <1>9, <1>13, <2>1 DEF Holds
<1>16. ASSUME NEW i \in n + 1 .. N
       PROVE  Holds(new, i + 1, list[i].proc, DueAfter(list, i))
  <2>1. i + 1 \in 0 .. N + 1 /\ (i = n + 1 \/ i \in n + 2 .. N) /\ n < N
    BY <1>1, <1>2
  <2>2. new[i + 1].proc = list[i].proc
    <3>1. CASE i = n + 1
      <4>1. i + 1 = n + 2
        BY <1>2, <3>1
      <4>2. QED
        BY <1>6, <1>7, <2>1, <3>1, <4>1
    <3>2. CASE i \in n + 2 .. N
      BY <1>7, <3>2
    <3>3. QED
      BY <2>1, <3>1, <3>2
  <2>3. QED
    BY <1>9, <1>13, <2>1, <2>2 DEF Holds
<1>17. QED
  BY <1>2, <1>8, <1>14, <1>15, <1>16 DEF new, N

\* The timer behind the one deleted inherits what that one had left.
LEMMA DelTimerIs ==
  ASSUME NEW list \in Seq(Timer), NEW i \in 1 .. Len(list),
         \A j \in 1 .. Len(list) : list[j].proc = list[i].proc => j = i,
         NEW new, new = DelTimer(list, list[i].proc)
  PROVE  /\ new \in Seq(Timer)
         /\ Len(new) = Len(list) - 1
         /\ \A k \in 1 .. i - 1 : Holds(new, k, list[k].proc, DueAfter(list, k))
         /\ \A k \in i + 1 .. Len(list) :
               Holds(new, k - 1, list[k].proc, DueAfter(list, k))
<1> DEFINE N == Len(list)
           at == {j \in 1 .. N : list[j].proc = list[i].proc}
           front == SubSeq(list, 1, i - 1)
           rest == SubSeq(list, i + 1, N)
           back == [k \in 1 .. N - i |->
                      IF k = 1 THEN Postponed(rest[1], list[i].expires)
                               ELSE rest[k]]
<1>1. /\ N \in Nat /\ DOMAIN list = 1 .. N /\ i \in Nat /\ 1 <= i /\ i <= N
      /\ \A j \in 1 .. N : list[j] \in Timer
  OBVIOUS
<1>2. at = {i} /\ i = CHOOSE k \in at : TRUE
  <2>1. at = {i}
    OBVIOUS
  <2> HIDE DEF at
  <2>2. QED
    BY <2>1
<1>3. /\ front \in Seq(Timer) /\ Len(front) = i - 1
      /\ \A k \in 1 .. i - 1 : front[k] = list[k]
  BY <1>1
<1>4. /\ rest \in Seq(Timer) /\ Len(rest) = N - i
      /\ DOMAIN rest = 1 .. N - i
      /\ \A k \in 1 .. N - i : rest[k] = list[i + k]
  <2>1. i \in 0 .. Len(list)
    BY <1>1
  <2>2. rest \in Seq(Timer) /\ Len(rest) = N - i
    BY <2>1, SuffixElements
  <2>3. \A k \in 1 .. N - i : rest[k] = list[i + k]
    BY <2>1, SuffixElements
  <2> HIDE DEF rest, N
  <2>4. QED
    BY <2>2, <2>3
<1>5. new = front \o back
  <2>1. at # {}
    BY <1>2
  <2>2. new = front \o [k \in DOMAIN rest |->
                          IF k = 1 THEN Postponed(rest[1], list[i].expires)
                                   ELSE rest[k]]
    BY <1>1, <1>2, <2>1 DEF DelTimer
  <2>3. QED
    BY <1>4, <2>2
<1>6. \A k \in 1 .. N : list[k].expires \in Nat
  BY <1>1 DEF Timer
<1>7. i < N => /\ Postponed(list[i + 1], list[i].expires) \in Timer
               /\ Postponed(list[i + 1], list[i].expires).proc = list[i + 1].proc
               /\ Postponed(list[i + 1], list[i].expires).expires
                     = list[i + 1].expires + list[i].expires
  <2> SUFFICES ASSUME i < N
               PROVE  /\ Postponed(list[i + 1], list[i].expires) \in Timer
                      /\ Postponed(list[i + 1], list[i].expires).proc = list[i + 1].proc
                      /\ Postponed(list[i + 1], list[i].expires).expires
                            = list[i + 1].expires + list[i].expires
    OBVIOUS
  <2>1. i + 1 \in 1 .. N
    BY <1>1
  <2>2. list[i + 1] \in Timer /\ list[i + 1].expires + list[i].expires \in Nat
        /\ list[i].expires \in Int
    BY <1>1, <1>6, <2>1
  <2>3. QED
    BY <2>2, PostponedIs
<1>8. /\ back \in Seq(Timer) /\ Len(back) = N - i
      /\ i < N => back[1] = Postponed(list[i + 1], list[i].expires)
      /\ \A k \in 2 .. N - i : back[k] = list[i + k]
  <2>1. i < N => 1 \in 1 .. N - i /\ rest[1] = list[i + 1]
    BY <1>1, <1>4
  <2>2. \A k \in 1 .. N - i : k # 1 => rest[k] = list[i + k] /\ rest[k] \in Timer
    <3> HIDE DEF rest
    <3>1. \A k \in 1 .. N - i : i + k \in 1 .. N
      BY <1>1
    <3>2. QED
      BY <1>1, <1>4, <3>1
  <2>3. \A k \in 1 .. N - i : i < N
    BY <1>1
  <2>4. \A k \in 1 .. N - i : back[k] \in Timer
    <3> HIDE DEF rest
    <3>1. QED
      BY <1>7, <2>1, <2>2, <2>3
  <2>5. N - i \in Nat
    BY <1>1
  <2>6. back \in Seq(Timer) /\ Len(back) = N - i
    <3>1. back \in [1 .. N - i -> Timer]
      <4> HIDE DEF rest
      <4>1. \E f : back = [k \in 1 .. N - i |-> f[k]]
        <5>1. back = [k \in 1 .. N - i |-> back[k]]
          OBVIOUS
        <5> HIDE DEF back
        <5>2. QED
          BY <5>1
      <4> HIDE DEF back
      <4>2. QED
        BY <2>4, <4>1
    <3> HIDE DEF back
    <3>2. QED
      BY <2>5, <3>1
  <2>7. i < N => back[1] = Postponed(list[i + 1], list[i].expires)
    <3> HIDE DEF rest
    <3>1. QED
      BY <2>1
  <2>8. \A k \in 2 .. N - i : back[k] = list[i + k]
    <3>1. \A k \in 2 .. N - i : k \in 1 .. N - i /\ k # 1
      BY <1>1
    <3> HIDE DEF rest
    <3>2. QED
      BY <2>2, <3>1
  <2> HIDE DEF back
  <2>9. QED
    BY <2>6, <2>7, <2>8
<1> HIDE DEF front, rest, back, at, N
<1>9. /\ new \in Seq(Timer) /\ Len(new) = N - 1
      /\ \A k \in 1 .. N - 1 : new[k] = IF k <= i - 1 THEN front[k]
                                        ELSE back[k - (i - 1)]
  <2>1. Len(front) + Len(back) = N - 1
    BY <1>1, <1>3, <1>8
  <2>2. /\ front \o back \in Seq(Timer)
        /\ Len(front \o back) = Len(front) + Len(back)
        /\ \A k \in 1 .. Len(front) + Len(back) :
              (front \o back)[k] = IF k <= Len(front) THEN front[k]
                                   ELSE back[k - Len(front)]
    BY <1>3, <1>8, ConcatElements
  <2>3. Len(front) = i - 1
    BY <1>3
  <2>4. QED
    BY <1>5, <2>1, <2>2, <2>3
<1>10. /\ \A k \in 1 .. i - 1 : new[k] = list[k]
       /\ i < N => new[i] = Postponed(list[i + 1], list[i].expires)
       /\ \A k \in i + 2 .. N : new[k - 1] = list[k]
  <2>1. \A k \in 1 .. i - 1 : k \in 1 .. N - 1 /\ k <= i - 1
    BY <1>1
  <2>2. i < N => i \in 1 .. N - 1 /\ ~ (i <= i - 1) /\ i - (i - 1) = 1
    BY <1>1
  <2>3. \A k \in i + 2 .. N : /\ k - 1 \in 1 .. N - 1 /\ ~ (k - 1 <= i - 1)
                             /\ (k - 1) - (i - 1) = k - i
                             /\ k - i \in 2 .. N - i /\ i + (k - i) = k
    BY <1>1
  <2>4. \A k \in 1 .. i - 1 : new[k] = list[k]
    BY <1>3, <1>9, <2>1
  <2>5. i < N => new[i] = Postponed(list[i + 1], list[i].expires)
    BY <1>8, <1>9, <2>2
  <2>6. \A k \in i + 2 .. N : new[k - 1] = list[k]
    <3> SUFFICES ASSUME NEW k \in i + 2 .. N PROVE new[k - 1] = list[k]
      OBVIOUS
    <3>1. new[k - 1] = back[k - i]
      BY <1>9, <2>3
    <3>2. back[k - i] = list[k]
      BY <1>8, <2>3
    <3>3. QED
      BY <3>1, <3>2
  <2>7. QED
    BY <2>4, <2>5, <2>6
\* The sums: as before, without the one at place i.
<1> DEFINE d == [k \in 0 .. N - 1 |-> IF k <= i - 1 THEN DueAfter(list, k)
                                      ELSE DueAfter(list, k + 1)]
<1>11. /\ \A k \in 0 .. i - 1 : d[k] = DueAfter(list, k)
       /\ \A k \in i + 1 .. N : d[k - 1] = DueAfter(list, k)
  <2>1. \A k \in 0 .. i - 1 : k \in 0 .. N - 1 /\ k <= i - 1
    BY <1>1
  <2>2. \A k \in i + 1 .. N : /\ k - 1 \in 0 .. N - 1 /\ ~ (k - 1 <= i - 1)
                             /\ (k - 1) + 1 = k
    BY <1>1
  <2>3. QED
    BY <2>1, <2>2
<1>12. d \in [0 .. N - 1 -> Nat]
  <2>1. \A k \in 0 .. N : DueAfter(list, k) \in Nat
    BY DueSteps DEF N
  <2>2. \A k \in 0 .. N - 1 : k \in 0 .. N /\ k + 1 \in 0 .. N
    BY <1>1
  <2>3. QED
    BY <2>1, <2>2
<1> HIDE DEF d
<1>13. d[0] = 0
  <2>1. 0 \in 0 .. i - 1
    BY <1>1
  <2>2. QED
    BY <1>11, <2>1, DueSteps
<1>14. ASSUME NEW k \in 1 .. N - 1
       PROVE  d[k] = d[k - 1] + new[k].expires
  <2>1. CASE k <= i - 1
    <3>1. k \in 1 .. N /\ k \in 1 .. i - 1 /\ k \in 0 .. i - 1 /\ k - 1 \in 0 .. i - 1
      BY <1>1, <2>1
    <3>2. DueAfter(list, k) = DueAfter(list, k - 1) + list[k].expires
      BY <3>1, DueSteps DEF N
    <3>3. QED
      BY <1>10, <1>11, <3>1, <3>2
  <2>2. CASE k = i
    <3>1. i < N /\ i + 1 \in i + 1 .. N /\ (i + 1) - 1 = i /\ i - 1 \in 0 .. i - 1
          /\ i + 1 \in 1 .. N
      BY <1>1, <2>2
    <3>2. d[k] = DueAfter(list, i + 1) /\ d[k - 1] = DueAfter(list, i - 1)
      BY <1>11, <2>2, <3>1
    <3>3. new[k].expires = list[i + 1].expires + list[i].expires
      BY <1>7, <1>10, <2>2, <3>1
    <3>4. /\ DueAfter(list, i + 1) = DueAfter(list, i) + list[i + 1].expires
          /\ DueAfter(list, i) = DueAfter(list, i - 1) + list[i].expires
      BY <3>1, DueSteps DEF N
    <3>5. DueAfter(list, i - 1) \in Nat /\ list[i].expires \in Nat
          /\ list[i + 1].expires \in Nat
      <4>1. i - 1 \in 0 .. N /\ i \in 1 .. N
        BY <1>1
      <4>2. QED
        BY <1>6, <3>1, <4>1, DueSteps DEF N
    <3>6. QED
      BY <3>2, <3>3, <3>4, <3>5
  <2>3. CASE k > i
    <3>1. /\ k + 1 \in i + 1 .. N /\ k \in i + 1 .. N /\ k + 1 \in i + 2 .. N
          /\ (k + 1) - 1 = k /\ k + 1 \in 1 .. N
      BY <1>1, <2>3
    <3>2. DueAfter(list, k + 1) = DueAfter(list, (k + 1) - 1) + list[k + 1].expires
      BY <3>1, DueSteps DEF N
    <3>3. d[(k + 1) - 1] = DueAfter(list, k + 1) /\ d[k - 1] = DueAfter(list, k)
      BY <1>11, <3>1
    <3>4. new[(k + 1) - 1] = list[k + 1]
      BY <1>10, <3>1
    <3>5. QED
      BY <3>1, <3>2, <3>3, <3>4
  <2>4. k \in Nat /\ i \in Nat
    BY <1>1
  <2>5. QED
    BY <2>1, <2>2, <2>3, <2>4
<1>15. \A k \in 0 .. N - 1 : DueAfter(new, k) = d[k]
  <2>1. \A k \in 1 .. Len(new) : d[k] = d[k - 1] + new[k].expires
    BY <1>9, <1>14
  <2>2. d \in [0 .. Len(new) -> Nat]
    BY <1>9, <1>12
  <2>3. QED
    BY <1>9, <1>13, <2>1, <2>2, DueIs
<1>16. ASSUME NEW k \in 1 .. i - 1
       PROVE  Holds(new, k, list[k].proc, DueAfter(list, k))
  <2>1. k \in 0 .. i - 1 /\ k \in 0 .. N - 1
    BY <1>1
  <2>2. QED
    BY <1>10, <1>11, <1>15, <2>1 DEF Holds
<1>17. ASSUME NEW k \in i + 1 .. N
       PROVE  Holds(new, k - 1, list[k].proc, DueAfter(list, k))
  <2>1. k - 1 \in 0 .. N - 1 /\ (k = i + 1 \/ k \in i + 2 .. N) /\ i < N
    BY <1>1
  <2>2. new[k - 1].proc = list[k].proc
    <3>1. CASE k = i + 1
      <4>1. k - 1 = i
        BY <1>1, <3>1
      <4>2. QED
        BY <1>7, <1>10, <2>1, <3>1, <4>1
    <3>2. CASE k \in i + 2 .. N
      BY <1>10, <3>2
    <3>3. QED
      BY <2>1, <3>1, <3>2
  <2>3. QED
    BY <1>11, <1>15, <2>1, <2>2 DEF Holds
<1>18. QED
  BY <1>9, <1>16, <1>17 DEF N

\* The list after its head has been counted down.
CountedDown(list) ==
    [i \in DOMAIN list |-> IF i = 1 THEN Postponed(list[1], -1) ELSE list[i]]

\* How many timers are due then.
DueNow(list) == IF CountedDown(list) = <<>> THEN 0 ELSE Due(CountedDown(list))

LEMMA CountedDownIs ==
  ASSUME NEW list \in Seq(Timer), list # <<>>, list[1].expires > 0
  PROVE  /\ CountedDown(list) \in Seq(Timer)
         /\ Len(CountedDown(list)) = Len(list)
         /\ \A i \in 1 .. Len(list) :
               Holds(CountedDown(list), i, list[i].proc, DueAfter(list, i) - 1)
<1> DEFINE N == Len(list)
           less == CountedDown(list)
<1>1. /\ N \in Nat /\ DOMAIN list = 1 .. N /\ N > 0
      /\ \A j \in 1 .. N : list[j] \in Timer
  OBVIOUS
<1>2. less = [i \in 1 .. N |-> IF i = 1 THEN Postponed(list[1], -1) ELSE list[i]]
  BY <1>1 DEF CountedDown
<1>3. /\ Postponed(list[1], -1) \in Timer
      /\ Postponed(list[1], -1).proc = list[1].proc
      /\ Postponed(list[1], -1).expires = list[1].expires - 1
  <2>1. 1 \in 1 .. N
    BY <1>1
  <2>2. list[1] \in Timer /\ list[1].expires \in Nat
    BY <1>1, <2>1 DEF Timer
  <2>3. list[1].expires + (-1) \in Nat /\ -1 \in Int
        /\ list[1].expires + (-1) = list[1].expires - 1
    BY <2>2
  <2>4. QED
    BY <2>2, <2>3, PostponedIs
<1>4. /\ less[1] = Postponed(list[1], -1)
      /\ \A i \in 2 .. N : less[i] = list[i]
  <2>1. 1 \in 1 .. N /\ \A i \in 2 .. N : i \in 1 .. N /\ i # 1
    BY <1>1
  <2>2. QED
    BY <1>2, <2>1
<1>5. less \in Seq(Timer) /\ Len(less) = N
  <2>1. \A i \in 1 .. N : less[i] \in Timer
    BY <1>1, <1>2, <1>3
  <2>2. \E f : less = [i \in 1 .. N |-> f[i]]
    <3>1. less = [i \in 1 .. N |-> less[i]]
      BY <1>2
    <3> HIDE DEF less
    <3>2. QED
      BY <3>1
  <2> HIDE DEF less, N
  <2>3. less \in [1 .. N -> Timer]
    BY <2>1, <2>2
  <2>4. QED
    BY <1>1, <2>3
<1> HIDE DEF less, N
<1> DEFINE d == [i \in 0 .. N |-> IF i = 0 THEN 0 ELSE DueAfter(list, i) - 1]
<1>6. \A i \in 1 .. N : DueAfter(list, i) \in Nat /\ DueAfter(list, i) > 0
  <2> SUFFICES ASSUME NEW i \in 1 .. N
               PROVE  DueAfter(list, i) \in Nat /\ DueAfter(list, i) > 0
    OBVIOUS
  <2>1. i \in 0 .. N /\ 1 \in 0 .. i /\ 1 \in 1 .. N /\ 1 - 1 = 0
    BY <1>1
  <2>2. DueAfter(list, 1) <= DueAfter(list, i)
    BY <2>1, DueInOrder DEF N
  <2>3. DueAfter(list, 1) = 0 + list[1].expires
    BY <2>1, DueSteps DEF N
  <2>4. list[1].expires \in Nat
    BY <1>1, <2>1 DEF Timer
  <2>5. DueAfter(list, i) \in Nat
    BY <2>1, DueSteps DEF N
  <2>6. QED
    BY <2>2, <2>3, <2>4, <2>5
<1>7. /\ d[0] = 0
      /\ \A i \in 1 .. N : d[i] = DueAfter(list, i) - 1
  <2>1. 0 \in 0 .. N /\ \A i \in 1 .. N : i \in 0 .. N /\ i # 0
    BY <1>1
  <2>2. QED
    BY <2>1
<1>8. d \in [0 .. N -> Nat]
  <2>1. \A i \in 0 .. N : i # 0 => DueAfter(list, i) - 1 \in Nat
    <3>1. \A i \in 0 .. N : i # 0 => i \in 1 .. N
      BY <1>1
    <3>2. QED
      BY <1>6, <3>1
  <2>2. QED
    BY <2>1
<1> HIDE DEF d
<1>9. ASSUME NEW i \in 1 .. N
      PROVE  d[i] = d[i - 1] + less[i].expires
  <2>1. DueAfter(list, i) = DueAfter(list, i - 1) + list[i].expires
    BY DueSteps DEF N
  <2>2. list[i].expires \in Nat
    BY <1>1 DEF Timer
  <2>3. CASE i = 1
    <3>1. i - 1 = 0 /\ DueAfter(list, 0) = 0
      BY <2>3, DueSteps
    <3>2. QED
      BY <1>3, <1>4, <1>7, <2>1, <2>2, <2>3, <3>1
  <2>4. CASE i # 1
    <3>1. i - 1 \in 1 .. N /\ i \in 2 .. N
      BY <1>1, <2>4
    <3>2. less[i].expires = list[i].expires
      BY <1>4, <3>1
    <3>3. d[i] = DueAfter(list, i) - 1 /\ d[i - 1] = DueAfter(list, i - 1) - 1
      BY <1>7, <3>1
    <3>4. DueAfter(list, i - 1) \in Nat
      BY <1>6, <3>1
    <3>5. QED
      BY <2>1, <2>2, <3>2, <3>3, <3>4
  <2>5. QED
    BY <2>3, <2>4
<1>10. \A i \in 0 .. N : DueAfter(less, i) = d[i]
  <2>1. \A i \in 1 .. Len(less) : d[i] = d[i - 1] + less[i].expires
    BY <1>5, <1>9
  <2>2. d \in [0 .. Len(less) -> Nat]
    BY <1>5, <1>8
  <2>3. QED
    BY <1>5, <1>7, <2>1, <2>2, DueIs
<1>11. ASSUME NEW i \in 1 .. N
       PROVE  Holds(less, i, list[i].proc, DueAfter(list, i) - 1)
  <2>1. i \in 0 .. N /\ (i = 1 \/ i \in 2 .. N)
    BY <1>1
  <2>2. less[i].proc = list[i].proc
    BY <1>3, <1>4, <2>1
  <2>3. QED
    BY <1>7, <1>10, <2>1, <2>2 DEF Holds
<1>12. QED
  BY <1>5, <1>11 DEF less, N

\* A tick: the timers due after one are the n at the head, and the others
\* come one tick closer.
Ticked(list, less, n, rest) ==
    /\ less \in Seq(Timer) /\ Len(less) = Len(list)
    /\ \A i \in 1 .. Len(list) : less[i].proc = list[i].proc
    /\ n \in 0 .. Len(list)
    /\ \A i \in 1 .. n : DueAfter(list, i) = 1
    /\ rest \in Seq(Timer) /\ Len(rest) = Len(list) - n
    /\ \A i \in n + 1 .. Len(list) :
          /\ DueAfter(list, i) > 1
          /\ Holds(rest, i - n, list[i].proc, DueAfter(list, i) - 1)

LEMMA TickIs ==
  ASSUME NEW list \in Seq(Timer), list # <<>> => list[1].expires > 0,
         NEW less, less = CountedDown(list),
         NEW n, n = DueNow(list),
         NEW rest, rest = SubSeq(less, n + 1, Len(less))
  PROVE  Ticked(list, less, n, rest)
<1> USE DEF Ticked
<1>1. CASE list = <<>>
  <2>1. less = <<>> /\ Len(list) = 0
    BY <1>1 DEF CountedDown
  <2>2. n = 0
    BY <2>1 DEF DueNow
  <2>3. rest \in Seq(Timer) /\ Len(rest) = 0
    BY <2>1, <2>2
  <2>4. QED
    BY <2>1, <2>2, <2>3
<1>2. CASE list # <<>>
  <2> DEFINE N == Len(list)
             T == {i \in 1 .. N : \A k \in 1 .. i : less[k].expires = 0}
  <2>1. /\ less \in Seq(Timer) /\ Len(less) = N /\ DOMAIN less = 1 .. N
        /\ N \in Nat /\ N > 0
        /\ \A i \in 1 .. N : Holds(less, i, list[i].proc, DueAfter(list, i) - 1)
    BY <1>2, CountedDownIs
  <2>2. n = Cardinality(T)
    <3>1. less # <<>>
      BY <2>1
    <3>2. QED
      BY <2>1, <3>1 DEF DueNow, Due
  <2> HIDE DEF N
  <2>3. n \in 0 .. N /\ T = 1 .. n
    <3>1. \A i \in T : 1 .. i \subseteq T
      <4> SUFFICES ASSUME NEW i \in T, NEW j \in 1 .. i PROVE j \in T
        OBVIOUS
      <4>1. j \in 1 .. N /\ \A k \in 1 .. j : k \in 1 .. i
        BY <2>1
      <4>2. QED
        BY <4>1
    <3>2. T \in SUBSET (1 .. N)
      OBVIOUS
    <3> HIDE DEF T
    <3>3. QED
      BY <2>1, <2>2, <3>1, <3>2, InitialPositions
  <2>4. \A i \in 0 .. N : DueAfter(less, i) \in Nat
    BY <2>1, DueSteps
  <2>5. \A i \in 1 .. N : less[i].expires \in Nat
    <3>1. \A i \in 1 .. N : less[i] \in Timer
      BY <2>1
    <3>2. QED
      BY <3>1 DEF Timer
  \* Nothing is left up to place n, and something from there on.
  <2>6. \A i \in 0 .. n : DueAfter(less, i) = 0
    <3> DEFINE S == {i \in 0 .. n : DueAfter(less, i) = 0}
    <3>1. 0 \in S
      BY <2>1, <2>3, DueSteps
    <3>2. ASSUME NEW i \in 0 .. n, i < n, i \in S
          PROVE  i + 1 \in S
      <4>1. i + 1 \in 0 .. n /\ i + 1 \in 1 .. n /\ i + 1 \in 1 .. N
            /\ (i + 1) - 1 = i /\ i + 1 \in 1 .. i + 1
        BY <2>1, <2>3, <3>2
      <4>2. i + 1 \in T
        BY <2>3, <4>1
      <4>3. less[i + 1].expires = 0
        BY <4>1, <4>2
      <4>4. DueAfter(less, i + 1) = DueAfter(less, i) + less[i + 1].expires
        BY <2>1, <4>1, DueSteps
      <4>5. QED
        BY <3>2, <4>1, <4>3, <4>4
    <3> HIDE DEF S, T
    <3>3. n \in Nat
      BY <2>1, <2>3
    <3>4. 0 .. n \subseteq S
      BY <3>1, <3>2, <3>3, IntervalInduction
    <3>5. QED
      BY <3>4 DEF S
  <2>7. \A i \in n + 1 .. N : DueAfter(less, i) > 0
    <3> SUFFICES ASSUME NEW i \in n + 1 .. N, DueAfter(less, i) = 0
                 PROVE  FALSE
      <4>1. \A i \in n + 1 .. N : i \in 0 .. N
        BY <2>1, <2>3
      <4>2. \A i \in n + 1 .. N : DueAfter(less, i) \in Nat
        BY <2>4, <4>1
      <4>3. QED
        BY <4>2
    <3>1. i \in 1 .. N /\ i \notin 1 .. n /\ i \in 0 .. N
      BY <2>1, <2>3
    <3>2. PICK k \in 1 .. i : less[k].expires # 0
      BY <2>3, <3>1
    <3>3. k \in 1 .. N /\ k \in 0 .. i /\ k - 1 \in 0 .. N
      BY <2>1, <3>1
    <3>4. DueAfter(less, k) = DueAfter(less, k - 1) + less[k].expires
      BY <2>1, <3>3, DueSteps
    <3>5. DueAfter(less, k) <= DueAfter(less, i)
      BY <2>1, <3>1, <3>3, DueInOrder
    <3>6. DueAfter(less, k - 1) \in Nat /\ less[k].expires \in Nat
      BY <2>4, <2>5, <3>3
    <3>7. QED
      BY <3>2, <3>4, <3>5, <3>6
  <2> HIDE DEF T
  <2>8. /\ rest \in Seq(Timer) /\ Len(rest) = N - n
        /\ \A j \in 1 .. N - n : rest[j] = less[n + j]
    BY <2>1, <2>3, SuffixElements
  <2> DEFINE d == [j \in 0 .. N - n |-> DueAfter(less, n + j)]
  <2>9. d[0] = 0
    <3>1. n \in 0 .. n /\ 0 \in 0 .. N - n /\ n + 0 = n
      BY <2>1, <2>3
    <3>2. QED
      BY <2>6, <3>1
  <2>10. d \in [0 .. N - n -> Nat]
    <3>1. \A j \in 0 .. N - n : n + j \in 0 .. N
      BY <2>1, <2>3
    <3>2. QED
      BY <2>4, <3>1
  <2>11. ASSUME NEW j \in 1 .. N - n
         PROVE  d[j] = d[j - 1] + rest[j].expires
    <3>1. n + j \in 1 .. N /\ (n + j) - 1 = n + (j - 1) /\ j \in 0 .. N - n
          /\ j - 1 \in 0 .. N - n
      BY <2>1, <2>3
    <3>2. DueAfter(less, n + j) = DueAfter(less, (n + j) - 1) + less[n + j].expires
      BY <2>1, <3>1, DueSteps
    <3>3. QED
      BY <2>8, <3>1, <3>2
  <2>12. \A j \in 1 .. N - n : d[j] = DueAfter(less, n + j)
    BY <2>1, <2>3
  <2> HIDE DEF d
  <2>13. \A j \in 1 .. N - n : DueAfter(rest, j) = DueAfter(less, n + j)
    <3>1. \A j \in 1 .. Len(rest) : d[j] = d[j - 1] + rest[j].expires
      BY <2>8, <2>11
    <3>2. d \in [0 .. Len(rest) -> Nat]
      BY <2>8, <2>10
    <3>3. \A j \in 0 .. Len(rest) : DueAfter(rest, j) = d[j]
      BY <2>8, <2>9, <3>1, <3>2, DueIs
    <3>4. \A j \in 1 .. N - n : j \in 0 .. N - n
      BY <2>1, <2>3
    <3>5. QED
      BY <2>8, <2>12, <3>3, <3>4
  <2>14. \A i \in 1 .. N : DueAfter(list, i) \in Nat
    <3>1. \A i \in 1 .. N : i \in 0 .. N
      BY <2>1
    <3>2. QED
      BY <3>1, DueSteps DEF N
  <2>15. ASSUME NEW i \in 1 .. n
         PROVE  DueAfter(list, i) = 1
    <3>1. i \in 1 .. N /\ i \in 0 .. n
      BY <2>1, <2>3
    <3>2. DueAfter(less, i) = DueAfter(list, i) - 1
      BY <2>1, <3>1 DEF Holds
    <3>3. QED
      BY <2>6, <2>14, <3>1, <3>2
  <2>16. ASSUME NEW i \in n + 1 .. N
         PROVE  /\ DueAfter(list, i) > 1
                /\ Holds(rest, i - n, list[i].proc, DueAfter(list, i) - 1)
    <3>1. i \in 1 .. N /\ i - n \in 1 .. N - n /\ n + (i - n) = i
      BY <2>1, <2>3
    <3>2. DueAfter(less, i) = DueAfter(list, i) - 1 /\ less[i].proc = list[i].proc
      BY <2>1, <3>1 DEF Holds
    <3>3. DueAfter(list, i) > 1
      BY <2>7, <2>14, <3>1, <3>2
    <3>4. rest[i - n] = less[i] /\ DueAfter(rest, i - n) = DueAfter(less, i)
      BY <2>8, <2>13, <3>1
    <3>5. QED
      BY <3>2, <3>3, <3>4 DEF Holds
  <2>17. \A i \in 1 .. N : less[i].proc = list[i].proc
    BY <2>1 DEF Holds
  <2>18. QED
    BY <2>1, <2>3, <2>8, <2>15, <2>16, <2>17 DEF N
<1>3. QED
  BY <1>1, <1>2

-----------------------------------------------------------------------------
(***************************************************************************)
(* The alarms that a list of timers stands for.                            *)
(***************************************************************************)
TimedIn(list) == {list[i].proc : i \in DOMAIN list}

Alarm(list) ==
    [p \in TimedIn(list) |->
        DueAfter(list, CHOOSE i \in DOMAIN list : list[i].proc = p)]

LEMMA AlarmIsFunction ==
  ASSUME NEW list
  PROVE  Alarm(list) = [p \in TimedIn(list) |-> Alarm(list)[p]]
BY DEF Alarm

\* Nobody has two timers, and no timer on the list is due already.
ListSound(list) ==
    /\ list \in Seq(Timer)
    /\ \A i, j \in 1 .. Len(list) : list[i].proc = list[j].proc => i = j
    /\ \A i \in 1 .. Len(list) : DueAfter(list, i) > 0

LEMMA AlarmAt ==
  ASSUME NEW list, ListSound(list)
  PROVE  /\ TimedIn(list) = {list[i].proc : i \in 1 .. Len(list)}
         /\ TimedIn(list) \subseteq Procs
         /\ DOMAIN Alarm(list) = TimedIn(list)
         /\ \A i \in 1 .. Len(list) : Alarm(list)[list[i].proc] = DueAfter(list, i)
         /\ \A p \in TimedIn(list) : Alarm(list)[p] \in Nat /\ Alarm(list)[p] > 0
<1>1. list \in Seq(Timer) /\ DOMAIN list = 1 .. Len(list)
  BY DEF ListSound
<1>2. TimedIn(list) = {list[i].proc : i \in 1 .. Len(list)}
  BY <1>1 DEF TimedIn
<1>3. TimedIn(list) \subseteq Procs
  <2>1. \A i \in 1 .. Len(list) : list[i] \in Timer
    BY <1>1
  <2>2. QED
    BY <1>2, <2>1 DEF Timer
<1>4. ASSUME NEW i \in 1 .. Len(list)
      PROVE  Alarm(list)[list[i].proc] = DueAfter(list, i)
  <2>1. list[i].proc \in TimedIn(list)
    BY <1>2
  <2>2. i = CHOOSE k \in DOMAIN list : list[k].proc = list[i].proc
    <3>1. \A k \in DOMAIN list : list[k].proc = list[i].proc => k = i
      BY <1>1 DEF ListSound
    <3>2. i \in DOMAIN list /\ list[i].proc = list[i].proc
      BY <1>1
    <3>3. QED
      BY <3>1, <3>2
  <2>3. QED
    BY <2>1, <2>2 DEF Alarm
<1>5. ASSUME NEW p \in TimedIn(list)
      PROVE  Alarm(list)[p] \in Nat /\ Alarm(list)[p] > 0
  <2>1. PICK i \in 1 .. Len(list) : p = list[i].proc
    BY <1>2
  <2>2. i \in 0 .. Len(list)
    BY <1>1
  <2>3. DueAfter(list, i) \in Nat /\ DueAfter(list, i) > 0
    BY <1>1, <2>2, DueSteps DEF ListSound
  <2>4. QED
    BY <1>4, <2>1, <2>3
<1>6. DOMAIN Alarm(list) = TimedIn(list)
  BY DEF Alarm
<1>7. QED
  BY <1>2, <1>3, <1>4, <1>5, <1>6

\* The head of a list has something left.
LEMMA HeadHasTime ==
  ASSUME NEW list, ListSound(list), list # <<>>
  PROVE  list[1].expires > 0
<1>1. list \in Seq(Timer) /\ 1 \in 1 .. Len(list) /\ 1 - 1 = 0
  BY DEF ListSound
<1>2. DueAfter(list, 1) = 0 + list[1].expires
  BY <1>1, DueSteps
<1>3. list[1] \in Timer
  BY <1>1
<1>4. QED
  BY <1>1, <1>2, <1>3 DEF ListSound, Timer

\* A list without timers.
LEMMA EmptyIsSound ==
  /\ ListSound(<<>>)
  /\ TimedIn(<<>>) = {}
  /\ Alarm(<<>>) = [p \in {} |-> 0]
BY DEF ListSound, TimedIn, Alarm

\* The timers of the places in keep are all that remain, at the places that
\* back leads from, each so many ticks closer to its time.
Remain(new, list, keep, back, ticks) ==
    /\ keep \in SUBSET (1 .. Len(list))
    /\ new \in Seq(Timer)
    /\ back \in [1 .. Len(new) -> keep]
    /\ \A j, k \in 1 .. Len(new) : back[j] = back[k] => j = k
    /\ \A i \in keep : \E j \in 1 .. Len(new) : back[j] = i
    /\ \A i \in keep : DueAfter(list, i) > ticks
    /\ \A j \in 1 .. Len(new) :
          Holds(new, j, list[back[j]].proc, DueAfter(list, back[j]) - ticks)

ProcsAt(list, keep) == {list[i].proc : i \in keep}

LEMMA RestIsSound ==
  ASSUME NEW list, ListSound(list), NEW keep, NEW new, NEW ticks \in Nat,
         NEW back, Remain(new, list, keep, back, ticks)
  PROVE  /\ ListSound(new)
         /\ TimedIn(new) = ProcsAt(list, keep)
         /\ \A p \in TimedIn(new) :
               p \in TimedIn(list) /\ Alarm(new)[p] = Alarm(list)[p] - ticks
<1> USE DEF Remain, ProcsAt
<1>1. \A j \in 1 .. Len(new) :
         /\ back[j] \in 1 .. Len(list)
         /\ new[j].proc = list[back[j]].proc
         /\ DueAfter(new, j) = DueAfter(list, back[j]) - ticks
  BY DEF Holds
<1>2. \A i \in keep : DueAfter(list, i) \in Nat
  <2>1. \A i \in keep : i \in 0 .. Len(list)
    BY DEF ListSound
  <2>2. QED
    BY <2>1, DueSteps DEF ListSound
<1>3. ListSound(new)
  <2>1. ASSUME NEW j \in 1 .. Len(new), NEW k \in 1 .. Len(new),
               new[j].proc = new[k].proc
        PROVE  j = k
    <3>1. list[back[j]].proc = list[back[k]].proc
      BY <1>1, <2>1
    <3>2. back[j] = back[k]
      BY <1>1, <3>1 DEF ListSound
    <3>3. QED
      BY <3>2
  <2>2. \A j \in 1 .. Len(new) : DueAfter(new, j) > 0
    <3> SUFFICES ASSUME NEW j \in 1 .. Len(new) PROVE DueAfter(new, j) > 0
      OBVIOUS
    <3>1. back[j] \in keep
      OBVIOUS
    <3>2. DueAfter(list, back[j]) > ticks /\ DueAfter(list, back[j]) \in Nat
      BY <1>2, <3>1
    <3>3. QED
      BY <1>1, <3>2
  <2>3. QED
    BY <2>1, <2>2 DEF ListSound
<1>4. TimedIn(new) = {list[i].proc : i \in keep}
  <2>1. TimedIn(new) = {new[j].proc : j \in 1 .. Len(new)}
    BY <1>3, AlarmAt
  <2>2. ASSUME NEW p \in TimedIn(new)
        PROVE  \E i \in keep : p = list[i].proc
    <3>1. PICK j \in 1 .. Len(new) : p = new[j].proc
      BY <2>1
    <3>2. back[j] \in keep /\ p = list[back[j]].proc
      BY <1>1, <3>1
    <3>3. QED
      BY <3>2
  <2>3. {list[i].proc : i \in keep} \subseteq TimedIn(new)
    BY <1>1, <2>1
  <2>4. QED
    BY <2>2, <2>3
<1>5. ASSUME NEW p \in TimedIn(new)
      PROVE  p \in TimedIn(list) /\ Alarm(new)[p] = Alarm(list)[p] - ticks
  <2>1. PICK j \in 1 .. Len(new) : p = new[j].proc
    BY <1>3, AlarmAt
  <2>2. back[j] \in 1 .. Len(list) /\ p = list[back[j]].proc
    BY <1>1, <2>1
  <2>3. Alarm(new)[p] = DueAfter(new, j)
    BY <1>3, <2>1, AlarmAt
  <2>4. Alarm(list)[p] = DueAfter(list, back[j]) /\ p \in TimedIn(list)
    BY <2>2, AlarmAt
  <2>5. QED
    BY <1>1, <2>3, <2>4
<1>6. QED
  BY <1>3, <1>4, <1>5

\* The alarms that one more makes of those set.
OneMore(set, p, time) ==
    [q \in DOMAIN set \cup {p} |-> IF q = p THEN time ELSE set[q]]

\* add_timer sets one more alarm.
LEMMA AddTimerAlarm ==
  ASSUME NEW list, ListSound(list), NEW p \in Procs, p \notin TimedIn(list),
         NEW time \in Nat \ {0},
         NEW new, new = AddTimer(list, p, time)
  PROVE  /\ ListSound(new)
         /\ TimedIn(new) = TimedIn(list) \cup {p}
         /\ Alarm(new) = OneMore(Alarm(list), p, time)
<1> DEFINE N == Len(list)
<1>1. list \in Seq(Timer) /\ N \in Nat
  BY DEF ListSound
<1>2. PICK n \in 0 .. N :
            /\ new \in Seq(Timer)
            /\ Len(new) = N + 1
            /\ \A i \in 1 .. n : Holds(new, i, list[i].proc, DueAfter(list, i))
            /\ Holds(new, n + 1, p, time)
            /\ \A i \in n + 1 .. N :
                  Holds(new, i + 1, list[i].proc, DueAfter(list, i))
  <2>1. time \in Nat
    OBVIOUS
  <2>2. QED
    BY <1>1, <2>1, AddTimerIs
<1> DEFINE old(j) == IF j <= n THEN j ELSE j - 1
<1>3. \A j \in 1 .. N + 1 : j # n + 1 =>
         /\ old(j) \in 1 .. N
         /\ new[j].proc = list[old(j)].proc
         /\ DueAfter(new, j) = DueAfter(list, old(j))
         /\ j = IF old(j) <= n THEN old(j) ELSE old(j) + 1
  <2> SUFFICES ASSUME NEW j \in 1 .. N + 1, j # n + 1
               PROVE  /\ old(j) \in 1 .. N
                      /\ new[j].proc = list[old(j)].proc
                      /\ DueAfter(new, j) = DueAfter(list, old(j))
                      /\ j = IF old(j) <= n THEN old(j) ELSE old(j) + 1
    OBVIOUS
  <2>1. CASE j <= n
    <3>1. j \in 1 .. n /\ j \in 1 .. N /\ old(j) = j
      BY <1>1, <2>1
    <3>2. QED
      BY <1>2, <2>1, <3>1 DEF Holds
  <2>2. CASE ~ (j <= n)
    <3>1. /\ j - 1 \in n + 1 .. N /\ (j - 1) + 1 = j /\ old(j) = j - 1
          /\ j - 1 \in 1 .. N /\ ~ (j - 1 <= n)
      BY <1>1, <2>2
    <3>2. Holds(new, (j - 1) + 1, list[j - 1].proc, DueAfter(list, j - 1))
      BY <1>2, <3>1
    <3>3. QED
      BY <3>1, <3>2 DEF Holds
  <2>3. QED
    BY <2>1, <2>2
<1>4. n + 1 \in 1 .. N + 1 /\ new[n + 1].proc = p /\ DueAfter(new, n + 1) = time
  BY <1>1, <1>2 DEF Holds
<1>5. \A i \in 1 .. N : \E j \in 1 .. N + 1 : j # n + 1 /\ old(j) = i
  <2> SUFFICES ASSUME NEW i \in 1 .. N
               PROVE  \E j \in 1 .. N + 1 : j # n + 1 /\ old(j) = i
    OBVIOUS
  <2>1. CASE i <= n
    <3>1. i \in 1 .. N + 1 /\ i # n + 1 /\ old(i) = i
      BY <1>1, <2>1
    <3>2. QED
      BY <3>1
  <2>2. CASE ~ (i <= n)
    <3>1. i + 1 \in 1 .. N + 1 /\ i + 1 # n + 1 /\ old(i + 1) = i
      BY <1>1, <2>2
    <3>2. QED
      BY <3>1
  <2>3. QED
    BY <2>1, <2>2
<1> HIDE DEF old, N
<1>6. /\ TimedIn(list) = {list[i].proc : i \in 1 .. N}
      /\ \A i \in 1 .. N : Alarm(list)[list[i].proc] = DueAfter(list, i)
      /\ \A i \in 1 .. N : list[i].proc # p
      /\ \A i \in 1 .. N : DueAfter(list, i) > 0
      /\ \A i, j \in 1 .. N : list[i].proc = list[j].proc => i = j
  BY AlarmAt DEF ListSound, N
<1>7. ListSound(new)
  <2>1. ASSUME NEW j \in 1 .. N + 1, NEW k \in 1 .. N + 1,
               new[j].proc = new[k].proc
        PROVE  j = k
    <3>1. CASE j = n + 1 \/ k = n + 1
      BY <1>3, <1>4, <1>6, <2>1, <3>1
    <3>2. CASE j # n + 1 /\ k # n + 1
      <4>1. old(j) = old(k)
        BY <1>3, <1>6, <2>1, <3>2
      <4>2. QED
        BY <1>3, <3>2, <4>1
    <3>3. QED
      BY <3>1, <3>2
  <2>2. \A j \in 1 .. N + 1 : DueAfter(new, j) > 0
    BY <1>3, <1>4, <1>6
  <2>3. QED
    BY <1>2, <2>1, <2>2 DEF ListSound
<1>8. /\ TimedIn(new) = {new[j].proc : j \in 1 .. N + 1}
      /\ \A j \in 1 .. N + 1 : Alarm(new)[new[j].proc] = DueAfter(new, j)
  BY <1>2, <1>7, AlarmAt
<1>9. TimedIn(new) = TimedIn(list) \cup {p}
  <2>1. TimedIn(new) \subseteq TimedIn(list) \cup {p}
    BY <1>3, <1>4, <1>6, <1>8
  <2>2. TimedIn(list) \subseteq TimedIn(new)
    BY <1>3, <1>5, <1>6, <1>8
  <2>3. p \in TimedIn(new)
    BY <1>4, <1>8
  <2>4. QED
    BY <2>1, <2>2, <2>3
<1>10. Alarm(new)[p] = time
  BY <1>4, <1>8
<1>11. ASSUME NEW q \in TimedIn(list)
       PROVE  q # p /\ Alarm(new)[q] = Alarm(list)[q]
  <2>1. PICK i \in 1 .. N : q = list[i].proc
    BY <1>6
  <2>2. PICK j \in 1 .. N + 1 : j # n + 1 /\ old(j) = i
    BY <1>5
  <2>3. new[j].proc = q /\ DueAfter(new, j) = DueAfter(list, i)
    BY <1>3, <2>1, <2>2
  <2>4. Alarm(new)[q] = DueAfter(list, i)
    BY <1>8, <2>3
  <2>5. QED
    BY <1>6, <2>1, <2>4
<1>12. Alarm(new) = [q \in TimedIn(new) |-> Alarm(new)[q]]
  BY AlarmIsFunction
<1>13. \A q \in TimedIn(new) :
          Alarm(new)[q] = IF q = p THEN time ELSE Alarm(list)[q]
  BY <1>9, <1>10, <1>11
<1>14. Alarm(new) = [q \in TimedIn(list) \cup {p} |->
                       IF q = p THEN time ELSE Alarm(list)[q]]
  BY <1>9, <1>12, <1>13
<1>15. Alarm(new) = OneMore(Alarm(list), p, time)
  BY <1>14, AlarmAt DEF OneMore
<1>16. QED
  BY <1>7, <1>9, <1>15

\* del_timer takes one away.
LEMMA DelTimerAlarm ==
  ASSUME NEW list, ListSound(list), NEW p \in TimedIn(list),
         NEW new, new = DelTimer(list, p)
  PROVE  /\ ListSound(new)
         /\ TimedIn(new) = TimedIn(list) \ {p}
         /\ Alarm(new) = [q \in TimedIn(list) \ {p} |-> Alarm(list)[q]]
<1> DEFINE N == Len(list)
<1>0. PICK none \in Nat : none = 0
  OBVIOUS
<1>1. list \in Seq(Timer) /\ N \in Nat
  BY DEF ListSound
<1>2. PICK i \in 1 .. N : list[i].proc = p
  BY AlarmAt
<1>3. \A j \in 1 .. N : list[j].proc = p => j = i
  BY <1>2 DEF ListSound
<1>4. /\ new \in Seq(Timer)
      /\ Len(new) = N - 1
      /\ \A k \in 1 .. i - 1 : Holds(new, k, list[k].proc, DueAfter(list, k))
      /\ \A k \in i + 1 .. N :
            Holds(new, k - 1, list[k].proc, DueAfter(list, k))
  BY <1>1, <1>2, <1>3, DelTimerIs
<1> DEFINE keep == (1 .. N) \ {i}
           back == [j \in 1 .. N - 1 |-> IF j < i THEN j ELSE j + 1]
<1>5. back \in [1 .. N - 1 -> keep]
  BY <1>1
<1>6. \A j, k \in 1 .. N - 1 : back[j] = back[k] => j = k
  BY <1>1
<1>7. ASSUME NEW k \in keep PROVE \E j \in 1 .. N - 1 : back[j] = k
  <2>1. CASE k < i
    <3>1. k \in 1 .. N - 1 /\ back[k] = k
      BY <1>1, <2>1
    <3>2. QED
      BY <3>1
  <2>2. CASE k > i
    <3>1. k - 1 \in 1 .. N - 1 /\ back[k - 1] = k
      BY <1>1, <2>2
    <3>2. QED
      BY <3>1
  <2>3. k < i \/ k > i
    BY <1>1
  <2>4. QED
    BY <2>1, <2>2, <2>3
<1>8. \A k \in keep : DueAfter(list, k) > 0 /\ DueAfter(list, k) \in Nat
  <2>1. \A k \in keep : k \in 0 .. N /\ k \in 1 .. N
    BY <1>1
  <2>2. QED
    BY <1>1, <2>1, DueSteps DEF ListSound
<1>9. ASSUME NEW j \in 1 .. N - 1
      PROVE  Holds(new, j, list[back[j]].proc, DueAfter(list, back[j]) - none)
  <2>0. DueAfter(list, back[j]) - none = DueAfter(list, back[j])
    <3> HIDE DEF back
    <3> QED BY <1>0, <1>5, <1>8
  <2>1. CASE j < i
    <3>1. j \in 1 .. i - 1 /\ back[j] = j
      BY <1>1, <2>1
    <3>2. QED
      BY <1>4, <2>0, <3>1
  <2>2. CASE ~ (j < i)
    <3>1. j + 1 \in i + 1 .. N /\ back[j] = j + 1 /\ (j + 1) - 1 = j
      BY <1>1, <2>2
    <3>2. Holds(new, (j + 1) - 1, list[j + 1].proc, DueAfter(list, j + 1))
      BY <1>4, <3>1
    <3>3. QED
      BY <2>0, <3>1, <3>2
  <2>3. QED
    BY <2>1, <2>2
<1>10. keep \in SUBSET (1 .. N)
  OBVIOUS
<1> HIDE DEF back, keep
<1>11. /\ ListSound(new)
       /\ TimedIn(new) = ProcsAt(list, keep)
       /\ \A q \in TimedIn(new) :
             q \in TimedIn(list) /\ Alarm(new)[q] = Alarm(list)[q] - none
  <2>1. 1 .. Len(new) = 1 .. N - 1
    BY <1>4
  <2>2. back \in [1 .. Len(new) -> keep]
    BY <1>5, <2>1
  <2>3. \A j, k \in 1 .. Len(new) : back[j] = back[k] => j = k
    BY <1>6, <2>1
  <2>4. \A k \in keep : \E j \in 1 .. Len(new) : back[j] = k
    BY <1>7, <2>1
  <2>5. \A j \in 1 .. Len(new) :
           Holds(new, j, list[back[j]].proc, DueAfter(list, back[j]) - none)
    BY <1>9, <2>1
  <2>6. keep \in SUBSET (1 .. Len(list)) /\ new \in Seq(Timer)
        /\ \A k \in keep : DueAfter(list, k) > 0
    BY <1>4, <1>8, <1>10
  <2> HIDE DEF N
  <2>7. Remain(new, list, keep, back, none)
    BY <1>0, <2>2, <2>3, <2>4, <2>5, <2>6 DEF Remain
  <2>8. ListSound(new) /\ TimedIn(new) = ProcsAt(list, keep)
    BY <2>7, RestIsSound
  <2>9. ASSUME NEW q \in TimedIn(new)
        PROVE  q \in TimedIn(list) /\ Alarm(new)[q] = Alarm(list)[q] - none
    BY <2>7, RestIsSound
  <2>10. QED
    BY <2>8, <2>9
<1>12. TimedIn(new) = TimedIn(list) \ {p}
  <2>1. TimedIn(list) = {list[k].proc : k \in 1 .. N}
    BY AlarmAt
  <2>2. QED
    BY <1>2, <1>3, <1>11, <2>1 DEF keep, ProcsAt
<1>13. \A q \in TimedIn(new) : Alarm(new)[q] = Alarm(list)[q]
  BY <1>0, <1>11, AlarmAt
<1>14. Alarm(new) = [q \in TimedIn(new) |-> Alarm(new)[q]]
  BY AlarmIsFunction
<1>15. QED
  BY <1>11, <1>12, <1>13, <1>14

\* A tick brings every alarm one tick closer and rings those that are due,
\* the first n of less; rest are the others.
TickRings(list, less, n, rest) ==
    /\ ListSound(rest)
    /\ TimedIn(rest) = {p \in TimedIn(list) : Alarm(list)[p] > 1}
    /\ Alarm(rest) = [p \in {q \in TimedIn(list) : Alarm(list)[q] > 1} |->
                        Alarm(list)[p] - 1]
    /\ n \in Nat
    /\ {less[i].proc : i \in 1 .. n}
          = {p \in TimedIn(list) : Alarm(list)[p] = 1}
    /\ \A i \in 1 .. n : less[i].proc \in TimedIn(list)
    /\ \A i, j \in 1 .. n : less[i].proc = less[j].proc => i = j

LEMMA TickAlarm ==
  ASSUME NEW list, ListSound(list),
         NEW less, less = CountedDown(list),
         NEW n, n = DueNow(list),
         NEW rest, rest = SubSeq(less, n + 1, Len(less))
  PROVE  TickRings(list, less, n, rest)
<1> DEFINE N == Len(list)
           keep == n + 1 .. N
           back == [j \in 1 .. N - n |-> n + j]
<1>1. /\ list \in Seq(Timer) /\ N \in Nat
      /\ TimedIn(list) = {list[i].proc : i \in 1 .. N}
      /\ \A i \in 1 .. N : Alarm(list)[list[i].proc] = DueAfter(list, i)
      /\ \A i, j \in 1 .. N : list[i].proc = list[j].proc => i = j
  BY AlarmAt DEF ListSound
<1>2. /\ \A i \in 1 .. N : less[i].proc = list[i].proc
      /\ n \in 0 .. N
      /\ \A i \in 1 .. n : DueAfter(list, i) = 1
      /\ rest \in Seq(Timer) /\ Len(rest) = N - n
      /\ \A i \in keep :
            /\ DueAfter(list, i) > 1
            /\ Holds(rest, i - n, list[i].proc, DueAfter(list, i) - 1)
  <2>1. list # <<>> => list[1].expires > 0
    BY HeadHasTime
  <2>2. Ticked(list, less, n, rest)
    BY <1>1, <2>1, TickIs
  <2> HIDE DEF back
  <2>3. QED
    BY <2>2 DEF Ticked
<1>3. /\ back \in [1 .. N - n -> keep]
      /\ \A j, k \in 1 .. N - n : back[j] = back[k] => j = k
      /\ keep \in SUBSET (1 .. N)
  <2>1. N \in Nat /\ n \in 0 .. N
    BY <1>1, <1>2
  <2> HIDE DEF N
  <2>2. \A j \in 1 .. N - n : n + j \in keep
    BY <2>1
  <2>3. \A j, k \in 1 .. N - n : n + j = n + k => j = k
    BY <2>1
  <2>4. keep \in SUBSET (1 .. N)
    BY <2>1
  <2> HIDE DEF keep
  <2>5. back \in [1 .. N - n -> keep]
    BY <2>2
  <2>6. \A j \in 1 .. N - n : back[j] = n + j
    OBVIOUS
  <2> HIDE DEF back
  <2>7. QED
    BY <2>3, <2>4, <2>5, <2>6
<1>4. ASSUME NEW i \in keep PROVE \E j \in 1 .. N - n : back[j] = i
  <2>1. N \in Nat /\ n \in 0 .. N
    BY <1>1, <1>2
  <2> HIDE DEF N
  <2>2. i - n \in 1 .. N - n /\ n + (i - n) = i
    BY <2>1
  <2>3. back[i - n] = i
    BY <2>2
  <2>4. QED
    BY <2>2, <2>3
<1>5. ASSUME NEW j \in 1 .. N - n
      PROVE  Holds(rest, j, list[back[j]].proc, DueAfter(list, back[j]) - 1)
  <2>1. back[j] \in keep /\ back[j] - n = j
    BY <1>1, <1>2
  <2> HIDE DEF back, keep
  <2>2. QED
    BY <1>2, <2>1
<1>6. \A i \in 1 .. N : i \notin keep => i \in 1 .. n
  BY <1>1, <1>2
<1>7. \A i \in 1 .. n : i \in 1 .. N
  BY <1>1, <1>2
<1> HIDE DEF back, keep, N
<1>8. /\ ListSound(rest)
      /\ TimedIn(rest) = ProcsAt(list, keep)
      /\ \A q \in TimedIn(rest) :
            q \in TimedIn(list) /\ Alarm(rest)[q] = Alarm(list)[q] - 1
  <2>1. 1 .. Len(rest) = 1 .. N - n /\ 1 \in Nat
    BY <1>2
  <2>2. back \in [1 .. Len(rest) -> keep]
    BY <1>3, <2>1
  <2>3. \A j, k \in 1 .. Len(rest) : back[j] = back[k] => j = k
    BY <1>3, <2>1
  <2>4. \A k \in keep : \E j \in 1 .. Len(rest) : back[j] = k
    BY <1>4, <2>1
  <2>5. \A j \in 1 .. Len(rest) :
           Holds(rest, j, list[back[j]].proc, DueAfter(list, back[j]) - 1)
    BY <1>5, <2>1
  <2>6. keep \in SUBSET (1 .. Len(list)) /\ rest \in Seq(Timer)
        /\ \A k \in keep : DueAfter(list, k) > 1
    BY <1>2, <1>3 DEF N
  <2>7. Remain(rest, list, keep, back, 1)
    BY <2>2, <2>3, <2>4, <2>5, <2>6 DEF Remain
  <2>8. QED
    BY <2>1, <2>7, RestIsSound
<1>9. \A i \in keep : i \in 1 .. N /\ Alarm(list)[list[i].proc] > 1
  BY <1>1, <1>2, <1>3
<1>10. \A i \in 1 .. n : Alarm(list)[list[i].proc] = 1
  BY <1>1, <1>2, <1>7
<1>11. TimedIn(rest) = {p \in TimedIn(list) : Alarm(list)[p] > 1}
  <2>1. ASSUME NEW p \in TimedIn(list), Alarm(list)[p] > 1
        PROVE  p \in TimedIn(rest)
    <3>1. PICK i \in 1 .. N : p = list[i].proc
      BY <1>1
    <3>2. i \in keep
      BY <1>6, <1>10, <2>1, <3>1
    <3>3. QED
      BY <1>8, <3>1, <3>2 DEF ProcsAt
  <2>2. ASSUME NEW p \in TimedIn(rest)
        PROVE  p \in TimedIn(list) /\ Alarm(list)[p] > 1
    BY <1>8, <1>9 DEF ProcsAt
  <2>3. QED
    BY <2>1, <2>2
<1>12. {less[i].proc : i \in 1 .. n} = {p \in TimedIn(list) : Alarm(list)[p] = 1}
  <2>1. ASSUME NEW i \in 1 .. n
        PROVE  less[i].proc \in TimedIn(list) /\ Alarm(list)[less[i].proc] = 1
    BY <1>1, <1>2, <1>7, <1>10
  <2>2. ASSUME NEW p \in TimedIn(list), Alarm(list)[p] = 1
        PROVE  \E i \in 1 .. n : p = less[i].proc
    <3>1. PICK i \in 1 .. N : p = list[i].proc
      BY <1>1
    <3>2. i \notin keep
      BY <1>9, <2>2, <3>1
    <3>3. QED
      BY <1>2, <1>6, <3>1, <3>2
  <2>3. QED
    BY <2>1, <2>2
<1>13. Alarm(rest) = [p \in TimedIn(rest) |-> Alarm(rest)[p]]
  BY AlarmIsFunction
<1>14. Alarm(rest) = [p \in {q \in TimedIn(list) : Alarm(list)[q] > 1} |->
                        Alarm(list)[p] - 1]
  <2>1. \A p \in TimedIn(rest) : Alarm(rest)[p] = Alarm(list)[p] - 1
    BY <1>8
  <2>2. Alarm(rest) = [p \in TimedIn(rest) |-> Alarm(list)[p] - 1]
    BY <1>13, <2>1
  <2>3. QED
    BY <1>11, <2>2
<1>15. n \in Nat
  BY <1>1, <1>2
<1>16. /\ \A i \in 1 .. n : less[i].proc \in TimedIn(list)
       /\ \A i, j \in 1 .. n : less[i].proc = less[j].proc => i = j
  <2>1. ASSUME NEW i \in 1 .. n
        PROVE  /\ i \in 1 .. N /\ less[i].proc = list[i].proc
               /\ less[i].proc \in TimedIn(list)
    BY <1>1, <1>2, <1>7
  <2>2. ASSUME NEW i \in 1 .. n, NEW j \in 1 .. n,
               less[i].proc = less[j].proc
        PROVE  i = j
    <3>1. /\ i \in 1 .. N /\ j \in 1 .. N
          /\ list[i].proc = list[j].proc
      BY <2>1, <2>2
    <3>2. QED
      BY <1>1, <3>1
  <2>3. QED
    BY <2>1, <2>2
<1>17. QED
  BY <1>8, <1>11, <1>12, <1>14, <1>15, <1>16 DEF TickRings

-----------------------------------------------------------------------------
(***************************************************************************)
(* Who sleeps and who has a timer.                                         *)
(***************************************************************************)
\* What is true of each process at every step: a sleeper has a timer, a timer
\* belongs to a call of do_sleep in progress, and what runs has not exited.
SleeperSound(p) ==
    /\ state[p] = "SLEEPING" => p \in TimedIn(timer_list)
    /\ p \in TimedIn(timer_list) => pc[p] \in {"armed", "asleep"}
    /\ pc[p] = "gone" <=> state[p] = "ZOMBIE"
    /\ p = current => pc[p] # "gone"
    /\ p = current /\ pc[p] # "armed" => state[p] = "RUNNABLE"

TimerTypes ==
    /\ wait_state \in [Everyone -> {"none", "WT_TIMER"}]
    /\ exiting \in [Procs -> BOOLEAN]
    /\ pc \in [Procs -> Places]

\* A process sleeps for its timer and for nothing else.
SleepIsTimed ==
    \A p \in Everyone : state[p] = "SLEEPING" <=> wait_state[p] = "WT_TIMER"

\* The inductive invariant.
TimerInv ==
    /\ SchedCore
    /\ TimerTypes
    /\ ListSound(timer_list)
    /\ SleepIsTimed
    /\ \A p \in Procs : SleeperSound(p)

LEMMA TimedIs == Timed = TimedIn(timer_list)
BY DEF Timed, TimedIn

\* It says what ListsExact says, and more.
LEMMA TimerInvIsExact == TimerInv => ListsExact
<1> SUFFICES ASSUME TimerInv PROVE ListsExact
  OBVIOUS
<1> DEFINE N == Len(timer_list)
           T == TimedIn(timer_list)
           f == [i \in 1 .. N |-> timer_list[i].proc]
<1>1. RunListExact /\ AssertionsHold
  BY DEF TimerInv, SchedCore, AssertionsHold
<1>2. ListSound(timer_list)
  BY DEF TimerInv
<1>3. /\ N \in Nat /\ T = {timer_list[i].proc : i \in 1 .. N} /\ T \subseteq Procs
      /\ \A i, j \in 1 .. N : timer_list[i].proc = timer_list[j].proc => i = j
  BY <1>2, AlarmAt DEF ListSound
<1>4. IsFiniteSet(T)
  <2> HIDE DEF T
  <2>1. QED
    BY <1>3, SchedAssumption, FS_Subset
<1> HIDE DEF N, T
<1>5. f \in Injection(1 .. N, T) /\ f \in Surjection(1 .. N, T)
  BY <1>3 DEF Injection, Surjection, IsInjective
<1>6. Cardinality(1 .. N) = N
  <2>1. /\ 1 \in Int /\ N \in Int
        /\ Cardinality(1 .. N) = IF 1 > N THEN 0 ELSE N - 1 + 1
    BY <1>3, FS_Interval
  <2>2. QED
    BY <1>3, <2>1
<1>7. Cardinality(T) = N
  <2> HIDE DEF f
  <2>1. Cardinality(1 .. N) = Cardinality(T)
    BY <1>4, <1>5, FS_Injection
  <2>2. QED
    BY <1>6, <2>1
<1>8. SleepersAreTimed
  <2>1. \A p \in Procs : state[p] = "SLEEPING" => p \in T
    BY DEF TimerInv, SleeperSound, T
  <2>2. \A p \in T : pc[p] \in {"armed", "asleep"}
    BY <1>3 DEF TimerInv, SleeperSound, T
  <2>3. QED
    BY <1>7, <2>1, <2>2, TimedIs DEF SleepersAreTimed, T, N
<1>9. QED
  BY <1>1, <1>8 DEF ListsExact

\* Nobody sleeps, and idle runs.
LEMMA TimersStart == Init => TimerInv
<1> SUFFICES ASSUME Init PROVE TimerInv
  OBVIOUS
<1>1. SchedCore
  BY SchedStarts, InvHasCore DEF Init
<1>2. /\ current = idleproc
      /\ state = [p \in Everyone |-> "RUNNABLE"]
      /\ wait_state = [p \in Everyone |-> "none"]
      /\ timer_list = <<>>
      /\ exiting = [p \in Procs |-> FALSE]
      /\ pc = [p \in Procs |-> "user"]
  BY DEF Init, SchedInit
<1>3. ListSound(timer_list) /\ TimedIn(timer_list) = {}
  BY <1>2, EmptyIsSound
<1>4. TimerTypes /\ SleepIsTimed
  BY <1>2 DEF TimerTypes, SleepIsTimed, Places
<1>5. \A p \in Procs : SleeperSound(p)
  BY <1>2, <1>3 DEF SleeperSound, Everyone
<1>6. QED
  BY <1>1, <1>3, <1>4, <1>5 DEF TimerInv

\* A process of which nothing changes.
LEMMA SleeperStays ==
  ASSUME NEW p \in Procs, SleeperSound(p), current' = current,
         p \in TimedIn(timer_list') <=> p \in TimedIn(timer_list),
         state'[p] = state[p], pc'[p] = pc[p]
  PROVE  SleeperSound(p)'
BY DEF SleeperSound

\* schedule(), whatever the running process has become and wherever it will
\* go on.
LEMMA SwitchKeepsTimers ==
  ASSUME TimerInv, NEW st \in [Everyone -> States],
         \A p \in Everyone : p # current => st[p] = state[p],
         st[idleproc] = "RUNNABLE",
         \A p \in Everyone : st[p] = "SLEEPING" <=> wait_state[p] = "WT_TIMER",
         Schedule(st, wait_state),
         UNCHANGED timer_list,
         exiting' \in [Procs -> BOOLEAN],
         pc' \in [Procs -> Places],
         \A p \in Procs : p # current => pc'[p] = pc[p],
         \A p \in Procs : p = current =>
            /\ pc'[p] \in {"asleep", "user", "gone"}
            /\ st[p] = "ZOMBIE" <=> pc'[p] = "gone"
            /\ st[p] = "SLEEPING" => p \in TimedIn(timer_list)
            /\ p \in TimedIn(timer_list) => pc'[p] = "asleep"
  PROVE  TimerInv'
<1>1. /\ SchedCore' /\ state' = st /\ wait_state' = wait_state
      /\ current' \in Everyone /\ st[current'] = "RUNNABLE"
  BY ScheduleKeepsCore DEF TimerInv
<1>2. TimerTypes' /\ ListSound(timer_list')
  BY <1>1 DEF TimerInv, TimerTypes
<1>3. SleepIsTimed'
  BY <1>1 DEF SleepIsTimed
<1>4. ASSUME NEW p \in Procs PROVE SleeperSound(p)'
  <2>1. p \in Everyone /\ SleeperSound(p)
    BY DEF TimerInv, Everyone
  <2>2. /\ state'[p] = st[p]
        /\ p = current' => st[p] = "RUNNABLE"
    BY <1>1
  <2>3. CASE p = current
    BY <2>1, <2>2, <2>3 DEF SleeperSound
  <2>4. CASE p # current
    <3>1. st[p] = state[p] /\ pc'[p] = pc[p]
      BY <2>1, <2>4
    <3>2. QED
      BY <2>1, <2>2, <2>4, <3>1 DEF SleeperSound
  <2>5. QED
    BY <2>3, <2>4
<1>5. QED
  BY <1>1, <1>2, <1>3, <1>4 DEF TimerInv

\* What is known of the process that runs, outside do_sleep.
LEMMA RunningProcess ==
  ASSUME TimerInv, NEW p \in Procs, current = p, pc[p] # "armed"
  PROVE  /\ state[p] = "RUNNABLE" /\ wait_state[p] = "none" /\ p \in Everyone
         /\ p # idleproc
         /\ pc[p] # "asleep" => p \notin TimedIn(timer_list)
<1>1. p \in Everyone /\ p # idleproc
  BY SchedAssumption DEF Everyone
<1>2. state[p] = "RUNNABLE"
  BY DEF TimerInv, SleeperSound
<1>3. wait_state[p] = "none"
  BY <1>1, <1>2 DEF TimerInv, TimerTypes, SleepIsTimed
<1>4. QED
  BY <1>1, <1>2, <1>3 DEF TimerInv, SleeperSound

\* What a tick does: no assertion fails; those whose alarms are due are woken.
LEMMA TickDoes ==
  ASSUME TimerInv, Tick,
         NEW woken, woken = [i \in 1 .. DueNow(timer_list) |->
                               CountedDown(timer_list)[i].proc]
  PROVE  /\ timer_list' = SubSeq(CountedDown(timer_list),
                                 DueNow(timer_list) + 1,
                                 Len(CountedDown(timer_list)))
         /\ woken \in Seq(Procs) /\ IsInjective(woken)
         /\ ToSet(woken) = {p \in TimedIn(timer_list) : Alarm(timer_list)[p] = 1}
         /\ WakeupProcs(woken)
         /\ ProcTick(Refilled(ToSet(Queued(woken))))
         /\ UNCHANGED <<current, exiting>>
         /\ pc' = pc \/ (/\ current \in Procs /\ pc[current] = "user"
                         /\ pc' = [pc EXCEPT ![current] = "trapret"])
<1> DEFINE less == CountedDown(timer_list)
           n == DueNow(timer_list)
           rest == SubSeq(less, n + 1, Len(less))
<1>1. ListSound(timer_list)
  BY DEF TimerInv
<1>a. TickRings(timer_list, less, n, rest)
  <2> HIDE DEF TickRings
  <2>1. QED
    BY <1>1, TickAlarm
<1>2. /\ n \in Nat
      /\ {less[i].proc : i \in 1 .. n}
            = {p \in TimedIn(timer_list) : Alarm(timer_list)[p] = 1}
      /\ \A i \in 1 .. n : less[i].proc \in TimedIn(timer_list)
      /\ \A i, j \in 1 .. n : less[i].proc = less[j].proc => i = j
  <2> HIDE DEF less, n, rest
  <2>1. QED
    BY <1>a DEF TickRings
<1>3. TimedIn(timer_list) \subseteq Procs
  BY <1>1, AlarmAt
<1>4. /\ woken \in Seq(Procs) /\ IsInjective(woken)
      /\ ToSet(woken) = {less[i].proc : i \in 1 .. n}
  <2> HIDE DEF less, n
  <2>1. woken \in Seq(Procs) /\ DOMAIN woken = 1 .. n
    BY <1>2, <1>3 DEF less, n
  <2>2. \A i \in 1 .. n : woken[i] = less[i].proc
    BY DEF less, n
  <2>3. ToSet(woken) = {less[i].proc : i \in 1 .. n}
    BY <2>1, <2>2 DEF ToSet
  <2>4. IsInjective(woken)
    <3>1. ASSUME NEW i \in 1 .. n, NEW j \in 1 .. n, woken[i] = woken[j]
          PROVE  i = j
      <4>1. less[i].proc = less[j].proc
        BY <2>2, <3>1
      <4>2. QED
        BY <1>2, <4>1
    <3>2. \A i, j \in 1 .. n : woken[i] = woken[j] => i = j
      BY <3>1
    <3>3. woken \in Seq(Procs) /\ DOMAIN woken = 1 .. n
      BY <2>1
    <3>4. ASSUME NEW i \in DOMAIN woken, NEW j \in DOMAIN woken,
                 woken[i] = woken[j]
          PROVE  i = j
      <4>1. i \in 1 .. n /\ j \in 1 .. n
        BY <3>3
      <4>2. QED
        BY <3>2, <3>4, <4>1
    <3>5. QED
      BY <3>4, Zenon DEF IsInjective
  <2>5. QED
    BY <2>1, <2>3, <2>4
\* The assertions of run_timer_list.
<1>5. ~ (less # <<>> /\ less[1].expires < 0)
  <2>1. CASE timer_list = <<>>
    BY <2>1 DEF CountedDown
  <2>2. CASE timer_list # <<>>
    <3>1. timer_list[1].expires > 0 /\ timer_list \in Seq(Timer)
      BY <1>1, <2>2, HeadHasTime DEF ListSound
    <3>2. less \in Seq(Timer) /\ Len(less) = Len(timer_list)
      BY <2>2, <3>1, CountedDownIs
    <3>3. 1 \in 1 .. Len(less)
      BY <2>2, <3>1, <3>2
    <3> HIDE DEF less
    <3>4. less[1] \in Timer
      BY <3>2, <3>3
    <3>5. QED
      BY <3>4 DEF Timer
  <2>3. QED
    BY <2>1, <2>2
<1>6. \A i \in 1 .. n : wait_state[woken[i]] \in {"none", "WT_TIMER"}
  <2>1. \A i \in 1 .. n : woken[i] \in Everyone
    BY <1>2, <1>3 DEF Everyone
  <2>2. QED
    BY <2>1 DEF TimerInv, TimerTypes
<1>7. /\ WakeupProcs(woken)
      /\ timer_list' = rest
      /\ ProcTick(Refilled(ToSet(Queued(woken))))
      /\ IF current \in Procs /\ pc[current] = "user"
         THEN Goto(current, "trapret") ELSE UNCHANGED pc
      /\ UNCHANGED <<current, exiting>>
  BY <1>5, <1>6 DEF Tick, CountedDown, DueNow
<1>8. QED
  BY <1>2, <1>4, <1>7 DEF Goto

LEMMA TickKeepsTimers ==
  ASSUME TimerInv, Tick
  PROVE  TimerInv'
<1> DEFINE woken == [i \in 1 .. DueNow(timer_list) |->
                       CountedDown(timer_list)[i].proc]
           due == {p \in TimedIn(timer_list) : Alarm(timer_list)[p] = 1}
<1>1. /\ timer_list' = SubSeq(CountedDown(timer_list),
                              DueNow(timer_list) + 1,
                              Len(CountedDown(timer_list)))
      /\ woken \in Seq(Procs) /\ IsInjective(woken)
      /\ ToSet(woken) = due
      /\ WakeupProcs(woken)
      /\ ProcTick(Refilled(ToSet(Queued(woken))))
      /\ UNCHANGED <<current, exiting>>
      /\ pc' = pc \/ (/\ current \in Procs /\ pc[current] = "user"
                      /\ pc' = [pc EXCEPT ![current] = "trapret"])
  BY TickDoes
<1> HIDE DEF woken
<1>2. /\ ListSound(timer_list')
      /\ TimedIn(timer_list')
            = {p \in TimedIn(timer_list) : Alarm(timer_list)[p] > 1}
  <2>1. ListSound(timer_list)
    BY DEF TimerInv
  <2>2. TickRings(timer_list, CountedDown(timer_list), DueNow(timer_list),
                  timer_list')
    BY <1>1, <2>1, TickAlarm
  <2>3. QED
    BY <2>2 DEF TickRings
<1>3. /\ TimedIn(timer_list) \subseteq Procs
      /\ \A p \in TimedIn(timer_list) :
            p \in due \/ p \in TimedIn(timer_list')
      /\ due \subseteq TimedIn(timer_list)
      /\ TimedIn(timer_list') \subseteq TimedIn(timer_list)
  <2>1. ListSound(timer_list)
    BY DEF TimerInv
  <2>2. TimedIn(timer_list) \subseteq Procs
    BY <2>1, AlarmAt
  <2>3. \A p \in TimedIn(timer_list) :
           Alarm(timer_list)[p] \in Nat /\ Alarm(timer_list)[p] > 0
    BY <2>1, AlarmAt
  <2>4. QED
    BY <1>2, <2>2, <2>3
<1> HIDE DEF due
<1>4. \A p \in due : state[p] # "ZOMBIE"
  BY <1>3 DEF TimerInv, SleeperSound
<1>5. /\ SchedCore'
      /\ state' = [p \in Everyone |-> IF p \in due THEN "RUNNABLE" ELSE state[p]]
      /\ wait_state' = [p \in Everyone |->
                          IF p \in due /\ state[p] # "RUNNABLE"
                          THEN "none" ELSE wait_state[p]]
  <2>1. SchedCore /\ SchedTypeOK
    BY DEF TimerInv, SchedCore
  <2>2. Refilled(ToSet(Queued(woken))) \in [Procs -> 0 .. MAX_TIME_SLICE]
    BY <2>1, SlicesKeepType
  <2>3. /\ time_slice' \in [Procs -> 0 .. MAX_TIME_SLICE]
        /\ need_resched' \in [Everyone -> BOOLEAN]
    BY <1>1, <2>1, <2>2, ProcTickKeepsType
  <2>4. current' = current
    BY <1>1
  <2>5. QED
    BY <1>1, <1>4, <2>1, <2>3, <2>4, WakeupsKeepCore
<1>6. TimerTypes'
  <2>1. pc' \in [Procs -> Places]
    BY <1>1 DEF TimerInv, TimerTypes, Places
  <2>2. QED
    BY <1>1, <1>5, <2>1 DEF TimerInv, TimerTypes
<1>7. SleepIsTimed'
  <2> SUFFICES ASSUME NEW p \in Everyone
               PROVE  state'[p] = "SLEEPING" <=> wait_state'[p] = "WT_TIMER"
    BY DEF SleepIsTimed
  <2>1. state[p] = "SLEEPING" <=> wait_state[p] = "WT_TIMER"
    BY DEF TimerInv, SleepIsTimed
  <2>2. QED
    BY <1>5, <2>1
<1>8. ASSUME NEW p \in Procs PROVE SleeperSound(p)'
  <2>1. p \in Everyone /\ SleeperSound(p) /\ current' = current
    BY <1>1 DEF TimerInv, Everyone
  <2>2. /\ pc'[p] = pc[p] \/ (pc[p] = "user" /\ pc'[p] = "trapret")
    BY <1>1 DEF TimerInv, TimerTypes
  <2>3. CASE p \in due
    <3>1. state'[p] = "RUNNABLE" /\ p \in TimedIn(timer_list)
      BY <1>3, <1>5, <2>1, <2>3
    <3>2. QED
      BY <1>3, <1>4, <2>1, <2>2, <2>3, <3>1 DEF SleeperSound
  <2>4. CASE p \notin due
    <3>1. state'[p] = state[p]
          /\ (p \in TimedIn(timer_list') <=> p \in TimedIn(timer_list))
      BY <1>3, <1>5, <2>1, <2>4
    <3>2. QED
      BY <2>1, <2>2, <3>1 DEF SleeperSound
  <2>5. QED
    BY <2>3, <2>4
<1>9. QED
  BY <1>2, <1>5, <1>6, <1>7, <1>8 DEF TimerInv

\* A call of do_sleep puts the caller to sleep while it is current still.
LEMMA SysSleepKeeps ==
  ASSUME TimerInv, NEW p \in Procs, NEW time \in 0 .. MaxTime, SysSleep(p, time)
  PROVE  TimerInv'
<1>1. /\ current = p /\ pc[p] = "user"
      /\ UNCHANGED <<current, run_list, time_slice, need_resched, panicked,
                     exiting>>
      /\ time = 0 => /\ pc' = [pc EXCEPT ![p] = "trapret"]
                     /\ UNCHANGED <<state, wait_state, timer_list>>
      /\ time # 0 => /\ pc' = [pc EXCEPT ![p] = "armed"]
                     /\ state' = [state EXCEPT ![p] = "SLEEPING"]
                     /\ wait_state' = [wait_state EXCEPT ![p] = "WT_TIMER"]
                     /\ timer_list' = AddTimer(timer_list, p, time)
  BY DEF SysSleep, At, Running, Goto
<1>2. /\ p \in Everyone /\ p # idleproc /\ p \notin TimedIn(timer_list)
      /\ state[p] = "RUNNABLE" /\ wait_state[p] = "none"
  BY <1>1, RunningProcess
<1>3. CASE time = 0
  <2>1. SchedCore' /\ SleepIsTimed' /\ ListSound(timer_list')
    BY <1>1, <1>3 DEF TimerInv, SchedCore, SchedTypeOK, RunListExact, SleepIsTimed
  <2>2. TimerTypes'
    BY <1>1, <1>3 DEF TimerInv, TimerTypes, Places
  <2>3. ASSUME NEW q \in Procs PROVE SleeperSound(q)'
    <3>1. SleeperSound(q) /\ SleeperSound(p)
      BY DEF TimerInv
    <3>2. pc'[q] = IF q = p THEN "trapret" ELSE pc[q]
      BY <1>1, <1>3 DEF TimerInv, TimerTypes
    <3>3. QED
      BY <1>1, <1>2, <1>3, <3>1, <3>2 DEF SleeperSound
  <2>4. QED
    BY <2>1, <2>2, <2>3 DEF TimerInv
<1>4. CASE time # 0
  <2>1. time \in Nat \ {0}
    BY <1>4, MaxTimeAssumption
  <2>2. /\ ListSound(timer_list')
        /\ TimedIn(timer_list') = TimedIn(timer_list) \cup {p}
    <3>1. ListSound(timer_list) /\ timer_list' = AddTimer(timer_list, p, time)
      BY <1>1, <1>4 DEF TimerInv
    <3>2. QED
      BY <1>2, <2>1, <3>1, AddTimerAlarm
  <2>3. \A q \in Everyone :
           /\ state'[q] = IF q = p THEN "SLEEPING" ELSE state[q]
           /\ wait_state'[q] = IF q = p THEN "WT_TIMER" ELSE wait_state[q]
    BY <1>1, <1>4 DEF TimerInv, TimerTypes, SchedCore, SchedTypeOK
  <2>4. SchedCore'
    <3>1. SchedTypeOK' /\ state'[idleproc] = "RUNNABLE" /\ panicked' = "no"
      <4>1. idleproc \in Everyone
        BY DEF Everyone
      <4>2. QED
        BY <1>1, <1>2, <1>4, <2>3, <4>1 DEF TimerInv, SchedCore, SchedTypeOK
    <3>2. {q \in Procs \ {current'} : state'[q] = "RUNNABLE"}
            = {q \in Procs \ {current} : state[q] = "RUNNABLE"}
      BY <1>1, <2>3 DEF Everyone
    <3>3. RunListExact'
      BY <1>1, <3>2 DEF TimerInv, SchedCore, RunListExact
    <3>4. QED
      BY <3>1, <3>3 DEF SchedCore
  <2>5. TimerTypes'
    BY <1>1, <1>4 DEF TimerInv, TimerTypes, Places
  <2>6. SleepIsTimed'
    BY <2>3 DEF TimerInv, SleepIsTimed
  <2>7. ASSUME NEW q \in Procs PROVE SleeperSound(q)'
    <3>1. SleeperSound(q) /\ q \in Everyone
      BY DEF TimerInv, Everyone
    <3>2. pc'[q] = IF q = p THEN "armed" ELSE pc[q]
      BY <1>1, <1>4 DEF TimerInv, TimerTypes
    <3>3. QED
      BY <1>1, <2>2, <2>3, <3>1, <3>2 DEF SleeperSound
  <2>8. QED
    BY <2>2, <2>4, <2>5, <2>6, <2>7 DEF TimerInv
<1>5. QED
  BY <1>3, <1>4

\* What the invariant says of schedule()'s arguments.
LEMMA StatesAreStates ==
  ASSUME TimerInv
  PROVE  /\ state \in [Everyone -> States] /\ state[idleproc] = "RUNNABLE"
         /\ current \in Everyone
         /\ \A q \in Everyone :
               state[q] = "SLEEPING" <=> wait_state[q] = "WT_TIMER"
BY DEF TimerInv, SchedCore, SchedTypeOK, States, SleepIsTimed

LEMMA SleepSchedulesKeeps ==
  ASSUME TimerInv, NEW p \in Procs, SleepSchedules(p)
  PROVE  TimerInv'
<1>1. /\ current = p /\ pc[p] = "armed"
      /\ pc' = [pc EXCEPT ![p] = "asleep"]
      /\ Schedule(state, wait_state)
      /\ UNCHANGED <<timer_list, exiting>>
  BY DEF SleepSchedules, At, Running, Goto
<1>2. /\ pc' \in [Procs -> Places] /\ exiting' \in [Procs -> BOOLEAN]
      /\ \A q \in Procs : pc'[q] = IF q = p THEN "asleep" ELSE pc[q]
  BY <1>1 DEF TimerInv, TimerTypes, Places
<1>3. \A q \in Procs : q = current =>
         /\ pc'[q] \in {"asleep", "user", "gone"}
         /\ state[q] = "ZOMBIE" <=> pc'[q] = "gone"
         /\ state[q] = "SLEEPING" => q \in TimedIn(timer_list)
         /\ q \in TimedIn(timer_list) => pc'[q] = "asleep"
  BY <1>1, <1>2 DEF TimerInv, SleeperSound
<1>4. QED
  BY <1>1, <1>2, <1>3, StatesAreStates, SwitchKeepsTimers

\* do_sleep takes its timer off the list, if the tick has not done so.
LEMMA DelTimerIfSet ==
  ASSUME NEW list, ListSound(list), NEW p
  PROVE  /\ ListSound(DelTimer(list, p))
         /\ TimedIn(DelTimer(list, p)) = TimedIn(list) \ {p}
         /\ Alarm(DelTimer(list, p)) = [q \in TimedIn(list) \ {p} |-> Alarm(list)[q]]
<1>1. CASE p \in TimedIn(list)
  BY <1>1, DelTimerAlarm
<1>2. CASE p \notin TimedIn(list)
  <2>1. {i \in DOMAIN list : list[i].proc = p} = {}
    BY <1>2 DEF TimedIn
  <2>2. DelTimer(list, p) = list
    BY <2>1 DEF DelTimer
  <2>3. TimedIn(list) \ {p} = TimedIn(list)
    BY <1>2
  <2>4. Alarm(list) = [q \in TimedIn(list) |-> Alarm(list)[q]]
    BY AlarmIsFunction
  <2>5. QED
    BY <2>2, <2>3, <2>4
<1>3. QED
  BY <1>1, <1>2

LEMMA SleepResumesKeeps ==
  ASSUME TimerInv, NEW p \in Procs, SleepResumes(p)
  PROVE  TimerInv'
<1>1. /\ current = p /\ pc[p] = "asleep"
      /\ pc' = [pc EXCEPT ![p] = "trapret"]
      /\ timer_list' = DelTimer(timer_list, p)
      /\ UNCHANGED <<current, state, wait_state, run_list, time_slice,
                     need_resched, panicked, exiting>>
  BY DEF SleepResumes, At, Running, Goto, schedvars
<1>2. p \in Everyone /\ state[p] = "RUNNABLE" /\ wait_state[p] = "none"
  BY <1>1, RunningProcess
<1>3. /\ ListSound(timer_list')
      /\ TimedIn(timer_list') = TimedIn(timer_list) \ {p}
  BY <1>1, DelTimerIfSet DEF TimerInv
<1>4. SchedCore' /\ SleepIsTimed'
  BY <1>1 DEF TimerInv, SchedCore, SchedTypeOK, RunListExact, SleepIsTimed
<1>5. TimerTypes'
  BY <1>1 DEF TimerInv, TimerTypes, Places
<1>6. ASSUME NEW q \in Procs PROVE SleeperSound(q)'
  <2>1. SleeperSound(q) /\ SleeperSound(p)
    BY DEF TimerInv
  <2>2. pc'[q] = IF q = p THEN "trapret" ELSE pc[q]
    BY <1>1 DEF TimerInv, TimerTypes
  <2>3. QED
    BY <1>1, <1>2, <1>3, <2>1, <2>2 DEF SleeperSound
<1>7. QED
  BY <1>3, <1>4, <1>5, <1>6 DEF TimerInv

\* The victim of do_kill may be asleep, and is no longer then.  Its timer
\* stays on the list until it runs again.
LEMMA KillKeeps ==
  ASSUME TimerInv, NEW p \in Procs, NEW q \in Procs, SysKill(p, q)
  PROVE  TimerInv'
<1>1. /\ current = p /\ pc[p] = "user"
      /\ pc' = [pc EXCEPT ![p] = "trapret"]
      /\ exiting' = [exiting EXCEPT ![q] = TRUE]
      /\ IF ~exiting[q] /\ wait_state[q] = "WT_TIMER"
         THEN WakeupProc(q) /\ time_slice' = Refilled(Enqueued(q))
         ELSE UNCHANGED <<state, wait_state, run_list, time_slice, panicked>>
      /\ UNCHANGED <<current, need_resched, timer_list>>
  BY DEF SysKill, At, Running, Goto, WokenByKill
<1>2. p \in Everyone /\ state[p] = "RUNNABLE"
  BY <1>1, RunningProcess
<1>3. q \in Everyone /\ state \in [Everyone -> States]
  BY StatesAreStates DEF Everyone
<1>4. /\ SchedCore' /\ SleepIsTimed' /\ TimerTypes'
      /\ \A r \in Everyone :
            \/ state'[r] = state[r]
            \/ r = q /\ state[r] = "SLEEPING" /\ state'[r] = "RUNNABLE"
  <2>0. /\ pc' \in [Procs -> Places]
        /\ exiting' \in [Procs -> BOOLEAN]
    BY <1>1 DEF TimerInv, TimerTypes, Places
  <2>1. CASE ~exiting[q] /\ wait_state[q] = "WT_TIMER"
    <3>1. state[q] = "SLEEPING"
      BY <1>3, <2>1, StatesAreStates
    <3>2. /\ time_slice' \in [Procs -> 0 .. MAX_TIME_SLICE]
          /\ need_resched' \in [Everyone -> BOOLEAN]
      BY <1>1, <2>1, SlicesKeepType DEF TimerInv, SchedCore, SchedTypeOK
    <3>3. SchedCore /\ WakeupProc(q) /\ current' = current
      BY <1>1, <2>1 DEF TimerInv
    <3>4. /\ SchedCore'
          /\ state' = [state EXCEPT ![q] = "RUNNABLE"]
          /\ wait_state' = [wait_state EXCEPT ![q] = "none"]
      BY <3>1, <3>2, <3>3, WakeupKeepsCore
    <3>5. TimerTypes' /\ SleepIsTimed'
      BY <1>3, <2>0, <3>4 DEF TimerInv, TimerTypes, SleepIsTimed
    <3>6. QED
      BY <1>3, <3>1, <3>4, <3>5
  <2>2. CASE ~ (~exiting[q] /\ wait_state[q] = "WT_TIMER")
    <3>1. UNCHANGED <<current, state, wait_state, run_list, time_slice,
                      need_resched, panicked>>
      BY <1>1, <2>2
    <3>2. SchedCore' /\ SleepIsTimed'
      BY <3>1 DEF TimerInv, SchedCore, SchedTypeOK, RunListExact, SleepIsTimed
    <3>3. TimerTypes'
      BY <2>0, <3>1 DEF TimerInv, TimerTypes
    <3>4. QED
      BY <3>1, <3>2, <3>3
  <2>3. QED
    BY <2>1, <2>2
<1>5. ASSUME NEW r \in Procs PROVE SleeperSound(r)'
  <2>1. SleeperSound(r) /\ SleeperSound(p) /\ r \in Everyone
    BY DEF TimerInv, Everyone
  <2>2. pc'[r] = IF r = p THEN "trapret" ELSE pc[r]
    BY <1>1 DEF TimerInv, TimerTypes
  <2>3. QED
    BY <1>1, <1>2, <1>4, <2>1, <2>2 DEF SleeperSound
<1>6. QED
  BY <1>1, <1>4, <1>5 DEF TimerInv

LEMMA ExitKeeps ==
  ASSUME TimerInv, NEW p \in Procs, current = p, pc[p] \in {"user", "trapret"},
         Exit(p)
  PROVE  TimerInv'
<1> DEFINE st == [state EXCEPT ![p] = "ZOMBIE"]
<1>1. /\ pc' = [pc EXCEPT ![p] = "gone"]
      /\ exiting' = [exiting EXCEPT ![p] = TRUE]
      /\ Schedule(st, wait_state)
      /\ UNCHANGED timer_list
  BY DEF Exit, Goto
<1>2. /\ p \in Everyone /\ p # idleproc /\ p \notin TimedIn(timer_list)
      /\ wait_state[p] = "none"
  BY RunningProcess
<1>3. /\ pc' \in [Procs -> Places] /\ exiting' \in [Procs -> BOOLEAN]
      /\ \A q \in Procs : pc'[q] = IF q = p THEN "gone" ELSE pc[q]
  BY <1>1 DEF TimerInv, TimerTypes, Places
<1>4. /\ st \in [Everyone -> States]
      /\ \A q \in Everyone : st[q] = IF q = p THEN "ZOMBIE" ELSE state[q]
  BY <1>2, StatesAreStates DEF States
<1>5. idleproc \in Everyone
  BY DEF Everyone
<1> HIDE DEF st
<1>6. /\ st[idleproc] = "RUNNABLE"
      /\ \A q \in Everyone : q # current => st[q] = state[q]
      /\ \A q \in Everyone : st[q] = "SLEEPING" <=> wait_state[q] = "WT_TIMER"
  BY <1>2, <1>4, <1>5, StatesAreStates
<1>7. \A q \in Procs : q = current =>
         /\ pc'[q] \in {"asleep", "user", "gone"}
         /\ st[q] = "ZOMBIE" <=> pc'[q] = "gone"
         /\ st[q] = "SLEEPING" => q \in TimedIn(timer_list)
         /\ q \in TimedIn(timer_list) => pc'[q] = "asleep"
  BY <1>2, <1>3, <1>4
<1>8. QED
  BY <1>1, <1>3, <1>4, <1>6, <1>7, SwitchKeepsTimers

LEMMA YieldKeeps ==
  ASSUME TimerInv, NEW p \in Procs, SysYield(p)
  PROVE  TimerInv'
<1>1. /\ current = p /\ pc[p] = "user"
      /\ pc' = [pc EXCEPT ![p] = "trapret"]
      /\ need_resched' = [need_resched EXCEPT ![p] = TRUE]
      /\ UNCHANGED <<current, state, wait_state, run_list, time_slice,
                     panicked, timer_list, exiting>>
  BY DEF SysYield, At, Running, Goto
<1>2. need_resched' \in [Everyone -> BOOLEAN]
  BY <1>1 DEF TimerInv, SchedCore, SchedTypeOK
<1>3. SchedCore' /\ SleepIsTimed' /\ ListSound(timer_list')
  BY <1>1, <1>2 DEF TimerInv, SchedCore, SchedTypeOK, RunListExact, SleepIsTimed
<1>4. TimerTypes'
  BY <1>1 DEF TimerInv, TimerTypes, Places
<1>5. ASSUME NEW q \in Procs PROVE SleeperSound(q)'
  <2>1. SleeperSound(q) /\ SleeperSound(p)
    BY DEF TimerInv
  <2>2. pc'[q] = IF q = p THEN "trapret" ELSE pc[q]
    BY <1>1 DEF TimerInv, TimerTypes
  <2>3. QED
    BY <1>1, <2>1, <2>2 DEF SleeperSound
<1>6. QED
  BY <1>3, <1>4, <1>5 DEF TimerInv

LEMMA TrapReturnKeeps ==
  ASSUME TimerInv, NEW p \in Procs, TrapReturn(p)
  PROVE  TimerInv'
<1>1. current = p /\ pc[p] = "trapret"
  BY DEF TrapReturn, At, Running
<1>2. CASE exiting[p] /\ Exit(p)
  BY <1>1, <1>2, ExitKeeps
<1>3. CASE ~ (exiting[p] /\ Exit(p))
  <2>1. /\ pc' = [pc EXCEPT ![p] = "user"]
        /\ Schedule(state, wait_state) \/ UNCHANGED schedvars
        /\ UNCHANGED <<timer_list, exiting>>
    BY <1>3 DEF TrapReturn, Goto
  <2>2. /\ pc' \in [Procs -> Places] /\ exiting' \in [Procs -> BOOLEAN]
        /\ \A q \in Procs : pc'[q] = IF q = p THEN "user" ELSE pc[q]
    BY <2>1 DEF TimerInv, TimerTypes, Places
  <2>3. p \notin TimedIn(timer_list) /\ state[p] = "RUNNABLE"
    BY <1>1, RunningProcess
  <2>4. CASE Schedule(state, wait_state)
    <3>1. \A q \in Procs : q = current =>
             /\ pc'[q] \in {"asleep", "user", "gone"}
             /\ state[q] = "ZOMBIE" <=> pc'[q] = "gone"
             /\ state[q] = "SLEEPING" => q \in TimedIn(timer_list)
             /\ q \in TimedIn(timer_list) => pc'[q] = "asleep"
      BY <1>1, <2>2, <2>3
    <3>2. QED
      BY <1>1, <2>1, <2>2, <2>4, <3>1, StatesAreStates, SwitchKeepsTimers
  <2>5. CASE UNCHANGED schedvars
    <3>1. SchedCore' /\ SleepIsTimed' /\ ListSound(timer_list')
      BY <2>1, <2>5 DEF TimerInv, SchedCore, SchedTypeOK, RunListExact,
                        SleepIsTimed, schedvars
    <3>2. TimerTypes'
      BY <2>2, <2>5 DEF TimerInv, TimerTypes, schedvars
    <3>3. ASSUME NEW q \in Procs PROVE SleeperSound(q)'
      <4>1. SleeperSound(q) /\ SleeperSound(p)
        BY DEF TimerInv
      <4>2. QED
        BY <1>1, <2>1, <2>2, <2>3, <2>5, <4>1 DEF SleeperSound, schedvars
    <3>4. QED
      BY <3>1, <3>2, <3>3 DEF TimerInv
  <2>6. QED
    BY <2>1, <2>4, <2>5
<1>4. QED
  BY <1>2, <1>3

LEMMA IdleSchedulesKeeps ==
  ASSUME TimerInv, IdleSchedules
  PROVE  TimerInv'
<1>1. /\ current = idleproc /\ Schedule(state, wait_state)
      /\ UNCHANGED <<timer_list, exiting, pc>>
  BY DEF IdleSchedules, Running
<1>2. /\ pc' \in [Procs -> Places] /\ exiting' \in [Procs -> BOOLEAN]
      /\ \A q \in Procs : q # current /\ pc'[q] = pc[q]
  BY <1>1, SchedAssumption DEF TimerInv, TimerTypes
<1>3. \A q \in Procs : q = current =>
         /\ pc'[q] \in {"asleep", "user", "gone"}
         /\ state[q] = "ZOMBIE" <=> pc'[q] = "gone"
         /\ state[q] = "SLEEPING" => q \in TimedIn(timer_list)
         /\ q \in TimedIn(timer_list) => pc'[q] = "asleep"
  BY <1>2
<1>4. QED
  BY <1>1, <1>2, <1>3, StatesAreStates, SwitchKeepsTimers

\* Every step keeps the invariant.
LEMMA TimersNext ==
  ASSUME TimerInv, [Next]_vars
  PROVE  TimerInv'
<1>1. CASE Tick
  BY <1>1, TickKeepsTimers
<1>2. CASE IdleSchedules
  BY <1>2, IdleSchedulesKeeps
<1>3. ASSUME NEW p \in Procs, Kernel(p) PROVE TimerInv'
  BY <1>3, SleepSchedulesKeeps, SleepResumesKeeps, TrapReturnKeeps DEF Kernel
<1>4. ASSUME NEW p \in Procs, SysExit(p) PROVE TimerInv'
  BY <1>4, ExitKeeps DEF SysExit, At, Running
<1>5. ASSUME NEW p \in Procs, SysYield(p) PROVE TimerInv'
  BY <1>5, YieldKeeps
<1>6. ASSUME NEW p \in Procs, NEW time \in 0 .. MaxTime, SysSleep(p, time)
      PROVE  TimerInv'
  BY <1>6, SysSleepKeeps
<1>7. ASSUME NEW p \in Procs, NEW q \in Procs, SysKill(p, q) PROVE TimerInv'
  BY <1>7, KillKeeps
<1>8. CASE UNCHANGED vars
  <2>1. UNCHANGED <<current, state, wait_state, run_list, time_slice,
                    need_resched, panicked, timer_list, exiting, pc>>
    BY <1>8 DEF vars, schedvars
  <2>2. SchedCore' /\ SleepIsTimed' /\ ListSound(timer_list') /\ TimerTypes'
    BY <2>1 DEF TimerInv, SchedCore, SchedTypeOK, RunListExact, SleepIsTimed,
                TimerTypes
  <2>3. \A p \in Procs : SleeperSound(p)'
    BY <2>1 DEF TimerInv, SleeperSound
  <2>4. QED
    BY <2>2, <2>3 DEF TimerInv
<1>9. QED
  BY <1>1, <1>2, <1>3, <1>4, <1>5, <1>6, <1>7, <1>8 DEF Next

\* Whatever the number of processes, the time they sleep and the order of
\* ticks, kills and calls: whoever sleeps has a timer, whoever has a timer is
\* in do_sleep and has just one, the run list is exact and no assertion of
\* run_timer_list, wakeup_proc or RR_enqueue fails.
THEOREM TimersStayExact == Spec => []ListsExact
<1>1. Init => TimerInv
  BY TimersStart
<1>2. TimerInv /\ [Next]_vars => TimerInv'
  BY TimersNext
<1>3. QED
  BY <1>1, <1>2, TimerInvIsExact, PTL DEF Spec

-----------------------------------------------------------------------------
(***************************************************************************)
(* The timers implement the alarm clock.                                   *)
(***************************************************************************)
\* The two variables of the alarm clock, as the refinement mapping gives them.
alarms == [p \in Timed |-> Ahead(p)]

rungNow == {p \in Procs \ Timed : pc[p] \in {"armed", "asleep"}}

LEMMA AlarmsAre == alarms = Alarm(timer_list)
BY DEF alarms, Timed, Ahead, Alarm, TimedIn

LEMMA AlarmsWillBe == alarms' = Alarm(timer_list')
BY DEF alarms, Timed, Ahead, Alarm, TimedIn

LEMMA RungIs ==
  /\ rungNow = {p \in Procs \ TimedIn(timer_list) : pc[p] \in {"armed", "asleep"}}
  /\ rungNow' = {p \in Procs \ TimedIn(timer_list') : pc'[p] \in {"armed", "asleep"}}
BY DEF rungNow, Timed, TimedIn

LEMMA ClockTicks ==
  ASSUME alarms' = [p \in {q \in DOMAIN alarms : alarms[q] > 1} |-> alarms[p] - 1],
         rungNow' = rungNow \cup {p \in DOMAIN alarms : alarms[p] = 1}
  PROVE  Clock!Tick
BY DEF Clock!Tick, alarms, rungNow

LEMMA ClockSets ==
  ASSUME NEW p, NEW time, p \notin DOMAIN alarms \cup rungNow,
         alarms' = [q \in DOMAIN alarms \cup {p} |->
                      IF q = p THEN time ELSE alarms[q]],
         rungNow' = rungNow
  PROVE  Clock!SetAlarm(p, time)
BY DEF Clock!SetAlarm, alarms, rungNow

LEMMA ClockLeaves ==
  ASSUME NEW p, p \in DOMAIN alarms \cup rungNow,
         alarms' = [q \in DOMAIN alarms \ {p} |-> alarms[q]],
         rungNow' = rungNow \ {p}
  PROVE  Clock!Leave(p)
BY DEF Clock!Leave, alarms, rungNow

LEMMA ClockStands ==
  ASSUME alarms' = alarms, rungNow' = rungNow
  PROVE  UNCHANGED Clock!alarmvars
BY DEF Clock!alarmvars, alarms, rungNow

LEMMA ClockStarts == Init => Clock!Init
<1> SUFFICES ASSUME Init PROVE Clock!Init
  OBVIOUS
<1>1. timer_list = <<>> /\ pc = [p \in Procs |-> "user"]
  BY DEF Init
<1>2. alarms = [p \in {} |-> 0]
  BY <1>1, AlarmsAre, EmptyIsSound
<1>3. rungNow = {}
  BY <1>1 DEF rungNow
<1>4. QED
  BY <1>2, <1>3 DEF Clock!Init, alarms, rungNow

\* A step that changes neither the timer list nor who is in do_sleep.
LEMMA ClockStaysPut ==
  ASSUME UNCHANGED timer_list,
         \A q \in Procs \ TimedIn(timer_list) :
            pc'[q] \in {"armed", "asleep"} <=> pc[q] \in {"armed", "asleep"}
  PROVE  UNCHANGED Clock!alarmvars
<1>1. alarms' = alarms
  BY AlarmsAre, AlarmsWillBe
<1>2. rungNow' = rungNow
  BY RungIs
<1>3. QED
  BY <1>1, <1>2, ClockStands

\* The timer interrupt is the tick of the alarm clock.
LEMMA TickIsClockTick ==
  ASSUME TimerInv, Tick
  PROVE  Clock!Tick
<1>1. ListSound(timer_list)
  BY DEF TimerInv
<1>2. /\ timer_list' = SubSeq(CountedDown(timer_list),
                              DueNow(timer_list) + 1,
                              Len(CountedDown(timer_list)))
      /\ pc' = pc \/ (/\ current \in Procs /\ pc[current] = "user"
                      /\ pc' = [pc EXCEPT ![current] = "trapret"])
  BY TickDoes
<1>3. TickRings(timer_list, CountedDown(timer_list), DueNow(timer_list),
                timer_list')
  BY <1>1, <1>2, TickAlarm
<1>4. /\ TimedIn(timer_list') = {q \in TimedIn(timer_list) : Alarm(timer_list)[q] > 1}
      /\ Alarm(timer_list') = [p \in {q \in TimedIn(timer_list) : Alarm(timer_list)[q] > 1} |->
                                 Alarm(timer_list)[p] - 1]
  BY <1>3 DEF TickRings
<1>5. /\ DOMAIN Alarm(timer_list) = TimedIn(timer_list)
      /\ TimedIn(timer_list) \subseteq Procs
      /\ \A q \in TimedIn(timer_list) :
            Alarm(timer_list)[q] \in Nat /\ Alarm(timer_list)[q] > 0
  BY <1>1, AlarmAt
<1>6. alarms' = [p \in {q \in DOMAIN alarms : alarms[q] > 1} |-> alarms[p] - 1]
  BY <1>4, <1>5, AlarmsAre, AlarmsWillBe
<1>7. ASSUME NEW q \in Procs
      PROVE  /\ pc'[q] \in {"armed", "asleep"} <=> pc[q] \in {"armed", "asleep"}
             /\ q \in TimedIn(timer_list) => pc[q] \in {"armed", "asleep"}
  BY <1>2 DEF TimerInv, TimerTypes, SleeperSound
<1>8. \A q \in TimedIn(timer_list) :
         q \notin TimedIn(timer_list') <=> Alarm(timer_list)[q] = 1
  BY <1>4, <1>5
<1>9. rungNow' = rungNow \cup {p \in TimedIn(timer_list) : Alarm(timer_list)[p] = 1}
  <2>1. TimedIn(timer_list') \subseteq TimedIn(timer_list)
    BY <1>4
  <2>2. QED
    BY <1>5, <1>7, <1>8, <2>1, RungIs
<1>10. rungNow' = rungNow \cup {p \in DOMAIN alarms : alarms[p] = 1}
  BY <1>5, <1>9, AlarmsAre
<1>11. QED
  BY <1>6, <1>10, ClockTicks

\* do_sleep sets the alarm, for as long as was asked.
LEMMA SleepSetsAlarm ==
  ASSUME TimerInv, NEW p \in Procs, NEW time \in 1 .. MaxTime, SysSleep(p, time)
  PROVE  Clock!SetAlarm(p, time)
<1>1. time \in Nat \ {0} /\ time # 0
  BY MaxTimeAssumption
<1>2. /\ current = p /\ pc[p] = "user"
      /\ pc' = [pc EXCEPT ![p] = "armed"]
      /\ timer_list' = AddTimer(timer_list, p, time)
  BY <1>1 DEF SysSleep, At, Running, Goto
<1>3. ListSound(timer_list) /\ p \notin TimedIn(timer_list)
  BY <1>2, RunningProcess DEF TimerInv
<1>4. /\ TimedIn(timer_list') = TimedIn(timer_list) \cup {p}
      /\ Alarm(timer_list') = OneMore(Alarm(timer_list), p, time)
  BY <1>1, <1>2, <1>3, AddTimerAlarm
<1>5. DOMAIN Alarm(timer_list) = TimedIn(timer_list)
  BY <1>3, AlarmAt
<1>6. alarms' = [q \in DOMAIN alarms \cup {p} |->
                   IF q = p THEN time ELSE alarms[q]]
  BY <1>4, AlarmsAre, AlarmsWillBe DEF OneMore
<1>7. \A q \in Procs : pc'[q] = IF q = p THEN "armed" ELSE pc[q]
  BY <1>2 DEF TimerInv, TimerTypes
<1>8. rungNow' = rungNow
  BY <1>2, <1>4, <1>7, RungIs
<1>9. p \notin DOMAIN alarms \cup rungNow
  BY <1>2, <1>3, <1>5, AlarmsAre, RungIs
<1>10. QED
  BY <1>6, <1>8, <1>9, ClockSets

\* A sleeper that goes on turns its alarm off.
LEMMA ResumeLeaves ==
  ASSUME TimerInv, NEW p \in Procs, SleepResumes(p)
  PROVE  Clock!Leave(p)
<1>1. /\ current = p /\ pc[p] = "asleep"
      /\ pc' = [pc EXCEPT ![p] = "trapret"]
      /\ timer_list' = DelTimer(timer_list, p)
  BY DEF SleepResumes, At, Running, Goto
<1>2. ListSound(timer_list)
  BY DEF TimerInv
<1>3. /\ TimedIn(timer_list') = TimedIn(timer_list) \ {p}
      /\ Alarm(timer_list') = [q \in TimedIn(timer_list) \ {p} |->
                                 Alarm(timer_list)[q]]
  BY <1>1, <1>2, DelTimerIfSet
<1>4. DOMAIN Alarm(timer_list) = TimedIn(timer_list)
  BY <1>2, AlarmAt
<1>5. alarms' = [q \in DOMAIN alarms \ {p} |-> alarms[q]]
  BY <1>3, <1>4, AlarmsAre, AlarmsWillBe
<1>6. \A q \in Procs : pc'[q] = IF q = p THEN "trapret" ELSE pc[q]
  BY <1>1 DEF TimerInv, TimerTypes
<1>7. rungNow' = rungNow \ {p}
  BY <1>3, <1>6, RungIs
<1>8. p \in DOMAIN alarms \cup rungNow
  BY <1>1, <1>4, AlarmsAre, RungIs
<1>9. QED
  BY <1>5, <1>7, <1>8, ClockLeaves

\* Every step is one of the alarm clock or none.
LEMMA ClockNext ==
  ASSUME TimerInv, [Next]_vars
  PROVE  [Clock!Next]_(Clock!alarmvars)
<1>0. pc \in [Procs -> Places]
  BY DEF TimerInv, TimerTypes
<1>1. CASE Tick
  BY <1>1, TickIsClockTick DEF Clock!Next
<1>2. CASE IdleSchedules
  <2>1. UNCHANGED <<timer_list, pc>>
    BY <1>2 DEF IdleSchedules
  <2>2. QED
    BY <2>1, ClockStaysPut
<1>3. ASSUME NEW p \in Procs, Kernel(p)
      PROVE  [Clock!Next]_(Clock!alarmvars)
  <2>1. CASE SleepSchedules(p)
    <3>1. /\ pc[p] = "armed" /\ pc' = [pc EXCEPT ![p] = "asleep"]
          /\ UNCHANGED timer_list
      BY <2>1 DEF SleepSchedules, At, Goto
    <3>2. QED
      BY <1>0, <3>1, ClockStaysPut
  <2>2. CASE SleepResumes(p)
    BY <2>2, ResumeLeaves DEF Clock!Next
  <2>3. CASE TrapReturn(p)
    <3>1. /\ pc[p] = "trapret" /\ UNCHANGED timer_list
          /\ \/ pc' = [pc EXCEPT ![p] = "gone"]
             \/ pc' = [pc EXCEPT ![p] = "user"]
      BY <2>3 DEF TrapReturn, Exit, At, Goto
    <3>2. QED
      BY <1>0, <3>1, ClockStaysPut
  <2>4. QED
    BY <1>3, <2>1, <2>2, <2>3 DEF Kernel
<1>4. ASSUME NEW p \in Procs, SysExit(p)
      PROVE  UNCHANGED Clock!alarmvars
  <2>1. /\ pc[p] = "user" /\ UNCHANGED timer_list
        /\ pc' = [pc EXCEPT ![p] = "gone"]
    BY <1>4 DEF SysExit, Exit, At, Goto
  <2>2. QED
    BY <1>0, <2>1, ClockStaysPut
<1>5. ASSUME NEW p \in Procs, SysYield(p)
      PROVE  UNCHANGED Clock!alarmvars
  <2>1. /\ pc[p] = "user" /\ UNCHANGED timer_list
        /\ pc' = [pc EXCEPT ![p] = "trapret"]
    BY <1>5 DEF SysYield, At, Goto
  <2>2. QED
    BY <1>0, <2>1, ClockStaysPut
<1>6. ASSUME NEW p \in Procs, NEW time \in 0 .. MaxTime, SysSleep(p, time)
      PROVE  [Clock!Next]_(Clock!alarmvars)
  <2>1. CASE time = 0
    <3>1. /\ pc[p] = "user" /\ UNCHANGED timer_list
          /\ pc' = [pc EXCEPT ![p] = "trapret"]
      BY <1>6, <2>1 DEF SysSleep, At, Goto
    <3>2. QED
      BY <1>0, <3>1, ClockStaysPut
  <2>2. CASE time # 0
    <3>1. time \in 1 .. MaxTime
      BY <2>2, MaxTimeAssumption
    <3>2. Clock!SetAlarm(p, time)
      BY <1>6, <3>1, SleepSetsAlarm
    <3>3. QED
      BY <3>1, <3>2 DEF Clock!Next
  <2>3. QED
    BY <2>1, <2>2
<1>7. ASSUME NEW p \in Procs, NEW q \in Procs, SysKill(p, q)
      PROVE  UNCHANGED Clock!alarmvars
  <2>1. /\ pc[p] = "user" /\ UNCHANGED timer_list
        /\ pc' = [pc EXCEPT ![p] = "trapret"]
    BY <1>7 DEF SysKill, At, Goto
  <2>2. QED
    BY <1>0, <2>1, ClockStaysPut
<1>8. CASE UNCHANGED vars
  <2>1. UNCHANGED <<timer_list, pc>>
    BY <1>8 DEF vars
  <2>2. QED
    BY <2>1, ClockStaysPut
<1>9. QED
  BY <1>1, <1>2, <1>3, <1>4, <1>5, <1>6, <1>7, <1>8 DEF Next

\* Whatever the number of processes and the time each asks for: the relative
\* expiries of timer_list keep an alarm clock, on which every sleeper's alarm
\* rings after exactly as many ticks as it asked for, however others fall
\* asleep before, between and behind it and are killed early.
THEOREM TimersKeepTime == Spec => ImplementsAlarmClock
<1>1. Init => TimerInv /\ Clock!Init
  BY TimersStart, ClockStarts
<1>2. TimerInv /\ [Next]_vars => TimerInv' /\ [Clock!Next]_(Clock!alarmvars)
  BY TimersNext, ClockNext
<1>3. QED
  BY <1>1, <1>2, PTL DEF Spec, ImplementsAlarmClock, Clock!Spec
=============================================================================
