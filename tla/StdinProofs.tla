---------------------------- MODULE StdinProofs ----------------------------
(***************************************************************************)
(* Stdin implements Typeahead, for any size of the ring and any number of  *)
(* readers: the modulo arithmetic of dev_stdin.c keeps the characters that *)
(* nobody has read, in order, and a key that finds the ring full lands on  *)
(* the oldest of them.  And its readers stay in step with the scheduler:   *)
(* no wakeup is lost, none is delivered twice.                             *)
(***************************************************************************)
EXTENDS Stdin, SemaphoreLemmas

\* What the refinement needs of the ring and of the calls in progress.
RingInv ==
    /\ p_rpos \in Nat /\ p_wpos \in Nat
    /\ p_rpos <= p_wpos /\ p_wpos <= p_rpos + STDIN_BUFSIZE
    /\ stdin_buffer \in [0 .. STDIN_BUFSIZE - 1 -> Chars]
    /\ want \in [Procs -> Nat]
    /\ got \in [Procs -> Seq(Chars)]
    /\ \A p \in Procs : Len(got[p]) <= want[p]
    /\ pc \in [Procs -> {"user", "read", "sleep", "asleep", "trap", "exited"}]
    /\ \A p \in Procs : pc[p] = "user" => got[p] = <<>>

Unread == p_wpos - p_rpos

-----------------------------------------------------------------------------
(***************************************************************************)
(* The slots of the ring.                                                  *)
(***************************************************************************)
LEMMA Division ==
  ASSUME NEW a \in Nat
  PROVE  /\ Slot(a) \in 0 .. STDIN_BUFSIZE - 1
         /\ a = STDIN_BUFSIZE * (a \div STDIN_BUFSIZE) + Slot(a)
         /\ a \div STDIN_BUFSIZE \in Nat
BY StdinAssumption DEF Slot

\* No multiple of the size is strictly between 0 and the size.
LEMMA NoMultipleBetween ==
  ASSUME NEW N \in Nat \ {0}, NEW k \in Int, NEW d \in Int, d = N * k,
         -N < d, d < N
  PROVE  d = 0
<1>1. CASE k <= -1
  BY <1>1
<1>2. CASE k >= 1
  BY <1>2
<1>3. CASE k = 0
  BY <1>3
<1>4. QED
  BY <1>1, <1>2, <1>3

\* Positions less than a ring apart have different slots.
LEMMA SlotsDiffer ==
  ASSUME NEW a \in Nat, NEW b \in Nat, a < b, b < a + STDIN_BUFSIZE
  PROVE  Slot(a) # Slot(b)
<1> SUFFICES ASSUME Slot(a) = Slot(b) PROVE FALSE
  OBVIOUS
<1> DEFINE N == STDIN_BUFSIZE
           j == a \div N
           k == b \div N
           s == Slot(a)
<1>1. /\ N \in Nat \ {0} /\ a < b /\ b < a + N
  BY StdinAssumption
<1>2. /\ j \in Nat /\ k \in Nat /\ s \in 0 .. N - 1
      /\ a = N * j + s
  BY <1>1, Division
<1>3. k \in Nat /\ b = N * k + s
  BY <1>1, Division
<1> HIDE DEF N, j, k, s
<1>4. b - a = N * (k - j)
  BY <1>1, <1>2, <1>3
<1>5. /\ b - a \in Int /\ k - j \in Int
      /\ -N < b - a /\ b - a < N
  BY <1>1, <1>2, <1>3
<1>6. b - a = 0
  BY <1>1, <1>4, <1>5, NoMultipleBetween
<1>7. QED
  BY <1>1, <1>6

\* A position and the one a ring later share their slot.
LEMMA SlotsRepeat ==
  ASSUME NEW a \in Nat
  PROVE  Slot(a + STDIN_BUFSIZE) = Slot(a)
<1> DEFINE N == STDIN_BUFSIZE
           j == a \div N
           k == (a + N) \div N
           s == Slot(a)
           t == Slot(a + N)
<1>1. /\ N \in Nat \ {0} /\ a + N \in Nat
  BY StdinAssumption
<1>2. /\ j \in Nat /\ k \in Nat /\ s \in 0 .. N - 1 /\ t \in 0 .. N - 1
      /\ a = N * j + s /\ a + N = N * k + t
  BY <1>1, Division
<1> HIDE DEF N, j, k, s, t
<1>3. s - t = N * (k - j - 1)
  BY <1>1, <1>2
<1>4. /\ s - t \in Int /\ k - j - 1 \in Int
      /\ -N < s - t /\ s - t < N
  BY <1>1, <1>2
<1>5. s - t = 0
  BY <1>1, <1>3, <1>4, NoMultipleBetween
<1>6. s = t
  BY <1>2, <1>5
<1>7. QED
  BY <1>6 DEF s, t, N

\* What n positions of the ring hold, from position r on.
Window(buf, r, n) == [i \in 1 .. n |-> buf[Slot(r + i - 1)]]

LEMMA WindowChars ==
  ASSUME NEW buf \in [0 .. STDIN_BUFSIZE - 1 -> Chars], NEW r \in Nat, NEW n \in Nat
  PROVE  /\ Window(buf, r, n) \in Seq(Chars)
         /\ Len(Window(buf, r, n)) = n
         /\ \A i \in 1 .. n : Window(buf, r, n)[i] = buf[Slot(r + i - 1)]
<1>1. \A i \in 1 .. n : buf[Slot(r + i - 1)] \in Chars
  <2> SUFFICES ASSUME NEW i \in 1 .. n
               PROVE  buf[Slot(r + i - 1)] \in Chars
    OBVIOUS
  <2>1. r + i - 1 \in Nat
    OBVIOUS
  <2>2. QED
    BY <2>1, Division
<1>2. QED
  BY <1>1 DEF Window

\* The characters that nobody has read.
queue == NextChars(p_wpos - p_rpos)

LEMMA QueueIsWindow ==
  ASSUME RingInv
  PROVE  /\ Unread \in Nat
         /\ queue = Window(stdin_buffer, p_rpos, Unread)
BY DEF RingInv, Unread, queue, NextChars, Window

LEMMA QueueChars ==
  ASSUME RingInv
  PROVE  /\ Unread \in Nat
         /\ queue \in Seq(Chars)
         /\ Len(queue) = Unread
         /\ \A i \in 1 .. Unread : queue[i] = stdin_buffer[Slot(p_rpos + i - 1)]
<1>1. /\ Unread \in Nat /\ p_rpos \in Nat
      /\ stdin_buffer \in [0 .. STDIN_BUFSIZE - 1 -> Chars]
  BY DEF RingInv, Unread
<1> DEFINE w == Window(stdin_buffer, p_rpos, Unread)
<1>2. /\ w \in Seq(Chars)
      /\ Len(w) = Unread
      /\ \A i \in 1 .. Unread : w[i] = stdin_buffer[Slot(p_rpos + i - 1)]
  BY <1>1, WindowChars
<1>3. queue = w
  BY QueueIsWindow
<1> HIDE DEF w
<1>4. QED
  BY <1>1, <1>2, <1>3

\* How many characters a reader takes.
LEMMA AvailableBounds ==
  ASSUME RingInv, NEW p \in Procs
  PROVE  /\ Available(p) \in 0 .. Unread
         /\ Available(p) <= want[p] - Len(got[p])
<1> DEFINE T == {want[p] - Len(got[p]), p_wpos - p_rpos}
<1>1. /\ T \in SUBSET Nat /\ T # {}
      /\ Unread \in Nat
  BY DEF RingInv, Unread
<1>2. Min(T) \in T /\ \A j \in T : Min(T) <= j
  <2> HIDE DEF T
  <2> QED BY <1>1, MinInSet
<1>3. Min(T) \in Nat /\ Min(T) <= want[p] - Len(got[p]) /\ Min(T) <= p_wpos - p_rpos
  BY <1>1, <1>2
<1>4. Available(p) = Min(T)
  BY DEF Available
<1> HIDE DEF T
<1>5. QED
  BY <1>1, <1>3, <1>4 DEF Unread

-----------------------------------------------------------------------------
\* A key.
LEMMA KeyTypes ==
  ASSUME RingInv, NEW c \in Chars, KeyboardInterrupt(c)
  PROVE  RingInv' /\ Keys!Type(c)
<1> DEFINE N == STDIN_BUFSIZE
<1>1. /\ N \in Nat /\ N > 0 /\ p_rpos \in Nat /\ p_wpos \in Nat
      /\ p_rpos <= p_wpos /\ p_wpos <= p_rpos + N
  BY StdinAssumption DEF RingInv
<1>2. /\ p_rpos' = p_rpos /\ p_wpos' = Advance
      /\ stdin_buffer' = [stdin_buffer EXCEPT ![Slot(p_wpos)] = c]
      /\ UNCHANGED <<want, got, pc>>
  BY DEF KeyboardInterrupt, call
<1>3. Slot(p_wpos) \in 0 .. N - 1
  BY <1>1, Division
<1>4. stdin_buffer' \in [0 .. N - 1 -> Chars] /\ stdin_buffer'[Slot(p_wpos)] = c
  BY <1>2, <1>3 DEF RingInv
<1>5. RingInv'
  <2>1. /\ p_wpos' \in Nat /\ p_rpos' <= p_wpos'
        /\ p_wpos' <= p_rpos' + N
    BY <1>1, <1>2 DEF Advance
  <2>2. QED
    BY <2>1, <1>2, <1>4 DEF RingInv
<1>6. /\ queue \in Seq(Chars)
      /\ Len(queue) = p_wpos - p_rpos
      /\ \A i \in 1 .. p_wpos - p_rpos :
            queue[i] = stdin_buffer[Slot(p_rpos + i - 1)]
  BY QueueChars DEF Unread
<1>7. /\ queue' \in Seq(Chars)
      /\ Len(queue') = p_wpos' - p_rpos
      /\ \A i \in 1 .. p_wpos' - p_rpos :
            queue'[i] = stdin_buffer'[Slot(p_rpos + i - 1)]
  <2> DEFINE n == p_wpos' - p_rpos
             w == Window(stdin_buffer', p_rpos, n)
  <2>1. n \in Nat
    BY <1>1, <1>2 DEF Advance
  <2>2. /\ w \in Seq(Chars)
        /\ Len(w) = n
        /\ \A i \in 1 .. n : w[i] = stdin_buffer'[Slot(p_rpos + i - 1)]
    <3> HIDE DEF n
    <3> QED BY <2>1, <1>1, <1>4, WindowChars
  <2>3. queue' = w
    BY <1>2 DEF queue, NextChars, Window
  <2> HIDE DEF w
  <2>4. QED
    BY <2>2, <2>3
\* The slots that are not written keep their characters.
<1>8. \A x \in Nat : p_rpos <= x /\ x < p_wpos /\ p_wpos < x + N =>
         stdin_buffer'[Slot(x)] = stdin_buffer[Slot(x)]
  BY <1>1, <1>2, SlotsDiffer, Division DEF RingInv
<1>9. CASE p_wpos - p_rpos < N
  <2>1. p_wpos' = p_wpos + 1
    BY <1>2, <1>9 DEF Advance
  <2>2. \A i \in 1 .. p_wpos - p_rpos : queue'[i] = queue[i]
    <3> SUFFICES ASSUME NEW i \in 1 .. p_wpos - p_rpos
                 PROVE  queue'[i] = queue[i]
      OBVIOUS
    <3>1. /\ p_rpos + i - 1 \in Nat
          /\ p_rpos <= p_rpos + i - 1 /\ p_rpos + i - 1 < p_wpos
          /\ p_wpos < (p_rpos + i - 1) + N
          /\ i \in 1 .. p_wpos' - p_rpos
      BY <1>1, <1>9, <2>1
    <3>2. QED
      BY <3>1, <1>6, <1>7, <1>8
  <2>3. queue'[p_wpos - p_rpos + 1] = c
    <3>1. /\ p_wpos - p_rpos + 1 \in 1 .. p_wpos' - p_rpos
          /\ p_rpos + (p_wpos - p_rpos + 1) - 1 = p_wpos
      BY <1>1, <2>1
    <3>2. QED
      BY <3>1, <1>4, <1>7
  <2>4. Len(queue') = Len(queue) + 1
    BY <1>1, <1>6, <1>7, <2>1
  <2>5. queue' = Append(queue, c)
    BY <1>1, <1>6, <1>7, <2>2, <2>3, <2>4
  <2>6. QED
    BY <1>2, <1>5, <1>6, <1>9, <2>5 DEF Keys!Type, queue
<1>10. CASE p_wpos - p_rpos = N
  <2>1. p_wpos' = p_wpos /\ p_wpos = p_rpos + N
    BY <1>1, <1>2, <1>10 DEF Advance
  <2>2. \A i \in 2 .. N : queue'[i] = queue[i]
    <3> SUFFICES ASSUME NEW i \in 2 .. N
                 PROVE  queue'[i] = queue[i]
      OBVIOUS
    <3>1. /\ p_rpos + i - 1 \in Nat
          /\ p_rpos <= p_rpos + i - 1 /\ p_rpos + i - 1 < p_wpos
          /\ p_wpos < (p_rpos + i - 1) + N
          /\ i \in 1 .. p_wpos - p_rpos
      BY <1>1, <2>1
    <3>2. QED
      BY <3>1, <2>1, <1>6, <1>7, <1>8
  <2>3. queue'[1] = c
    <3>1. p_rpos + 1 - 1 = p_rpos /\ 1 \in 1 .. p_wpos' - p_rpos
      BY <1>1, <2>1
    <3>2. Slot(p_wpos) = Slot(p_rpos)
      BY <1>1, <2>1, SlotsRepeat
    <3>3. QED
      BY <3>1, <3>2, <1>4, <1>7
  <2>4. Len(queue') = N /\ Len(queue) = N
    BY <1>6, <1>7, <1>10, <2>1
  <2>5. queue' = [queue EXCEPT ![1] = c]
    BY <1>1, <1>6, <1>7, <2>2, <2>3, <2>4
  <2>6. QED
    BY <1>2, <1>5, <1>6, <1>10, <2>5, <2>4 DEF Keys!Type, queue
<1>11. QED
  BY <1>1, <1>9, <1>10

\* A reader takes characters from the front, or finds none.
LEMMA ReaderReads ==
  ASSUME RingInv, NEW p \in Procs, ReadLoop(p)
  PROVE  RingInv' /\ (Keys!Read(p) \/ UNCHANGED <<queue, got>>)
<1> DEFINE n == Available(p)
           len == p_wpos - p_rpos
           taken == NextChars(n)
<1>1. /\ n \in Nat /\ n <= len /\ n <= want[p] - Len(got[p])
      /\ len \in Nat /\ len <= STDIN_BUFSIZE /\ p_rpos \in Nat /\ p_wpos \in Nat
      /\ STDIN_BUFSIZE \in Nat
  BY AvailableBounds, StdinAssumption DEF RingInv, Unread
<1>2. /\ got' = [got EXCEPT ![p] = got[p] \o taken]
      /\ p_rpos' = p_rpos + n
      /\ UNCHANGED <<stdin_buffer, p_wpos, want>>
      /\ pc' = [pc EXCEPT ![p] = "trap"] \/ pc' = [pc EXCEPT ![p] = "sleep"]
  BY DEF ReadLoop, Goto
<1>3. /\ queue \in Seq(Chars)
      /\ Len(queue) = len
      /\ \A i \in 1 .. len : queue[i] = stdin_buffer[Slot(p_rpos + i - 1)]
  BY QueueChars DEF Unread
<1> HIDE DEF n
<1>4. /\ taken \in Seq(Chars)
      /\ Len(taken) = n
      /\ \A i \in 1 .. n : taken[i] = stdin_buffer[Slot(p_rpos + i - 1)]
  <2> DEFINE w == Window(stdin_buffer, p_rpos, n)
  <2>1. /\ w \in Seq(Chars)
        /\ Len(w) = n
        /\ \A i \in 1 .. n : w[i] = stdin_buffer[Slot(p_rpos + i - 1)]
    BY <1>1, WindowChars DEF RingInv
  <2>2. taken = w
    BY DEF NextChars, Window
  <2> HIDE DEF w, taken
  <2>3. QED
    BY <2>1, <2>2
<1> HIDE DEF taken
<1>5. taken = SubSeq(queue, 1, n)
  <2> DEFINE front == SubSeq(queue, 1, n)
  <2>1. n \in 0 .. Len(queue)
    BY <1>1, <1>3
  <2>2. /\ front \in Seq(Chars)
        /\ Len(front) = n
        /\ \A i \in 1 .. n : front[i] = queue[i]
    BY <2>1, <1>3, PrefixElements
  <2>3. \A i \in 1 .. n : i \in 1 .. len
    BY <1>1
  <2> HIDE DEF front, len
  <2>4. taken = front
    BY <2>2, <2>3, <1>1, <1>3, <1>4
  <2>5. QED
    BY <2>4 DEF front
<1>6. queue' = SubSeq(queue, n + 1, Len(queue))
  <2> DEFINE w == Window(stdin_buffer, p_rpos + n, len - n)
             rest == SubSeq(queue, n + 1, Len(queue))
  <2>1. p_rpos + n \in Nat /\ len - n \in Nat
    BY <1>1
  <2>2. /\ w \in Seq(Chars)
        /\ Len(w) = len - n
        /\ \A i \in 1 .. len - n : w[i] = stdin_buffer[Slot((p_rpos + n) + i - 1)]
    <3> HIDE DEF len
    <3> QED BY <2>1, WindowChars DEF RingInv
  <2>3. /\ rest \in Seq(Chars)
        /\ Len(rest) = len - n
        /\ \A i \in 1 .. len - n : rest[i] = queue[n + i]
    <3>1. n \in 0 .. Len(queue)
      BY <1>1, <1>3
    <3>2. QED
      BY <3>1, <1>3, SuffixElements
  <2>4. \A i \in 1 .. len - n :
           queue[n + i] = stdin_buffer[Slot((p_rpos + n) + i - 1)]
    <3> SUFFICES ASSUME NEW i \in 1 .. len - n
                 PROVE  queue[n + i] = stdin_buffer[Slot((p_rpos + n) + i - 1)]
      OBVIOUS
    <3>1. n + i \in 1 .. len /\ p_rpos + (n + i) - 1 = (p_rpos + n) + i - 1
      BY <1>1
    <3>2. queue[n + i] = stdin_buffer[Slot(p_rpos + (n + i) - 1)]
      BY <3>1, <1>3
    <3>3. QED
      BY <3>1, <3>2
  <2>5. queue' = w
    <3>1. p_wpos' - p_rpos' = len - n
      BY <1>1, <1>2
    <3>2. QED
      BY <1>2, <3>1 DEF queue, NextChars, Window
  <2> HIDE DEF w, rest
  <2>6. w = rest
    BY <2>2, <2>3, <2>4
  <2>7. QED
    BY <2>5, <2>6 DEF rest
<1>7. RingInv'
  <2>1. /\ got[p] \o taken \in Seq(Chars)
        /\ Len(got[p] \o taken) = Len(got[p]) + n
    <3>1. got[p] \in Seq(Chars)
      BY DEF RingInv
    <3>2. QED
      BY <3>1, <1>4, ConcatElements
  <2>2. /\ got' \in [Procs -> Seq(Chars)]
        /\ \A q \in Procs : Len(got'[q]) <= want'[q]
    <3>1. got' \in [Procs -> Seq(Chars)]
      BY <1>2, <2>1 DEF RingInv
    <3>2. got'[p] = got[p] \o taken /\ \A q \in Procs \ {p} : got'[q] = got[q]
      BY <1>2 DEF RingInv
    <3>3. Len(got[p]) + n <= want[p]
      <4>1. Len(got[p]) \in Nat /\ want[p] \in Nat
        BY DEF RingInv
      <4>2. QED
        BY <4>1, <1>1
    <3>4. QED
      BY <3>1, <3>2, <3>3, <2>1, <1>2 DEF RingInv
  <2>3. /\ p_rpos' \in Nat /\ p_wpos' \in Nat
        /\ p_rpos' <= p_wpos' /\ p_wpos' <= p_rpos' + STDIN_BUFSIZE
    BY <1>1, <1>2
  <2>4. /\ pc' \in [Procs -> {"user", "read", "sleep", "asleep", "trap", "exited"}]
        /\ \A q \in Procs : pc'[q] = "user" => q # p /\ pc[q] = "user"
    BY <1>2 DEF RingInv
  <2>5. \A q \in Procs : pc'[q] = "user" => got'[q] = <<>>
    BY <1>2, <2>4 DEF RingInv
  <2>6. QED
    BY <1>2, <2>2, <2>3, <2>4, <2>5 DEF RingInv
<1>8. CASE n = 0
  <2>1. got[p] \o taken = got[p]
    BY <1>4, <1>8 DEF RingInv
  <2>2. got' = got
    BY <1>2, <2>1 DEF RingInv
  <2>3. queue' = queue
    BY <1>3, <1>6, <1>8
  <2>4. QED
    BY <1>7, <2>2, <2>3
<1>9. CASE n # 0
  <2>1. n \in 1 .. Len(queue)
    BY <1>1, <1>3, <1>9
  <2>2. got' = [got EXCEPT ![p] = @ \o SubSeq(queue, 1, n)]
    BY <1>2, <1>5
  <2>3. Keys!Read(p)
    BY <2>1, <2>2, <1>6 DEF Keys!Read, queue
  <2>4. QED
    BY <1>7, <2>3
<1>10. QED
  BY <1>8, <1>9

\* The call is over.
LEMMA ReaderReturns ==
  ASSUME RingInv, NEW p \in Procs, TrapReturn(p)
  PROVE  RingInv' /\ Keys!Return(p)
<1>1. /\ got' = [got EXCEPT ![p] = <<>>]
      /\ want' = [want EXCEPT ![p] = 0]
      /\ UNCHANGED ring
      /\ pc' = [pc EXCEPT ![p] = "exited"] \/ pc' = [pc EXCEPT ![p] = "user"]
  BY DEF TrapReturn, Goto
<1>2. RingInv'
  <2>1. <<>> \in Seq(Chars) /\ Len(<<>>) = 0
    OBVIOUS
  <2>2. /\ got' \in [Procs -> Seq(Chars)] /\ want' \in [Procs -> Nat]
        /\ got'[p] = <<>> /\ want'[p] = 0
        /\ \A q \in Procs \ {p} : got'[q] = got[q] /\ want'[q] = want[q]
    BY <1>1, <2>1 DEF RingInv
  <2>3. \A q \in Procs : Len(got'[q]) <= want'[q]
    BY <2>1, <2>2 DEF RingInv
  <2>4. /\ pc' \in [Procs -> {"user", "read", "sleep", "asleep", "trap", "exited"}]
        /\ \A q \in Procs : pc'[q] = "user" => got'[q] = <<>>
    BY <1>1, <2>2 DEF RingInv
  <2>5. QED
    BY <1>1, <2>2, <2>3, <2>4 DEF RingInv, ring
<1>3. QED
  BY <1>1, <1>2 DEF Keys!Return, NextChars, ring

\* Nothing else touches the characters.
LEMMA OthersStutter ==
  ASSUME RingInv, UNCHANGED <<ring, got>>,
         want' = want \/ \E p \in Procs, len \in 1 .. MaxLen :
                            /\ want' = [want EXCEPT ![p] = len]
                            /\ pc[p] = "user",
         pc' = pc \/ \E p \in Procs : \E place \in
                        {"read", "sleep", "asleep", "trap", "exited"} :
                            pc' = [pc EXCEPT ![p] = place]
  PROVE  RingInv' /\ UNCHANGED <<queue, got>>
<1>1. want' \in [Procs -> Nat] /\ \A q \in Procs : Len(got[q]) <= want'[q]
  <2>1. CASE want' = want
    BY <2>1 DEF RingInv
  <2>2. ASSUME NEW p \in Procs, NEW len \in 1 .. MaxLen, pc[p] = "user",
               want' = [want EXCEPT ![p] = len]
        PROVE  want' \in [Procs -> Nat] /\ \A q \in Procs : Len(got[q]) <= want'[q]
    <3>1. len \in Nat /\ Len(got[p]) <= len
      BY <2>2, StdinAssumption DEF RingInv
    <3>2. QED
      BY <2>2, <3>1 DEF RingInv
  <2>3. QED
    BY <2>1, <2>2
<1>2. /\ pc' \in [Procs -> {"user", "read", "sleep", "asleep", "trap", "exited"}]
      /\ \A q \in Procs : pc'[q] = "user" => pc[q] = "user"
  BY DEF RingInv
<1>3. QED
  BY <1>1, <1>2 DEF RingInv, ring, queue, NextChars

-----------------------------------------------------------------------------
LEMMA InitRing == Init => RingInv /\ Keys!Init
<1> SUFFICES ASSUME Init PROVE RingInv /\ Keys!Init
  OBVIOUS
<1>1. <<>> \in Seq(Chars) /\ Len(<<>>) = 0
  OBVIOUS
<1>2. RingInv
  BY <1>1, StdinAssumption DEF Init, RingInv
<1>3. queue = <<>>
  BY <1>2, QueueChars DEF Init, Unread
<1>4. QED
  BY <1>2, <1>3 DEF Init, Keys!Init, queue

LEMMA NextRing ==
  ASSUME RingInv, [Next]_vars
  PROVE  RingInv' /\ [Keys!Next]_(Keys!vars)
<1>1. ASSUME NEW c \in Chars, KeyboardInterrupt(c)
      PROVE  RingInv' /\ Keys!Next
  BY <1>1, KeyTypes DEF Keys!Next
<1>2. ASSUME NEW p \in Procs, ReadLoop(p)
      PROVE  RingInv' /\ (Keys!Next \/ UNCHANGED <<queue, got>>)
  BY <1>2, ReaderReads DEF Keys!Next
<1>3. ASSUME NEW p \in Procs, TrapReturn(p)
      PROVE  RingInv' /\ Keys!Next
  BY <1>3, ReaderReturns DEF Keys!Next
<1>4. ASSUME NEW p \in Procs, ReaderSchedules(p) \/ Interrupted(p) \/ Preempt(p)
                              \/ \E q \in Procs : Kill(p, q)
      PROVE  RingInv' /\ UNCHANGED <<queue, got>>
  BY <1>4, OthersStutter
     DEF ReaderSchedules, Interrupted, Preempt, Kill, Goto, call
<1>5. ASSUME NEW p \in Procs, NEW len \in 1 .. MaxLen, SysRead(p, len)
      PROVE  RingInv' /\ UNCHANGED <<queue, got>>
  BY <1>5, OthersStutter DEF SysRead, At, Goto
<1>6. ASSUME Tick \/ IdleSchedules \/ UNCHANGED vars
      PROVE  RingInv' /\ UNCHANGED <<queue, got>>
  BY <1>6, OthersStutter DEF Tick, IdleSchedules, vars, call
<1>7. RingInv' /\ (Keys!Next \/ UNCHANGED <<queue, got>>)
  BY <1>1, <1>2, <1>3, <1>4, <1>5, <1>6 DEF Next, Reader
<1>8. QED
  BY <1>7 DEF Keys!vars, queue

\* Every behaviour of the keyboard device, its readers and those who kill
\* them is one of the type-ahead queue: whatever the size of the ring and
\* however often its positions have wrapped, each character goes to one
\* reader, in the order of typing.
THEOREM KeyboardKeepsOrder == Spec => ImplementsTypeahead
<1>1. Init => RingInv /\ Keys!Init
  BY InitRing
<1>2. RingInv /\ [Next]_vars => RingInv' /\ [Keys!Next]_(Keys!vars)
  BY NextRing
<1>3. QED
  BY <1>1, <1>2, PTL DEF Spec, ImplementsTypeahead, Keys!Spec

-----------------------------------------------------------------------------
(***************************************************************************)
(* The readers: who sleeps, who is queued, and what a read comes back      *)
(* with.                                                                   *)
(***************************************************************************)
\* A reader between its joining the queue and the end of its sleep.
InCall == {"sleep", "asleep"}

\* What is true of each process at every step: a sleeper that has not called
\* schedule() yet is still current; whoever is in the queue has a wait_t
\* without a wakeup; whoever is awake in the call was woken by a key or killed.
ReaderSound(p) ==
    /\ state[p] = "ZOMBIE" <=> pc[p] = "exited"
    /\ wait_state[p] = "WT_KBD" => p \in ToSet(kbd_queue)
    /\ p \in ToSet(kbd_queue) =>
          pc[p] \in InCall /\ kbd_flags[p] = "WT_INTERRUPTED"
    /\ pc[p] = "sleep" => p = current
    /\ p = current => /\ pc[p] # "exited"
                      /\ state[p] = "SLEEPING" => pc[p] = "sleep"
    /\ pc[p] \in InCall /\ state[p] = "RUNNABLE" =>
          kbd_flags[p] = "WT_KBD" \/ exiting[p]
    /\ pc[p] = "user" => want[p] = 0
    /\ pc[p] = "trap" /\ ~exiting[p] => Len(got[p]) = want[p]

\* The types that this part of the argument needs.
KbdTypes ==
    /\ wait_state \in [Everyone -> {"none", "WT_KBD"}]
    /\ kbd_queue \in Seq(Procs)
    /\ IsInjective(kbd_queue)
    /\ kbd_flags \in [Procs -> {"WT_INTERRUPTED", "WT_KBD"}]
    /\ exiting \in [Procs -> BOOLEAN]

\* The inductive invariant of the readers, their queue and the scheduler.
KbdInv ==
    /\ SchedCore
    /\ KbdTypes
    /\ \A p \in Everyone : state[p] = "SLEEPING" <=> wait_state[p] = "WT_KBD"
    /\ \A p \in Procs : ReaderSound(p)
    /\ NobodyWaitsForKeys

\* It says what ReadersQueued says, and more.
LEMMA KbdInvIsSound == KbdInv => ReadersQueued
<1> SUFFICES ASSUME KbdInv PROVE ReadersQueued
  OBVIOUS
<1>1. RunListExact /\ AssertionsHold
  BY DEF KbdInv, SchedCore, AssertionsHold
<1>2. SleepersAreQueued
  <2>1. ToSet(kbd_queue) \subseteq Procs
    BY DEF KbdInv, KbdTypes, ToSet
  <2>2. QED
    BY <2>1 DEF KbdInv, KbdTypes, ReaderSound, InCall, SleepersAreQueued
<1>3. ShortOnlyIfKilled
  BY DEF KbdInv, ReaderSound, ShortOnlyIfKilled
<1>4. QED
  BY <1>1, <1>2, <1>3 DEF KbdInv, ReadersQueued

\* Nobody reads, and idle runs.
LEMMA KbdStarts == Init => KbdInv
<1> SUFFICES ASSUME Init PROVE KbdInv
  OBVIOUS
<1>1. SchedInv
  BY SchedStarts DEF Init
<1>2. /\ current = idleproc
      /\ state = [p \in Everyone |-> "RUNNABLE"]
      /\ wait_state = [p \in Everyone |-> "none"]
      /\ kbd_queue = <<>>
      /\ kbd_flags = [p \in Procs |-> "WT_INTERRUPTED"]
      /\ want = [p \in Procs |-> 0]
      /\ exiting = [p \in Procs |-> FALSE]
      /\ pc = [p \in Procs |-> "user"]
  BY DEF Init, SchedInit
<1>3. ToSet(kbd_queue) = {} /\ IsInjective(kbd_queue)
  BY <1>2 DEF ToSet, IsInjective
<1>4. KbdTypes
  BY <1>2, <1>3 DEF KbdTypes
<1>5. ASSUME NEW p \in Procs PROVE ReaderSound(p)
  <2>1. p \in Everyone /\ p # current
    BY <1>2, SchedAssumption DEF Everyone
  <2>2. QED
    BY <1>2, <1>3, <2>1 DEF ReaderSound, InCall
<1>6. QED
  BY <1>1, <1>2, <1>4, <1>5, InvHasCore DEF KbdInv, NobodyWaitsForKeys

\* What is known of the process that runs.
LEMMA RunningReader ==
  ASSUME RingInv, KbdInv, NEW p \in Procs, current = p, pc[p] # "sleep"
  PROVE  /\ state[p] = "RUNNABLE" /\ wait_state[p] = "none"
         /\ p \in Everyone
         /\ pc[p] \in InCall => kbd_flags[p] = "WT_KBD" \/ exiting[p]
<1>1. /\ p \in Everyone /\ state \in [Everyone -> States]
      /\ wait_state \in [Everyone -> {"none", "WT_KBD"}]
  BY DEF KbdInv, SchedCore, SchedTypeOK, KbdTypes, Everyone, States
<1>2. state[p] # "SLEEPING" /\ state[p] # "ZOMBIE"
  BY DEF KbdInv, ReaderSound
<1>3. state[p] = "RUNNABLE"
  BY <1>1, <1>2 DEF States
<1>4. wait_state[p] = "none"
  BY <1>1, <1>2 DEF KbdInv
<1>5. QED
  BY <1>1, <1>3, <1>4 DEF KbdInv, ReaderSound

\* schedule(), whatever the running process has become and wherever it will
\* go on.
LEMMA SwitchKeeps ==
  ASSUME KbdInv, NEW st \in [Everyone -> States],
         \A p \in Everyone : p # current => st[p] = state[p],
         st[idleproc] = "RUNNABLE",
         \A p \in Everyone : st[p] = "SLEEPING" <=> wait_state[p] = "WT_KBD",
         Schedule(st, wait_state),
         UNCHANGED <<ring, waits, exiting>>,
         \A p \in Procs : p # current =>
            pc'[p] = pc[p] /\ got'[p] = got[p] /\ want'[p] = want[p],
         \A p \in Procs : p = current =>
            /\ pc'[p] \in {"asleep", "user", "exited"}
            /\ st[p] = "ZOMBIE" <=> pc'[p] = "exited"
            /\ p \in ToSet(kbd_queue) => pc'[p] = "asleep"
            /\ pc'[p] = "asleep" /\ st[p] = "RUNNABLE" =>
                  kbd_flags[p] = "WT_KBD" \/ exiting[p]
            /\ pc'[p] = "user" => want'[p] = 0
  PROVE  KbdInv'
<1>1. /\ SchedCore' /\ state' = st /\ wait_state' = wait_state
      /\ current' \in Everyone /\ st[current'] = "RUNNABLE"
  BY ScheduleKeepsCore DEF KbdInv
<1>2. KbdTypes'
  BY <1>1 DEF KbdInv, KbdTypes, waits
<1>3. ASSUME NEW p \in Procs PROVE ReaderSound(p)'
  <2>1. p \in Everyone /\ ReaderSound(p)
    BY DEF KbdInv, Everyone
  <2>2. /\ state'[p] = st[p] /\ wait_state'[p] = wait_state[p]
        /\ kbd_queue' = kbd_queue /\ kbd_flags'[p] = kbd_flags[p]
        /\ exiting'[p] = exiting[p]
        /\ p = current' => st[p] = "RUNNABLE"
    BY <1>1 DEF waits
  <2>3. CASE p = current
    BY <2>1, <2>2, <2>3 DEF ReaderSound, InCall
  <2>4. CASE p # current
    <3>1. /\ st[p] = state[p] /\ pc'[p] = pc[p]
          /\ got'[p] = got[p] /\ want'[p] = want[p]
      BY <2>1, <2>4
    <3>2. QED
      BY <2>1, <2>2, <2>4, <3>1 DEF ReaderSound, InCall
  <2>5. QED
    BY <2>3, <2>4
<1>4. NobodyWaitsForKeys'
  BY DEF KbdInv, NobodyWaitsForKeys, ring, waits
<1>5. QED
  BY <1>1, <1>2, <1>3, <1>4 DEF KbdInv

\* A reader of whom nothing changes.
LEMMA SoundStays ==
  ASSUME NEW p \in Procs, ReaderSound(p), current' = current,
         p \in ToSet(kbd_queue') <=> p \in ToSet(kbd_queue),
         state'[p] = state[p], wait_state'[p] = wait_state[p],
         pc'[p] = pc[p], kbd_flags'[p] = kbd_flags[p],
         exiting'[p] = exiting[p], want'[p] = want[p], got'[p] = got[p]
  PROVE  ReaderSound(p)'
BY DEF ReaderSound, InCall

\* A sleeper leaves the queue, if it was there.
LEMMA LeaveQueue ==
  ASSUME NEW S, NEW s \in Seq(S), IsInjective(s), NEW p
  PROVE  /\ RemoveFirst(s, p) \in Seq(S)
         /\ IsInjective(RemoveFirst(s, p))
         /\ ToSet(RemoveFirst(s, p)) = ToSet(s) \ {p}
         /\ RemoveFirst(s, p) # <<>> => s # <<>>
<1>1. CASE p \in ToSet(s)
  <2>1. PICK i \in 1 .. Len(s) : s[i] = p
    BY <1>1 DEF ToSet
  <2>2. RemoveFirst(s, p) = RemoveAt(s, i)
    BY <2>1, RemoveFirstAt
  <2>3. s # <<>>
    BY <1>1 DEF ToSet
  <2>4. QED
    BY <2>1, <2>2, <2>3, RemoveSet
<1>2. CASE p \notin ToSet(s)
  BY <1>2, RemoveAbsent
<1>3. QED
  BY <1>1, <1>2

\* A key empties the queue; its processes become runnable, and the one that is
\* still current stays off the run list.
LEMMA KeyKeeps ==
  ASSUME RingInv, KbdInv, NEW c \in Chars, KeyboardInterrupt(c)
  PROVE  KbdInv'
<1>1. /\ kbd_queue' = <<>>
      /\ kbd_flags' = [p \in Procs |-> IF p \in ToSet(kbd_queue)
                                       THEN "WT_KBD" ELSE kbd_flags[p]]
      /\ WakeupProcs(kbd_queue)
      /\ time_slice' = Refilled(ToSet(Queued(kbd_queue)))
      /\ UNCHANGED <<current, need_resched, want, got, exiting, pc>>
  BY DEF KeyboardInterrupt, WakeupQueue, call
<1>2. /\ kbd_queue \in Seq(Procs) /\ IsInjective(kbd_queue)
      /\ ToSet(kbd_queue) \subseteq Procs
  BY DEF KbdInv, KbdTypes, ToSet
<1>3. \A p \in ToSet(kbd_queue) : state[p] # "ZOMBIE"
  BY <1>2 DEF KbdInv, ReaderSound, InCall
<1>4. /\ SchedCore'
      /\ state' = [p \in Everyone |-> IF p \in ToSet(kbd_queue)
                                      THEN "RUNNABLE" ELSE state[p]]
      /\ wait_state' = [p \in Everyone |->
                          IF p \in ToSet(kbd_queue) /\ state[p] # "RUNNABLE"
                          THEN "none" ELSE wait_state[p]]
  <2>1. /\ time_slice' \in [Procs -> 0 .. MAX_TIME_SLICE]
        /\ need_resched' \in [Everyone -> BOOLEAN]
    BY <1>1, SlicesKeepType DEF KbdInv, SchedCore, SchedTypeOK
  <2>2. SchedCore
    BY DEF KbdInv
  <2>3. QED
    BY <1>1, <1>2, <1>3, <2>1, <2>2, WakeupsKeepCore
<1>5. ToSet(kbd_queue') = {} /\ IsInjective(kbd_queue')
  BY <1>1 DEF ToSet, IsInjective
<1>6. KbdTypes'
  BY <1>1, <1>4, <1>5 DEF KbdInv, KbdTypes
<1>7. \A p \in Everyone : state'[p] = "SLEEPING" <=> wait_state'[p] = "WT_KBD"
  <2> SUFFICES ASSUME NEW p \in Everyone
               PROVE  state'[p] = "SLEEPING" <=> wait_state'[p] = "WT_KBD"
    OBVIOUS
  <2>1. state[p] = "SLEEPING" <=> wait_state[p] = "WT_KBD"
    BY DEF KbdInv
  <2>2. QED
    BY <1>4, <2>1
<1>8. ASSUME NEW p \in Procs PROVE ReaderSound(p)'
  <2>1. /\ p \in Everyone /\ ReaderSound(p)
        /\ state[p] = "SLEEPING" <=> wait_state[p] = "WT_KBD"
    BY DEF KbdInv, Everyone
  <2>2. CASE p \in ToSet(kbd_queue)
    <3>1. /\ state'[p] = "RUNNABLE" /\ wait_state'[p] # "WT_KBD"
          /\ kbd_flags'[p] = "WT_KBD"
      BY <1>1, <1>4, <2>1, <2>2
    <3>2. QED
      BY <1>1, <1>5, <2>1, <2>2, <3>1 DEF ReaderSound, InCall
  <2>3. CASE p \notin ToSet(kbd_queue)
    <3>1. /\ state'[p] = state[p] /\ wait_state'[p] = wait_state[p]
          /\ kbd_flags'[p] = kbd_flags[p]
      BY <1>1, <1>4, <2>1, <2>3
    <3>2. QED
      BY <1>1, <1>5, <2>1, <2>3, <3>1, SoundStays
  <2>4. QED
    BY <2>2, <2>3
<1>9. NobodyWaitsForKeys'
  BY <1>1 DEF NobodyWaitsForKeys
<1>10. QED
  BY <1>4, <1>6, <1>7, <1>8, <1>9 DEF KbdInv

\* A call begins.
LEMMA SysReadKeeps ==
  ASSUME RingInv, KbdInv, NEW p \in Procs, NEW len \in 1 .. MaxLen,
         SysRead(p, len)
  PROVE  KbdInv'
<1>1. /\ current = p /\ pc[p] = "user"
      /\ want' = [want EXCEPT ![p] = len]
      /\ pc' = [pc EXCEPT ![p] = "read"]
      /\ UNCHANGED <<schedvars, ring, kbd_queue, kbd_flags, got, exiting>>
  BY DEF SysRead, At, Running, Goto, waits
<1>2. SchedCore'
  BY <1>1 DEF KbdInv, SchedCore, SchedTypeOK, RunListExact, schedvars
<1>3. KbdTypes' /\ NobodyWaitsForKeys'
      /\ \A q \in Everyone : state'[q] = "SLEEPING" <=> wait_state'[q] = "WT_KBD"
  BY <1>1 DEF KbdInv, KbdTypes, NobodyWaitsForKeys, schedvars, ring
<1>4. ASSUME NEW q \in Procs PROVE ReaderSound(q)'
  <2>1. ReaderSound(q)
    BY DEF KbdInv
  <2>2. CASE q = p
    <3>1. pc'[q] = "read" /\ UNCHANGED <<state, wait_state, current>>
      BY <1>1, <2>2 DEF RingInv, schedvars
    <3>2. QED
      BY <1>1, <2>1, <2>2, <3>1, RunningReader DEF ReaderSound, InCall
  <2>3. CASE q # p
    BY <1>1, <2>1, <2>3, SoundStays DEF RingInv, schedvars
  <2>4. QED
    BY <2>2, <2>3
<1>5. QED
  BY <1>2, <1>3, <1>4 DEF KbdInv

\* A reader gives the processor up, asleep or woken in the meantime.
LEMMA ReaderSchedulesKeeps ==
  ASSUME RingInv, KbdInv, NEW p \in Procs, ReaderSchedules(p)
  PROVE  KbdInv'
<1>1. /\ current = p /\ pc[p] = "sleep"
      /\ pc' = [pc EXCEPT ![p] = "asleep"]
      /\ Schedule(state, wait_state)
      /\ UNCHANGED <<ring, waits, want, got, exiting>>
  BY DEF ReaderSchedules, At, Running, Goto, call
<1>2. /\ state \in [Everyone -> States] /\ state[idleproc] = "RUNNABLE"
      /\ \A q \in Everyone : state[q] = "SLEEPING" <=> wait_state[q] = "WT_KBD"
      /\ ReaderSound(p)
  BY DEF KbdInv, SchedCore, SchedTypeOK, States
<1>3. pc'[p] = "asleep" /\ \A q \in Procs : q # p => pc'[q] = pc[q]
  BY <1>1 DEF RingInv
<1>4. /\ state[p] # "ZOMBIE"
      /\ state[p] = "RUNNABLE" => kbd_flags[p] = "WT_KBD" \/ exiting[p]
  BY <1>1, <1>2 DEF ReaderSound, InCall
<1>5. QED
  BY <1>1, <1>2, <1>3, <1>4, SwitchKeeps

\* Only a kill can have ended the sleep of a reader without a key.
LEMMA InterruptedKeeps ==
  ASSUME RingInv, KbdInv, NEW p \in Procs, Interrupted(p)
  PROVE  KbdInv'
<1>1. /\ current = p /\ pc[p] = "asleep" /\ kbd_flags[p] # "WT_KBD"
      /\ kbd_queue' = RemoveFirst(kbd_queue, p)
      /\ pc' = [pc EXCEPT ![p] = "trap"]
      /\ UNCHANGED <<schedvars, ring, kbd_flags, want, got, exiting>>
  BY DEF Interrupted, At, Running, Goto, call
<1>2. SchedCore'
  BY <1>1 DEF KbdInv, SchedCore, SchedTypeOK, RunListExact, schedvars
<1>3. /\ kbd_queue' \in Seq(Procs)
      /\ IsInjective(kbd_queue')
      /\ ToSet(kbd_queue') = ToSet(kbd_queue) \ {p}
      /\ kbd_queue' # <<>> => kbd_queue # <<>>
  BY <1>1, LeaveQueue DEF KbdInv, KbdTypes
<1>4. KbdTypes' /\ NobodyWaitsForKeys'
      /\ \A q \in Everyone : state'[q] = "SLEEPING" <=> wait_state'[q] = "WT_KBD"
  BY <1>1, <1>3 DEF KbdInv, KbdTypes, NobodyWaitsForKeys, schedvars, ring
<1>5. ASSUME NEW q \in Procs PROVE ReaderSound(q)'
  <2>1. ReaderSound(q)
    BY DEF KbdInv
  <2>2. CASE q = p
    <3>1. pc'[q] = "trap" /\ UNCHANGED <<state, wait_state, current>>
      BY <1>1, <2>2 DEF RingInv, schedvars
    <3>2. state[q] = "RUNNABLE" /\ wait_state[q] = "none" /\ exiting[q]
      BY <1>1, <2>2, RunningReader DEF InCall
    <3>3. q \notin ToSet(kbd_queue')
      BY <1>3, <2>2
    <3>4. QED
      BY <1>1, <2>1, <2>2, <3>1, <3>2, <3>3 DEF ReaderSound, InCall
  <2>3. CASE q # p
    <3>1. q \in ToSet(kbd_queue') <=> q \in ToSet(kbd_queue)
      BY <1>3, <2>3
    <3>2. QED
      BY <1>1, <2>1, <2>3, <3>1, SoundStays DEF RingInv, schedvars
  <2>4. QED
    BY <2>2, <2>3
<1>6. QED
  BY <1>2, <1>4, <1>5 DEF KbdInv

\* do_exit at the tail of a trap.
LEMMA ExitKeeps ==
  ASSUME RingInv, KbdInv, NEW p \in Procs, current = p, pc[p] \in {"user", "trap"},
         pc' = [pc EXCEPT ![p] = "exited"],
         Schedule([state EXCEPT ![p] = "ZOMBIE"], wait_state),
         UNCHANGED <<ring, waits, exiting>>,
         \A q \in Procs : q # p => got'[q] = got[q] /\ want'[q] = want[q]
  PROVE  KbdInv'
<1> DEFINE st == [state EXCEPT ![p] = "ZOMBIE"]
<1>1. /\ state \in [Everyone -> States] /\ state[idleproc] = "RUNNABLE"
      /\ \A q \in Everyone : state[q] = "SLEEPING" <=> wait_state[q] = "WT_KBD"
      /\ p \in Everyone /\ p # idleproc
      /\ ReaderSound(p)
  BY SchedAssumption DEF KbdInv, SchedCore, SchedTypeOK, States, Everyone
<1>2. p \notin ToSet(kbd_queue) /\ wait_state[p] = "none"
  BY <1>1, RunningReader DEF ReaderSound, InCall
<1>3. /\ st \in [Everyone -> States] /\ st[idleproc] = "RUNNABLE"
      /\ st[p] = "ZOMBIE"
      /\ \A q \in Everyone : q # p => st[q] = state[q]
  BY <1>1 DEF States
<1>4. \A q \in Everyone : st[q] = "SLEEPING" <=> wait_state[q] = "WT_KBD"
  BY <1>1, <1>2, <1>3
<1>5. pc'[p] = "exited" /\ \A q \in Procs : q # p => pc'[q] = pc[q]
  BY DEF RingInv
<1>6. Schedule(st, wait_state)
  OBVIOUS
<1> HIDE DEF st
<1>7. QED
  BY <1>2, <1>3, <1>4, <1>5, <1>6, SwitchKeeps

\* The end of a system call.
LEMMA TrapReturnKeeps ==
  ASSUME RingInv, KbdInv, NEW p \in Procs, TrapReturn(p)
  PROVE  KbdInv'
<1>1. /\ current = p /\ pc[p] = "trap"
      /\ got' = [got EXCEPT ![p] = <<>>]
      /\ want' = [want EXCEPT ![p] = 0]
      /\ UNCHANGED <<ring, waits, exiting>>
  BY DEF TrapReturn, At, Running
<1>2. /\ \A q \in Procs : q # p => got'[q] = got[q] /\ want'[q] = want[q]
      /\ want'[p] = 0
  BY <1>1 DEF RingInv
<1>3. CASE exiting[p]
  <2>1. /\ pc' = [pc EXCEPT ![p] = "exited"]
        /\ Schedule([state EXCEPT ![p] = "ZOMBIE"], wait_state)
    BY <1>3 DEF TrapReturn, Goto
  <2>2. QED
    BY <1>1, <1>2, <2>1, ExitKeeps
<1>4. CASE ~exiting[p]
  <2>1. /\ pc' = [pc EXCEPT ![p] = "user"]
        /\ IF need_resched[p] THEN Schedule(state, wait_state)
                              ELSE UNCHANGED schedvars
    BY <1>4 DEF TrapReturn, Goto
  <2>2. /\ state \in [Everyone -> States] /\ state[idleproc] = "RUNNABLE"
        /\ \A q \in Everyone : state[q] = "SLEEPING" <=> wait_state[q] = "WT_KBD"
        /\ ReaderSound(p)
    BY DEF KbdInv, SchedCore, SchedTypeOK, States
  <2>3. pc'[p] = "user" /\ \A q \in Procs : q # p => pc'[q] = pc[q]
    BY <2>1 DEF RingInv
  <2>4. /\ state[p] = "RUNNABLE" /\ wait_state[p] = "none"
        /\ p \notin ToSet(kbd_queue)
    BY <1>1, <2>2, RunningReader DEF ReaderSound, InCall
  <2>5. CASE need_resched[p]
    <3>1. Schedule(state, wait_state)
      BY <2>1, <2>5
    <3>2. QED
      BY <1>1, <1>2, <2>2, <2>3, <2>4, <3>1, SwitchKeeps
  <2>6. CASE ~need_resched[p]
    <3>1. UNCHANGED schedvars
      BY <2>1, <2>6
    <3>2. SchedCore'
      BY <3>1 DEF KbdInv, SchedCore, SchedTypeOK, RunListExact, schedvars
    <3>3. KbdTypes' /\ NobodyWaitsForKeys'
          /\ \A q \in Everyone :
                state'[q] = "SLEEPING" <=> wait_state'[q] = "WT_KBD"
      BY <1>1, <3>1
         DEF KbdInv, KbdTypes, NobodyWaitsForKeys, schedvars, ring, waits
    <3>4. ASSUME NEW q \in Procs PROVE ReaderSound(q)'
      <4>1. ReaderSound(q)
        BY DEF KbdInv
      <4>2. CASE q = p
        BY <1>1, <1>2, <2>3, <2>4, <3>1, <4>2
           DEF ReaderSound, InCall, schedvars, waits
      <4>3. CASE q # p
        BY <1>1, <1>2, <2>3, <3>1, <4>1, <4>3, SoundStays DEF schedvars, waits
      <4>4. QED
        BY <4>2, <4>3
    <3>5. QED
      BY <3>2, <3>3, <3>4 DEF KbdInv
  <2>7. QED
    BY <2>5, <2>6
<1>5. QED
  BY <1>3, <1>4

\* The end of a time slice in user mode.
LEMMA PreemptKeeps ==
  ASSUME RingInv, KbdInv, NEW p \in Procs, Preempt(p)
  PROVE  KbdInv'
<1>1. /\ current = p /\ pc[p] = "user"
      /\ UNCHANGED <<ring, waits, want, got, exiting>>
  BY DEF Preempt, At, Running, call
<1>2. CASE exiting[p]
  <2>1. /\ pc' = [pc EXCEPT ![p] = "exited"]
        /\ Schedule([state EXCEPT ![p] = "ZOMBIE"], wait_state)
    BY <1>2 DEF Preempt, Goto
  <2>2. QED
    BY <1>1, <2>1, ExitKeeps
<1>3. CASE ~exiting[p]
  <2>1. Schedule(state, wait_state) /\ pc' = pc
    BY <1>3 DEF Preempt
  <2>2. /\ state \in [Everyone -> States] /\ state[idleproc] = "RUNNABLE"
        /\ \A q \in Everyone : state[q] = "SLEEPING" <=> wait_state[q] = "WT_KBD"
        /\ ReaderSound(p)
    BY DEF KbdInv, SchedCore, SchedTypeOK, States
  <2>3. /\ state[p] = "RUNNABLE" /\ want'[p] = 0 /\ pc'[p] = "user"
        /\ p \notin ToSet(kbd_queue)
    BY <1>1, <2>1, <2>2, RunningReader DEF ReaderSound, InCall
  <2>4. QED
    BY <1>1, <2>1, <2>2, <2>3, SwitchKeeps
<1>4. QED
  BY <1>2, <1>3

\* Idle lets others run.
LEMMA IdleSchedulesKeeps ==
  ASSUME RingInv, KbdInv, IdleSchedules
  PROVE  KbdInv'
<1>1. /\ current = idleproc
      /\ Schedule(state, wait_state)
      /\ UNCHANGED <<ring, waits, want, got, exiting, pc>>
  BY DEF IdleSchedules, Running, call
<1>2. /\ state \in [Everyone -> States] /\ state[idleproc] = "RUNNABLE"
      /\ \A q \in Everyone : state[q] = "SLEEPING" <=> wait_state[q] = "WT_KBD"
      /\ \A p \in Procs : p # current
  BY <1>1, SchedAssumption DEF KbdInv, SchedCore, SchedTypeOK, States
<1>3. QED
  BY <1>1, <1>2, SwitchKeeps

\* The timer interrupt touches slices and requests to reschedule only.
LEMMA TickKeeps ==
  ASSUME RingInv, KbdInv, Tick
  PROVE  KbdInv'
<1>1. /\ ProcTick(time_slice)
      /\ UNCHANGED <<current, state, wait_state, run_list, panicked, ring, waits,
                     want, got, exiting, pc>>
  BY DEF Tick, call
<1>2. SchedCore'
  BY <1>1, ProcTickKeepsType
     DEF KbdInv, SchedCore, SchedTypeOK, RunListExact
<1>3. KbdTypes' /\ NobodyWaitsForKeys'
  BY <1>1 DEF KbdInv, KbdTypes, NobodyWaitsForKeys, ring, waits
<1>4. \A p \in Procs : ReaderSound(p)'
  BY <1>1, SoundStays DEF KbdInv, waits
<1>5. QED
  BY <1>1, <1>2, <1>3, <1>4 DEF KbdInv

\* A kill wakes who sleeps for a key, who is not the killer.
LEMMA KillKeeps ==
  ASSUME RingInv, KbdInv, NEW p \in Procs, NEW q \in Procs, Kill(p, q)
  PROVE  KbdInv'
<1>1. /\ current = p /\ pc[p] = "user"
      /\ exiting' = [exiting EXCEPT ![q] = TRUE]
      /\ IF wait_state[q] = "WT_KBD"
         THEN WakeupProc(q) /\ time_slice' = Refilled(Enqueued(q))
         ELSE UNCHANGED <<state, wait_state, run_list, time_slice, panicked>>
      /\ pc' = [pc EXCEPT ![p] = "trap"]
      /\ UNCHANGED <<current, need_resched, ring, kbd_queue, kbd_flags, want, got>>
  BY DEF Kill, At, Running, Goto, WokenByKill, waits, call
<1>2. /\ p \in Everyone /\ q \in Everyone
      /\ state \in [Everyone -> States]
      /\ wait_state \in [Everyone -> {"none", "WT_KBD"}]
      /\ exiting \in [Procs -> BOOLEAN]
      /\ ReaderSound(p) /\ ReaderSound(q)
      /\ \A r \in Everyone : state[r] = "SLEEPING" <=> wait_state[r] = "WT_KBD"
  BY DEF KbdInv, SchedCore, SchedTypeOK, KbdTypes, States, Everyone
<1>3. state[p] = "RUNNABLE" /\ wait_state[p] = "none"
  BY <1>1, RunningReader
\* The victim may be asleep, and is no longer then.
<1>4. /\ SchedCore'
      /\ state' = [state EXCEPT ![q] = IF @ = "SLEEPING" THEN "RUNNABLE" ELSE @]
      /\ wait_state' = [wait_state EXCEPT ![q] = "none"]
  <2>1. CASE wait_state[q] = "WT_KBD"
    <3>1. state[q] = "SLEEPING"
      BY <1>2, <2>1
    <3>2. /\ time_slice' \in [Procs -> 0 .. MAX_TIME_SLICE]
          /\ need_resched' \in [Everyone -> BOOLEAN]
      BY <1>1, <2>1, SlicesKeepType DEF KbdInv, SchedCore, SchedTypeOK
    <3>3. SchedCore /\ WakeupProc(q) /\ current' = current
      BY <1>1, <2>1 DEF KbdInv
    <3>4. /\ SchedCore'
          /\ state' = [state EXCEPT ![q] = "RUNNABLE"]
          /\ wait_state' = [wait_state EXCEPT ![q] = "none"]
      BY <3>1, <3>2, <3>3, WakeupKeepsCore
    <3>5. QED
      BY <1>2, <3>1, <3>4
  <2>2. CASE wait_state[q] # "WT_KBD"
    <3>1. wait_state[q] = "none" /\ state[q] # "SLEEPING"
      BY <1>2, <2>2
    <3>2. UNCHANGED schedvars
      BY <1>1, <2>2 DEF schedvars
    <3>3. SchedCore'
      BY <3>2 DEF KbdInv, SchedCore, SchedTypeOK, RunListExact, schedvars
    <3>4. QED
      BY <1>2, <3>1, <3>2, <3>3 DEF schedvars
  <2>3. QED
    BY <2>1, <2>2
<1>5. KbdTypes' /\ NobodyWaitsForKeys'
  BY <1>1, <1>2, <1>4 DEF KbdInv, KbdTypes, NobodyWaitsForKeys, ring
<1>6. \A r \in Everyone : state'[r] = "SLEEPING" <=> wait_state'[r] = "WT_KBD"
  BY <1>2, <1>4
<1>7. ASSUME NEW r \in Procs PROVE ReaderSound(r)'
  <2>1. r \in Everyone /\ ReaderSound(r) /\ pc[r] \in
           {"user", "read", "sleep", "asleep", "trap", "exited"}
    BY DEF KbdInv, Everyone, RingInv
  <2>2. CASE r = p
    <3>1. /\ pc'[r] = "trap" /\ state'[r] = "RUNNABLE" /\ wait_state'[r] = "none"
      BY <1>1, <1>2, <1>3, <1>4, <2>2 DEF RingInv
    <3>2. Len(got'[r]) = want'[r]
      <4>1. Len(<<>>) = 0
        OBVIOUS
      <4>2. QED
        BY <1>1, <1>2, <2>2, <4>1 DEF ReaderSound, RingInv
    <3>3. QED
      BY <1>1, <2>1, <2>2, <3>1, <3>2 DEF ReaderSound, InCall
  <2>3. CASE r # p /\ r = q
    <3>1. pc'[r] = pc[r] /\ exiting'[r] = TRUE /\ wait_state'[r] = "none"
          /\ state'[r] = IF state[r] = "SLEEPING" THEN "RUNNABLE" ELSE state[r]
      BY <1>1, <1>2, <1>4, <2>1, <2>3 DEF RingInv
    <3>2. QED
      BY <1>1, <2>1, <2>3, <3>1 DEF ReaderSound, InCall
  <2>4. CASE r # p /\ r # q
    <3>1. /\ pc'[r] = pc[r] /\ exiting'[r] = exiting[r]
          /\ wait_state'[r] = wait_state[r] /\ state'[r] = state[r]
      BY <1>1, <1>2, <1>4, <2>1, <2>4 DEF RingInv
    <3>2. QED
      BY <1>1, <2>1, <3>1, SoundStays
  <2>5. QED
    BY <2>2, <2>3, <2>4
<1>8. QED
  BY <1>4, <1>5, <1>6, <1>7 DEF KbdInv

\* What a reader finds is what it wants, or all there is.
LEMMA AvailableIs ==
  ASSUME RingInv, NEW p \in Procs
  PROVE  Available(p) = want[p] - Len(got[p]) \/ Available(p) = p_wpos - p_rpos
<1> DEFINE T == {want[p] - Len(got[p]), p_wpos - p_rpos}
<1>1. T \in SUBSET Nat /\ T # {}
  BY DEF RingInv
<1>2. Min(T) \in T
  <2> HIDE DEF T
  <2> QED BY <1>1, MinInSet
<1>3. QED
  BY <1>2 DEF Available

\* The loop ends with the call satisfied, or with the reader in the queue and
\* nothing left to read.
LEMMA ReadLoopKeeps ==
  ASSUME RingInv, KbdInv, NEW p \in Procs, ReadLoop(p)
  PROVE  KbdInv'
<1> DEFINE n == Available(p)
<1>1. /\ current = p /\ pc[p] # "sleep"
      /\ pc[p] = "read" \/ kbd_flags[p] = "WT_KBD"
      /\ got' = [got EXCEPT ![p] = @ \o NextChars(n)]
      /\ p_rpos' = p_rpos + n
      /\ UNCHANGED <<current, run_list, time_slice, need_resched, panicked,
                     p_wpos, want, exiting>>
  BY DEF ReadLoop, Running
<1>2. /\ n \in Nat /\ n <= p_wpos - p_rpos
      /\ n = want[p] - Len(got[p]) \/ n = p_wpos - p_rpos
      /\ p_rpos \in Nat /\ p_wpos \in Nat
      /\ got[p] \in Seq(Chars) /\ Len(got[p]) \in Nat /\ want[p] \in Nat
  BY AvailableBounds, AvailableIs DEF RingInv, Unread
<1>3. /\ state[p] = "RUNNABLE" /\ wait_state[p] = "none" /\ p \in Everyone
  BY <1>1, RunningReader
<1>4. /\ state \in [Everyone -> States] /\ state[idleproc] = "RUNNABLE"
      /\ idleproc \in Everyone /\ p # idleproc
      /\ wait_state \in [Everyone -> {"none", "WT_KBD"}]
      /\ \A q \in Everyone : state[q] = "SLEEPING" <=> wait_state[q] = "WT_KBD"
      /\ kbd_queue \in Seq(Procs) /\ IsInjective(kbd_queue)
      /\ kbd_flags \in [Procs -> {"WT_INTERRUPTED", "WT_KBD"}]
      /\ ReaderSound(p)
  BY SchedAssumption
     DEF KbdInv, KbdTypes, SchedCore, SchedTypeOK, States, Everyone
<1>5. p \notin ToSet(kbd_queue)
  BY <1>1, <1>4 DEF ReaderSound, InCall
<1>6. RemoveFirst(kbd_queue, p) = kbd_queue
  BY <1>4, <1>5, RemoveAbsent
<1>7. Len(got'[p]) = Len(got[p]) + n
  <2> DEFINE w == Window(stdin_buffer, p_rpos, n)
  <2>1. w \in Seq(Chars) /\ Len(w) = n
    <3> HIDE DEF n
    <3> QED BY <1>2, WindowChars DEF RingInv
  <2>2. NextChars(n) = w
    BY DEF NextChars, Window
  <2>3. got'[p] = got[p] \o NextChars(n)
    BY <1>1 DEF RingInv
  <2> HIDE DEF w, n
  <2>4. /\ got[p] \in Seq(Chars)
        /\ NextChars(n) \in Seq(Chars) /\ Len(NextChars(n)) = n
    BY <1>2, <2>1, <2>2
  <2>5. Len(got[p] \o NextChars(n)) = Len(got[p]) + Len(NextChars(n))
    BY <2>4, ConcatElements
  <2>6. QED
    BY <2>3, <2>4, <2>5
<1>8. \A q \in Procs : q # p => got'[q] = got[q]
  BY <1>1 DEF RingInv
<1> HIDE DEF n
<1>9. CASE Finished(p)
  <2>1. /\ pc' = [pc EXCEPT ![p] = "trap"]
        /\ kbd_queue' = kbd_queue
        /\ UNCHANGED <<kbd_flags, state, wait_state>>
    BY <1>6, <1>9 DEF ReadLoop, Goto
  <2>2. SchedCore'
    BY <1>1, <2>1 DEF KbdInv, SchedCore, SchedTypeOK, RunListExact
  <2>3. KbdTypes'
    BY <1>1, <2>1 DEF KbdInv, KbdTypes
  <2>4. NobodyWaitsForKeys'
    <3>1. p_rpos = p_wpos => n = 0
      BY <1>2
    <3>2. kbd_queue # <<>> => p_rpos = p_wpos
      BY DEF KbdInv, NobodyWaitsForKeys
    <3>3. kbd_queue # <<>> => p_rpos + n = p_wpos
      BY <1>2, <3>1, <3>2
    <3>4. QED
      BY <1>1, <2>1, <3>3 DEF NobodyWaitsForKeys
  <2>5. ASSUME NEW q \in Procs PROVE ReaderSound(q)'
    <3>1. ReaderSound(q)
      BY DEF KbdInv
    <3>2. CASE q = p
      <4>1. Len(got'[p]) = want'[p]
        BY <1>1, <1>7, <1>9 DEF Finished, n
      <4>2. pc'[p] = "trap"
        BY <2>1 DEF RingInv
      <4>3. QED
        BY <1>1, <1>3, <1>5, <2>1, <3>2, <4>1, <4>2 DEF ReaderSound, InCall
    <3>3. CASE q # p
      BY <1>1, <1>8, <2>1, <3>1, <3>3, SoundStays DEF RingInv
    <3>4. QED
      BY <3>2, <3>3
  <2>6. QED
    BY <1>4, <2>1, <2>2, <2>3, <2>4, <2>5 DEF KbdInv
<1>10. CASE ~Finished(p)
  <2>1. /\ pc' = [pc EXCEPT ![p] = "sleep"]
        /\ kbd_queue' = Append(kbd_queue, p)
        /\ kbd_flags' = [kbd_flags EXCEPT ![p] = "WT_INTERRUPTED"]
        /\ state' = [state EXCEPT ![p] = "SLEEPING"]
        /\ wait_state' = [wait_state EXCEPT ![p] = "WT_KBD"]
    BY <1>6, <1>10 DEF ReadLoop, Goto, Join
  <2>2. /\ kbd_queue' \in Seq(Procs)
        /\ IsInjective(kbd_queue')
        /\ ToSet(kbd_queue') = ToSet(kbd_queue) \cup {p}
    BY <1>4, <1>5, <2>1, AppendSet
  <2>3. /\ state' \in [Everyone -> States] /\ state'[idleproc] = "RUNNABLE"
        /\ state'[p] = "SLEEPING" /\ wait_state'[p] = "WT_KBD"
        /\ wait_state' \in [Everyone -> {"none", "WT_KBD"}]
        /\ \A q \in Everyone : q # p =>
              state'[q] = state[q] /\ wait_state'[q] = wait_state[q]
    BY <1>3, <1>4, <2>1 DEF States
  <2>4. RunListExact'
    <3>1. {q \in Procs \ {current'} : state'[q] = "RUNNABLE"}
             = {q \in Procs \ {current} : state[q] = "RUNNABLE"}
      BY <1>1, <2>3 DEF Everyone
    <3>2. QED
      BY <1>1, <3>1 DEF KbdInv, SchedCore, RunListExact
  <2>5. SchedCore'
    BY <1>1, <2>3, <2>4 DEF KbdInv, SchedCore, SchedTypeOK, States
  <2>6. KbdTypes'
    BY <1>1, <1>4, <2>1, <2>2, <2>3 DEF KbdInv, KbdTypes
  <2>7. NobodyWaitsForKeys'
    <3>1. n # want[p] - Len(got[p])
      BY <1>2, <1>10 DEF Finished, n
    <3>2. p_rpos + n = p_wpos
      BY <1>2, <3>1
    <3>3. QED
      BY <1>1, <3>2 DEF NobodyWaitsForKeys
  <2>8. ASSUME NEW q \in Procs PROVE ReaderSound(q)'
    <3>1. ReaderSound(q) /\ q \in Everyone
      BY DEF KbdInv, Everyone
    <3>2. CASE q = p
      <4>1. pc'[p] = "sleep" /\ kbd_flags'[p] = "WT_INTERRUPTED"
        BY <1>4, <2>1 DEF RingInv
      <4>2. QED
        BY <1>1, <2>2, <2>3, <3>2, <4>1 DEF ReaderSound, InCall
    <3>3. CASE q # p
      <4>1. q \in ToSet(kbd_queue') <=> q \in ToSet(kbd_queue)
        BY <2>2, <3>3
      <4>2. QED
        BY <1>1, <1>8, <2>1, <2>3, <3>1, <3>3, <4>1, SoundStays DEF RingInv
    <3>4. QED
      BY <3>2, <3>3
  <2>9. \A q \in Everyone : state'[q] = "SLEEPING" <=> wait_state'[q] = "WT_KBD"
    BY <1>4, <2>3
  <2>10. QED
    BY <2>5, <2>6, <2>7, <2>8, <2>9 DEF KbdInv
<1>11. QED
  BY <1>9, <1>10

\* Every step keeps the invariant.
LEMMA KbdNext ==
  ASSUME RingInv, KbdInv, [Next]_vars
  PROVE  KbdInv'
<1>1. ASSUME NEW c \in Chars, KeyboardInterrupt(c) PROVE KbdInv'
  BY <1>1, KeyKeeps
<1>2. ASSUME NEW p \in Procs, Reader(p) PROVE KbdInv'
  BY <1>2, ReadLoopKeeps, ReaderSchedulesKeeps, InterruptedKeeps,
     TrapReturnKeeps DEF Reader
<1>3. ASSUME NEW p \in Procs, NEW len \in 1 .. MaxLen, SysRead(p, len)
      PROVE  KbdInv'
  BY <1>3, SysReadKeeps
<1>4. ASSUME NEW p \in Procs, Preempt(p) PROVE KbdInv'
  BY <1>4, PreemptKeeps
<1>5. ASSUME NEW p \in Procs, NEW q \in Procs, Kill(p, q) PROVE KbdInv'
  BY <1>5, KillKeeps
<1>6. CASE Tick
  BY <1>6, TickKeeps
<1>7. CASE IdleSchedules
  BY <1>7, IdleSchedulesKeeps
<1>8. CASE UNCHANGED vars
  <2>1. UNCHANGED <<schedvars, ring, kbd_queue, kbd_flags, want, got, exiting, pc>>
    BY <1>8 DEF vars, waits, call
  <2>2. SchedCore'
    BY <2>1 DEF KbdInv, SchedCore, SchedTypeOK, RunListExact, schedvars
  <2>3. KbdTypes' /\ NobodyWaitsForKeys'
        /\ \A q \in Everyone : state'[q] = "SLEEPING" <=> wait_state'[q] = "WT_KBD"
    BY <2>1 DEF KbdInv, KbdTypes, NobodyWaitsForKeys, schedvars, ring
  <2>4. \A p \in Procs : ReaderSound(p)'
    BY <2>1, SoundStays DEF KbdInv, schedvars
  <2>5. QED
    BY <2>2, <2>3, <2>4 DEF KbdInv
<1>9. QED
  BY <1>1, <1>2, <1>3, <1>4, <1>5, <1>6, <1>7, <1>8 DEF Next

\* Whatever the number of readers and the size of the ring, and whenever keys
\* and kills come: nobody sleeps in the wait queue while there is something to
\* read, whoever sleeps for a key is in the queue and the wait_t's in it
\* belong to calls in progress, a read comes back short only to a process that
\* was killed, the run list stays exact and no assertion fails.
THEOREM ReadersStayQueued == Spec => []ReadersQueued
<1>1. Init => RingInv /\ KbdInv
  BY InitRing, KbdStarts
<1>2. RingInv /\ KbdInv /\ [Next]_vars => RingInv' /\ KbdInv'
  BY NextRing, KbdNext
<1>3. QED
  BY <1>1, <1>2, KbdInvIsSound, PTL DEF Spec
=============================================================================
