--------------------------- MODULE ResourceProofs ---------------------------
(***************************************************************************)
(* Proofs about two things the kernel hands out and takes back: the memory *)
(* of the heap and the permits of a semaphore.  Neither is given twice,    *)
(* and neither is lost.                                                    *)
(*                                                                         *)
(* The heap first (Slob).  Its free blocks are a ring in the order of      *)
(* addresses, the headers of all blocks tile the heap, and no two free     *)
(* blocks touch; so the walk of slob_alloc and slob_free comes by every    *)
(* free block, and what it returns is nobody else's.                       *)
(*                                                                         *)
(* Then SemaphoreUse, for any number of processes and permits: the run     *)
(* list, the wait queue and the states of processes agree, and every       *)
(* behaviour is one of FairSemaphore.  That permits add up needs more than *)
(* itself.  A process that was handed the semaphore counts as a holder     *)
(* although nothing says so but its being in down() and out of the queue;  *)
(* it must have been __up that took it out (its wakeup_flags), which in    *)
(* turn rests on nobody else waking those that wait.                       *)
(***************************************************************************)
EXTENDS MCPaging, SemaphoreUse, SemaphoreLemmas

-----------------------------------------------------------------------------
(* Slob (kmalloc.c of lab5).                                               *)

\* What the assumptions say of the constants of Slob.
LEMMA SlobConstants ==
  /\ SLOB_UNIT \in Nat \ {0} /\ HeapPages \in Nat \ {0} /\ PageUnits \in Nat \ {0, 1}
  /\ Sizes \subseteq Nat \ {0} /\ BigblockSize \in Nat
  /\ SLOB_UNIT < BigblockSize /\ BigblockSize + 2 * SLOB_UNIT <= SLOB_UNIT * PageUnits
BY PagingAndHeapAssumption DEF Slob!SlobAssumption, Slob!PAGE_SIZE

Addrs == Slob!Addresses

Top == (HeapPages + 1) * PageUnits

\* The addresses, in units.
LEMMA AddrsAre == Top \in Nat /\ Top > PageUnits /\ Addrs = 0 .. Top - 1 /\ 0 \in Addrs
<1>1. PICK k \in Nat : k = HeapPages * PageUnits
  BY SlobConstants
<1>2. k > 0 /\ Top = k + PageUnits
  BY <1>1, SlobConstants DEF Top
<1>3. QED
  BY <1>2, SlobConstants DEF Top, Addrs, Slob!Addresses

-----------------------------------------------------------------------------
(* Of kmalloc.c: the list of free blocks, a ring in the order of addresses, *)
(* and the headers of all blocks, free or not, which tile the heap.         *)

Lists == [units : [Addrs -> Nat], next : [Addrs -> Addrs], slobfree : Addrs]

\* The headers cut the units A into blocks, without a header inside of one.
Tiled(u, A) ==
    /\ u \in [Addrs -> Nat] /\ A \subseteq Addrs
    /\ \A a \in Addrs : u[a] > 0 => a + u[a] <= Top
    /\ \A a, x \in Addrs : u[a] > 0 /\ a <= x /\ x < a + u[a]
                              => x \in A /\ (x = a \/ u[x] = 0)
    /\ \A x \in A : \E a \in Addrs : a <= x /\ x < a + u[a]

\* The blocks L are linked in a ring, each to the next one above it, and the last
\* one to the arena.
Ring(nx, L) ==
    /\ nx \in [Addrs -> Addrs] /\ 0 \in L /\ L \subseteq Addrs
    /\ \A b \in L : nx[b] \in L
    /\ \A b, c \in L : b < c => b < nx[b] /\ nx[b] <= c
    /\ \A b \in L : (\A c \in L : c <= b) => nx[b] = 0

\* No two of them touch.
Spaced(u, L) == \A b, c \in L : b < c => b + u[b] < c

HeapInv(h, L, A) ==
    /\ h \in Lists /\ h.slobfree \in L
    /\ Tiled(h.units, A) /\ Ring(h.next, L) /\ Spaced(h.units, L)
    /\ \A b \in L : h.units[b] > 0
    /\ h.units[0] = 1 /\ 1 \notin A

Heads(u) == {a \in Addrs : u[a] > 0}

\* The blocks that are held.
HeldBy(h, L) == Heads(h.units) \ L

\* Two blocks of a tiled heap do not overlap.
LEMMA TilesApart ==
  ASSUME NEW u, NEW A, Tiled(u, A), NEW a \in Heads(u), NEW b \in Heads(u), a < b
  PROVE  a + u[a] <= b
<1>1. a \in Addrs /\ b \in Addrs /\ u[a] \in Nat /\ u[b] \in Nat /\ u[a] > 0 /\ u[b] > 0
  BY DEF Heads, Tiled
<1>2. b < a + u[a] => b = a \/ u[b] = 0
  BY <1>1, AddrsAre DEF Tiled
<1>3. QED
  BY <1>1, <1>2, AddrsAre

\* A walk that starts at slobfree comes to every block, and back.
Tour(w, h, L) ==
    /\ w \in Seq(L) /\ Len(w) >= 2
    /\ w[1] = h.slobfree /\ w[Len(w)] = h.slobfree
    /\ \A i \in 1 .. Len(w) - 1 : w[i + 1] = h.next[w[i]]
    /\ \A c \in L : \E i \in 2 .. Len(w) : w[i] = c

\* The walk, turn by turn.
WalkSteps(g, X, h) ==
    /\ g \in [0 .. Top -> X]
    /\ g[0] = <<h.slobfree>> /\ g[Top] = Slob!Walk(h)
    /\ \A i \in 1 .. Top : g[i] = Slob!Further(h, g[i - 1])

\* So many steps a walk has at most.
LEMMA AddrsCount == Slob!Cardinality(Slob!Addresses) = Top
<1>1. Addrs = 0 .. Top - 1 /\ Top \in Nat /\ Top > 0
  BY AddrsAre
<1>2. Cardinality(0 .. Top - 1) = Top
  BY <1>1, FS_Interval
<1>3. \A S : Slob!Cardinality(S) = Cardinality(S)
  BY Zenon DEF Slob!Cardinality, Cardinality
<1>4. QED
  BY <1>1, <1>2, <1>3 DEF Addrs

\* The fold of Walk is a sequence of walks, each a step further than the last.
LEMMA WalkRun ==
  ASSUME NEW h, NEW X, <<h.slobfree>> \in X, \A w \in X : Slob!Further(h, w) \in X
  PROVE  \E g : WalkSteps(g, X, h)
<1> DEFINE N == Top
           base == <<h.slobfree>>
           L == [i \in 1 .. N |-> i]
           F == [i \in 1 .. N |-> [w \in X |-> Slob!Further(h, w)]]
           iter == CHOOSE it : it = [s \in SUBSET (1 .. N) |->
                      IF s = {} THEN base ELSE Slob!Further(h, it[s \ {Max(s)}])]
<1>1. N \in Nat
  BY AddrsAre
<1>2. Slob!Walk(h) = iter[1 .. N]
  <2> HIDE DEF N
  <2>1. QED
    BY AddrsCount DEF N, Slob!Walk, Slob!FoldLeft, Slob!MapThenFoldSet, Slob!Max, Max
<1> HIDE DEF L
<1>3. F \in [1 .. N -> [X -> X]]
  OBVIOUS
<1>4. \A s \in SUBSET (1 .. N) : s # {} => Max(s) \in 1 .. N
  BY <1>1, MaxInSet
<1> HIDE DEF N
<1>5. iter = [s \in SUBSET (1 .. N) |->
                 IF s = {} THEN base ELSE Slob!Further(h, iter[s \ {Max(s)}])]
  <2>1. PICK it \in [SUBSET (1 .. N) -> X] : IsFold(it, N, base, F)
    <3> HIDE DEF F
    <3>1. QED
      BY <1>1, <1>3, FoldExists
  <2>2. ASSUME NEW s \in SUBSET (1 .. N), s # {}
        PROVE  F[Max(s)][it[s \ {Max(s)}]] = Slob!Further(h, it[s \ {Max(s)}])
    <3>1. Max(s) \in 1 .. N
      BY <1>4, <2>2
    <3>2. it[s \ {Max(s)}] \in X
      OBVIOUS
    <3>3. QED
      BY <3>1, <3>2
  <2>3. it = [s \in SUBSET (1 .. N) |->
                 IF s = {} THEN base ELSE Slob!Further(h, it[s \ {Max(s)}])]
    <3> HIDE DEF F
    <3>1. QED
      BY <2>1, <2>2 DEF IsFold
  <2>4. QED
    BY <2>3
<1>6. FoldsWithin(iter, N, X, base, F)
  <2>1. iter[{}] = base
    <3> HIDE DEF iter
    <3>1. QED
      BY <1>5
  <2>2. ASSUME NEW s \in SUBSET (1 .. N), s # {}, iter[s \ {Max(s)}] \in X
        PROVE  iter[s] = F[Max(s)][iter[s \ {Max(s)}]]
    <3>1. Max(s) \in 1 .. N
      BY <1>4, <2>2
    <3> HIDE DEF iter
    <3>2. iter[s] = Slob!Further(h, iter[s \ {Max(s)}])
      BY <1>5, <2>2
    <3>3. QED
      BY <2>2, <3>1, <3>2
  <2> HIDE DEF iter, F
  <2>3. QED
    BY <2>1, <2>2 DEF FoldsWithin
<1>7. PICK g \in [0 .. N -> X] : IsRun(g, iter, N, base, F)
  <2> HIDE DEF iter, F
  <2>1. QED
    BY <1>1, <1>3, <1>6, FoldPrefixes
<1>8. ASSUME NEW i \in 1 .. N
      PROVE  g[i] = Slob!Further(h, g[i - 1])
  <2>1. g[i - 1] \in X
    BY <1>1
  <2>2. g[i] = F[i][g[i - 1]]
    <3> HIDE DEF F, iter
    <3>1. QED
      BY <1>7 DEF IsRun
  <2>3. QED
    BY <2>1, <2>2
<1>9. g[0] = base /\ g[N] = Slob!Walk(h)
  <2> HIDE DEF F, iter
  <2>1. QED
    BY <1>2, <1>7 DEF IsRun
<1>10. QED
  <2> HIDE DEF F, iter
  <2>1. QED
    BY <1>8, <1>9 DEF N, WalkSteps

\* How far x is on the way round from s; s itself is at the end.
Place(s, x) == IF x > s THEN x - s ELSE (x + Top) - s

\* Where slobfree is on the way that it begins.
LEMMA PlaceIs ==
  ASSUME NEW s \in Addrs, NEW x \in Addrs
  PROVE  /\ Place(s, x) \in 1 .. Top
         /\ Place(s, x) = Top => x = s
         /\ Place(s, s) = Top
BY AddrsAre DEF Place

\* Each step leads to the block that comes next on the way.
LEMMA PlaceNext ==
  ASSUME NEW nx, NEW L, Ring(nx, L), NEW s \in L, NEW x \in L, NEW p,
         p = IF x = s THEN 0 ELSE Place(s, x)
  PROVE  /\ nx[x] \in L /\ p < Place(s, nx[x])
         /\ \A c \in L : Place(s, c) <= Place(s, nx[x]) => Place(s, c) <= p \/ c = nx[x]
<1>1. /\ L \subseteq Addrs /\ nx[x] \in L /\ 0 \in L
      /\ \A c \in L : x < c => x < nx[x] /\ nx[x] <= c
      /\ (\A c \in L : c <= x) => nx[x] = 0
  BY DEF Ring
<1>2. Top \in Nat /\ Addrs = 0 .. Top - 1
  BY AddrsAre
<1>3. PICK y \in L : y = nx[x]
  BY <1>1
<1>4. CASE x < y
  <2>1. p < Place(s, y)
    <3>1. CASE x >= s
      BY <1>1, <1>2, <1>4, <3>1 DEF Place
    <3>2. CASE x < s
      BY <1>1, <1>2, <1>3, <1>4, <3>2 DEF Place
    <3>3. QED
      BY <1>1, <1>2, <3>1, <3>2
  <2>2. ASSUME NEW c \in L, Place(s, c) <= Place(s, y)
        PROVE  Place(s, c) <= p \/ c = y
    <3>1. x < c => y <= c
      BY <1>1, <1>3
    <3>2. CASE x >= s
      BY <1>1, <1>2, <1>4, <2>2, <3>1, <3>2 DEF Place
    <3>3. CASE x < s
      <4>1. y <= s
        BY <1>1, <1>3, <3>3
      <4>2. QED
        BY <1>1, <1>2, <1>4, <2>2, <3>1, <3>3, <4>1 DEF Place
    <3>4. QED
      BY <1>1, <1>2, <3>2, <3>3
  <2>3. QED
    BY <1>3, <2>1, <2>2
<1>5. CASE ~(x < y)
  <2>1. \A c \in L : c <= x
    BY <1>1, <1>2, <1>3, <1>5
  <2>2. y = 0 /\ s <= x
    BY <1>1, <1>3, <2>1
  <2>3. p < Place(s, y)
    BY <1>1, <1>2, <2>2 DEF Place
  <2>4. ASSUME NEW c \in L, Place(s, c) <= Place(s, y)
        PROVE  Place(s, c) <= p \/ c = y
    <3>1. c <= x
      BY <2>1
    <3>2. QED
      BY <1>1, <1>2, <2>2, <2>4, <3>1 DEF Place
  <2>5. QED
    BY <1>3, <2>3, <2>4
<1>6. QED
  BY <1>4, <1>5

\* The walk up to a point has seen all that lies before.
Begun(w, h, L) ==
    /\ w \in Seq(L) /\ Len(w) >= 1 /\ w[1] = h.slobfree
    /\ \A i \in 1 .. Len(w) - 1 : w[i + 1] = h.next[w[i]]
    /\ \A c \in L : Len(w) > 1 /\ Place(h.slobfree, c) <= Place(h.slobfree, w[Len(w)])
                       => \E i \in 2 .. Len(w) : w[i] = c

\* It is back, or it has come further.
IsBack(w, s) == Len(w) > 1 /\ w[Len(w)] = s

Nearer(v, w, s) ==
    /\ Len(v) = Len(w) + 1
    /\ Len(w) > 1 => Place(s, w[Len(w)]) < Place(s, v[Len(w) + 1])

\* A walk that is not back at slobfree has come nearer to it.
LEMMA FurtherBegun ==
  ASSUME NEW h, NEW L, h.slobfree \in L, Ring(h.next, L), NEW w, Begun(w, h, L)
  PROVE  /\ Begun(Slob!Further(h, w), h, L)
         /\ IsBack(w, h.slobfree) => Slob!Further(h, w) = w
         /\ ~IsBack(w, h.slobfree) => Nearer(Slob!Further(h, w), w, h.slobfree)
<1>1. CASE IsBack(w, h.slobfree)
  <2>1. Slob!Further(h, w) = w
    BY <1>1 DEF IsBack, Slob!Further, Slob!Last
  <2>2. QED
    BY <1>1, <2>1
<1>2. CASE ~IsBack(w, h.slobfree)
  <2>1. PICK n \in Nat : n = Len(w)
    BY DEF Begun
  <2>2. PICK x \in L : x = w[n]
    BY <2>1 DEF Begun
  <2>3. PICK y : y = h.next[x]
    OBVIOUS
  <2>4. PICK s \in L : s = h.slobfree
    OBVIOUS
  <2>5. PICK p : p = IF x = s THEN 0 ELSE Place(s, x)
    OBVIOUS
  <2>6. /\ y \in L /\ p < Place(s, y)
        /\ \A c \in L : Place(s, c) <= Place(s, y) => Place(s, c) <= p \/ c = y
    BY <2>3, <2>5, PlaceNext
  <2>7. PICK v : v = Append(w, y)
    OBVIOUS
  <2>8. Slob!Further(h, w) = v
    BY <1>2, <2>1, <2>2, <2>3, <2>7 DEF IsBack, Slob!Further, Slob!Last
  <2>9. /\ v \in Seq(L) /\ Len(v) = n + 1
        /\ \A j \in 1 .. n + 1 : v[j] = IF j <= n THEN w[j] ELSE y
    BY <2>1, <2>6, <2>7, AppendElements DEF Begun
  <2>10. v[n] = x /\ v[n + 1] = y /\ v[1] = s /\ n >= 1
    BY <2>1, <2>2, <2>4, <2>9 DEF Begun
  <2>11. ASSUME NEW i \in 1 .. (n + 1) - 1
         PROVE  v[i + 1] = h.next[v[i]]
    <3>1. CASE i = n
      BY <2>3, <2>10, <3>1
    <3>2. CASE i < n
      <4>1. v[i] = w[i] /\ v[i + 1] = w[i + 1] /\ w[i + 1] = h.next[w[i]]
        BY <2>1, <2>9, <3>2 DEF Begun
      <4>2. QED
        BY <4>1
    <3>3. QED
      BY <3>1, <3>2
  <2>12. ASSUME NEW c \in L, Place(s, c) <= Place(s, v[n + 1])
         PROVE  \E i \in 2 .. n + 1 : v[i] = c
    <3>1. CASE c = y
      BY <2>10, <3>1
    <3>2. CASE Place(s, c) <= p
      <4>1. s \in Addrs /\ c \in Addrs
        BY DEF Ring
      <4>2. Place(s, c) \in 1 .. Top /\ p # 0
        BY <3>2, <4>1, PlaceIs, AddrsAre
      <4>3. x # s /\ p = Place(s, x)
        BY <2>5, <4>2
      <4>4. n > 1
        BY <2>1, <2>2, <2>4, <2>10, <4>3 DEF Begun
      <4>5. PICK i \in 2 .. n : w[i] = c
        BY <2>1, <2>2, <2>4, <3>2, <4>3, <4>4 DEF Begun
      <4>6. v[i] = c
        BY <2>9, <4>5
      <4>7. QED
        BY <4>5, <4>6
    <3>3. QED
      BY <2>6, <2>10, <2>12, <3>1, <3>2
  <2>13. Begun(v, h, L)
    BY <2>4, <2>9, <2>10, <2>11, <2>12 DEF Begun
  <2>14. n > 1 => Place(s, x) < Place(s, y)
    BY <1>2, <2>1, <2>2, <2>4, <2>5, <2>6 DEF IsBack
  <2>15. Nearer(v, w, s)
    BY <2>1, <2>2, <2>9, <2>10, <2>14 DEF Nearer
  <2>16. QED
    BY <1>2, <2>4, <2>8, <2>13, <2>15
<1>3. QED
  BY <1>1, <1>2

\* The walk comes to every block of a ring and ends where it began.
LEMMA TourIs ==
  ASSUME NEW h, NEW L, h.slobfree \in L, Ring(h.next, L)
  PROVE  Tour(Slob!Walk(h), h, L)
<1> DEFINE X == {w \in Seq(L) : Begun(w, h, L)}
<1>1. PICK s \in L : s = h.slobfree
  OBVIOUS
<1>2. <<h.slobfree>> \in X
  <2>1. /\ <<s>> \in Seq(L) /\ Len(<<s>>) = 1 /\ <<s>>[1] = s
    OBVIOUS
  <2>2. Begun(<<s>>, h, L)
    BY <1>1, <2>1 DEF Begun
  <2>3. QED
    BY <1>1, <2>1, <2>2
<1>3. \A w \in X : Slob!Further(h, w) \in X
  <2>1. ASSUME NEW w \in X
        PROVE  Slob!Further(h, w) \in X
    <3>1. PICK v : v = Slob!Further(h, w)
      OBVIOUS
    <3>2. Begun(w, h, L)
      OBVIOUS
    <3>3. Begun(v, h, L)
      BY <3>1, <3>2, FurtherBegun
    <3>4. v \in Seq(L)
      BY <3>3 DEF Begun
    <3>5. QED
      BY <3>1, <3>3, <3>4
  <2>2. QED
    BY <2>1
<1>4. PICK g : WalkSteps(g, X, h)
  <2> HIDE DEF X
  <2>1. QED
    BY <1>2, <1>3, WalkRun
<1>5. Top \in Nat /\ Top > 0 /\ L \subseteq Addrs
  BY AddrsAre, SlobConstants DEF Ring
<1> DEFINE Ahead(w, i) == Len(w) = i + 1 /\ (i > 0 => i <= Place(s, w[Len(w)]))
           S == {i \in 0 .. Top : IsBack(g[i], s) \/ Ahead(g[i], i)}
<1>6. \A i \in 0 .. Top : g[i] \in Seq(L) /\ Begun(g[i], h, L)
  BY <1>4 DEF WalkSteps
<1>7. 0 \in S
  <2>1. g[0] = <<s>>
    BY <1>1, <1>4 DEF WalkSteps
  <2>2. Ahead(g[0], 0)
    BY <2>1
  <2>3. QED
    BY <1>5, <2>2
<1>8. ASSUME NEW i \in 0 .. Top, i < Top, i \in S
      PROVE  i + 1 \in S
  <2>1. PICK w : w = g[i]
    OBVIOUS
  <2>2. PICK v : v = g[i + 1]
    OBVIOUS
  <2>3. v = Slob!Further(h, w)
    BY <1>4, <1>5, <1>8, <2>1, <2>2 DEF WalkSteps
  <2>4. Begun(w, h, L) /\ w \in Seq(L) /\ v \in Seq(L) /\ Begun(v, h, L)
    BY <1>5, <1>6, <1>8, <2>1, <2>2
  <2>5. IsBack(w, s) => v = w
    BY <1>1, <2>3, <2>4, FurtherBegun
  <2>6. ~IsBack(w, s) => Nearer(v, w, s)
    BY <1>1, <2>3, <2>4, FurtherBegun
  <2>7. CASE IsBack(w, s)
    BY <1>5, <1>8, <2>2, <2>5, <2>7
  <2>8. CASE ~IsBack(w, s)
    <3>1. Ahead(w, i)
      BY <1>8, <2>1, <2>8
    <3>2. Len(w) = i + 1 /\ Len(v) = i + 2
      BY <2>8, <2>6, <3>1 DEF Nearer
    <3>3. w[Len(w)] \in Addrs /\ v[Len(v)] \in Addrs /\ s \in Addrs
      BY <1>5, <2>4, <3>2
    <3>4. Place(s, w[Len(w)]) \in Nat /\ Place(s, v[Len(v)]) \in Nat /\ 1 <= Place(s, v[Len(v)])
      BY <1>5, <3>3, PlaceIs
    <3>5. i + 1 <= Place(s, v[Len(v)])
      BY <2>8, <2>6, <3>1, <3>2, <3>4 DEF Nearer
    <3>6. Ahead(v, i + 1)
      BY <3>2, <3>5
    <3>7. QED
      BY <1>5, <1>8, <2>2, <3>6
  <2>9. QED
    BY <2>7, <2>8
<1>9. Top \in S
  <2> HIDE DEF S
  <2>1. 0 .. Top \subseteq S
    BY <1>5, <1>7, <1>8, IntervalInduction
  <2>2. QED
    BY <1>5, <2>1
<1>10. PICK w : w = g[Top]
  OBVIOUS
<1>11. w = Slob!Walk(h) /\ Begun(w, h, L) /\ w \in Seq(L)
  BY <1>4, <1>5, <1>6, <1>10 DEF WalkSteps
<1>12. IsBack(w, s)
  <2>1. CASE Ahead(w, Top)
    <3>1. Len(w) = Top + 1 /\ Top <= Place(s, w[Len(w)])
      BY <1>5, <2>1
    <3>2. w[Len(w)] \in Addrs /\ s \in Addrs
      BY <1>5, <1>11, <3>1
    <3>3. w[Len(w)] = s
      BY <1>5, <3>1, <3>2, PlaceIs
    <3>4. QED
      BY <1>5, <3>1, <3>3 DEF IsBack
  <2>2. QED
    BY <1>9, <1>10, <2>1
<1>13. ASSUME NEW c \in L
       PROVE  \E i \in 2 .. Len(w) : w[i] = c
  <2>1. Place(s, c) <= Place(s, s)
    BY <1>5, PlaceIs
  <2>2. QED
    BY <1>1, <1>11, <1>12, <2>1 DEF Begun, IsBack
<1>14. Tour(w, h, L)
  <2>1. Len(w) >= 2 /\ w[Len(w)] = s
    BY <1>11, <1>12 DEF IsBack
  <2>2. w[1] = s /\ \A i \in 1 .. Len(w) - 1 : w[i + 1] = h.next[w[i]]
    BY <1>1, <1>11 DEF Begun
  <2>3. QED
    BY <1>1, <1>11, <1>13, <2>1, <2>2 DEF Tour
<1>15. QED
  BY <1>11, <1>14

-----------------------------------------------------------------------------
(* What becomes of the ring.                                               *)

Inserted(nx, c, b) == [nx EXCEPT ![b] = nx[c], ![c] = b]

Removed(nx, x, y) == [nx EXCEPT ![x] = nx[y], ![y] = 0]

\* c is the block below b.
Below(nx, L, c, b) ==
    /\ c \in L /\ c < b /\ \A x \in L : x < b => x <= c
    /\ nx[c] = 0 \/ b < nx[c]

\* The next block is the next higher one, or the arena behind the last one.
LEMMA RingGoesUp ==
  ASSUME NEW nx, NEW L, Ring(nx, L), NEW x \in L
  PROVE  /\ x \in Nat /\ nx[x] \in Nat /\ nx[x] \in L
         /\ \/ x < nx[x] /\ \A d \in L : x < d => nx[x] <= d
            \/ nx[x] = 0 /\ \A d \in L : d <= x
<1>1. x \in Addrs /\ nx[x] \in L /\ nx[x] \in Addrs
  BY DEF Ring
<1>2. x \in Nat /\ nx[x] \in Nat
  BY <1>1, AddrsAre
<1>3. CASE \A d \in L : d <= x
  BY <1>1, <1>2, <1>3 DEF Ring
<1>4. CASE ~\A d \in L : d <= x
  <2>1. PICK d \in L : ~(d <= x)
    BY <1>4
  <2>2. d \in Nat
    BY AddrsAre DEF Ring
  <2>3. x < d
    BY <1>2, <2>1, <2>2
  <2>4. x < nx[x] /\ \A e \in L : x < e => nx[x] <= e
    BY <2>3 DEF Ring
  <2>5. QED
    BY <1>1, <1>2, <2>4
<1>5. QED
  BY <1>3, <1>4

\* A block put behind the one below it leaves a ring.
LEMMA RingInsert ==
  ASSUME NEW nx, NEW L, Ring(nx, L), NEW b \in Addrs, b \notin L, NEW c, Below(nx, L, c, b),
         NEW M, M = L \cup {b}
  PROVE  Ring(Inserted(nx, c, b), M)
<1>1. PICK my : my = Inserted(nx, c, b)
  OBVIOUS
<1>2. /\ nx \in [Addrs -> Addrs] /\ 0 \in L /\ L \subseteq Addrs
      /\ \A x \in L : nx[x] \in L
      /\ \A x, y \in L : x < y => x < nx[x] /\ nx[x] <= y
      /\ \A x \in L : (\A y \in L : y <= x) => nx[x] = 0
  BY DEF Ring
<1>3. c \in L /\ c < b /\ (nx[c] = 0 \/ b < nx[c]) /\ \A x \in L : x < b => x <= c
  BY DEF Below
<1>4. /\ my \in [Addrs -> Addrs] /\ my[b] = nx[c] /\ my[c] = b
      /\ \A x \in L : x # c => my[x] = nx[x]
  BY <1>1, <1>2, <1>3 DEF Inserted
<1>5. Top \in Nat /\ Addrs = 0 .. Top - 1
  BY AddrsAre
<1>6. ASSUME NEW x \in M
      PROVE  my[x] \in M
  BY <1>2, <1>3, <1>4
<1>7. ASSUME NEW x \in M, NEW y \in M, x < y
      PROVE  x < my[x] /\ my[x] <= y
  <2>1. CASE x = b
    <3>1. y \in L /\ c < y
      BY <1>2, <1>3, <1>5, <1>7, <2>1
    <3>2. nx[c] <= y /\ nx[c] > c
      BY <1>2, <1>3, <3>1
    <3>3. QED
      BY <1>2, <1>3, <1>4, <1>5, <2>1, <3>2
  <2>2. CASE x = c
    <3>1. b <= y
      BY <1>2, <1>3, <1>5, <1>7, <2>2
    <3>2. QED
      BY <1>3, <1>4, <2>2, <3>1
  <2>3. CASE x \in L /\ x # c
    <3>1. my[x] = nx[x]
      BY <1>4, <2>3
    <3>2. CASE y \in L
      BY <1>2, <1>7, <2>3, <3>1, <3>2
    <3>3. CASE y = b
      <4>1. x < c
        BY <1>2, <1>3, <1>5, <1>7, <2>3, <3>3
      <4>2. x < nx[x] /\ nx[x] <= c
        BY <1>2, <1>3, <2>3, <4>1
      <4>3. QED
        BY <1>2, <1>3, <1>5, <2>3, <3>1, <3>3, <4>2
    <3>4. QED
      BY <3>2, <3>3
  <2>4. QED
    BY <2>1, <2>2, <2>3
<1>8. ASSUME NEW x \in M, \A y \in M : y <= x
      PROVE  my[x] = 0
  <2>1. b <= x
    BY <1>8
  <2>2. CASE x = b
    <3>1. nx[c] = 0
      <4>1. nx[c] \in L /\ nx[c] <= b
        BY <1>2, <1>3, <1>8, <2>2
      <4>2. QED
        BY <1>2, <1>3, <1>5, <4>1
    <3>2. QED
      BY <1>4, <2>2, <3>1
  <2>3. CASE x # b
    <3>1. x \in L /\ x # c /\ \A y \in L : y <= x
      BY <1>2, <1>3, <1>5, <1>8, <2>1, <2>3
    <3>2. QED
      BY <1>2, <1>4, <3>1
  <2>4. QED
    BY <2>2, <2>3
<1>9. Ring(my, M)
  BY <1>2, <1>4, <1>6, <1>7, <1>8 DEF Ring
<1>10. QED
  BY <1>1, <1>9

\* A block taken out leaves a ring: the one before it is the one below it.
LEMMA RingRemove ==
  ASSUME NEW nx, NEW L, Ring(nx, L), NEW x \in L, NEW y, y = nx[x], y # 0,
         NEW M, M = L \ {y}
  PROVE  /\ Ring(Removed(nx, x, y), M)
         /\ x < y /\ y \in L /\ \A c \in L : c < y => c <= x
<1>1. PICK my : my = Removed(nx, x, y)
  OBVIOUS
<1>2. /\ nx \in [Addrs -> Addrs] /\ 0 \in L /\ L \subseteq Addrs
      /\ \A c \in L : nx[c] \in L
      /\ \A c, d \in L : c < d => c < nx[c] /\ nx[c] <= d
      /\ \A c \in L : (\A d \in L : d <= c) => nx[c] = 0
  BY DEF Ring
<1>3. Top \in Nat /\ Addrs = 0 .. Top - 1
  BY AddrsAre
<1>4. y \in L /\ x < y
  <2>1. QED
    BY RingGoesUp
<1>5. \A c \in L : c < y => c <= x
  <2>1. x < y /\ \A c \in L : x < c => y <= c
    BY <1>4, RingGoesUp
  <2>2. \A c \in L : c \in Nat
    BY <1>2, <1>3
  <2>3. QED
    BY <1>4, <2>1, <2>2
<1>6. /\ my \in [Addrs -> Addrs] /\ my[x] = nx[y] /\ my[y] = 0
      /\ \A c \in L : c # x /\ c # y => my[c] = nx[c]
  <2>1. nx \in [Addrs -> Addrs] /\ L \subseteq Addrs /\ y \in Addrs /\ x \in Addrs /\ x # y
    BY <1>2, <1>3, <1>4
  <2>2. 0 \in Addrs /\ nx[y] \in Addrs
    BY <2>1, AddrsAre
  <2>3. QED
    BY <1>1, <2>1, <2>2 DEF Removed
<1>7. ASSUME NEW c \in M, NEW d \in M, c < d
      PROVE  c < my[c] /\ my[c] <= d /\ my[c] # y
  <2>1. CASE c = x
    <3>1. y < d
      BY <1>2, <1>3, <1>4, <1>5, <1>7, <2>1
    <3>2. y < nx[y] /\ nx[y] <= d
      BY <1>2, <1>4, <3>1
    <3>3. QED
      BY <1>2, <1>3, <1>4, <1>6, <2>1, <3>2
  <2>2. CASE c # x
    <3>1. my[c] = nx[c] /\ c < nx[c] /\ nx[c] <= d
      BY <1>2, <1>6, <1>7, <2>2
    <3>2. nx[c] # y
      <4>1. CASE c < x
        BY <1>2, <1>3, <1>4, <4>1
      <4>2. CASE x < c
        BY <1>2, <1>3, <1>4, <1>5, <3>1, <4>2
      <4>3. QED
        BY <1>2, <1>3, <2>2, <4>1, <4>2
    <3>3. QED
      BY <3>1, <3>2
  <2>3. QED
    BY <2>1, <2>2
<1>8. ASSUME NEW c \in M, \A d \in M : d <= c
      PROVE  my[c] = 0
  <2>1. CASE c = x
    <3>1. \A d \in L : d <= y
      <4>1. ASSUME NEW d \in L
            PROVE  d <= y
        BY <1>2, <1>3, <1>4, <1>8, <2>1
      <4>2. QED
        BY <4>1
    <3>2. QED
      BY <1>2, <1>4, <1>6, <2>1, <3>1
  <2>2. CASE c # x
    <3>1. x <= c /\ x < c
      BY <1>2, <1>3, <1>4, <1>8, <2>2
    <3>2. y < c
      BY <1>2, <1>3, <1>4, <1>5, <3>1
    <3>3. \A d \in L : d <= c
      BY <1>2, <1>3, <1>8, <3>2
    <3>4. QED
      BY <1>2, <1>6, <2>2, <3>3
  <2>3. QED
    BY <2>1, <2>2
<1>9. ASSUME NEW c \in M
      PROVE  my[c] \in M
  <2>1. CASE \A d \in M : d <= c
    BY <1>2, <1>8, <1>4, <2>1
  <2>2. CASE ~\A d \in M : d <= c
    <3>1. PICK d \in M : c < d
      BY <1>2, <1>3, <2>2
    <3>2. my[c] # y
      BY <1>7, <3>1
    <3>3. my[c] \in L
      BY <1>2, <1>4, <1>6
    <3>4. QED
      BY <3>2, <3>3
  <2>3. QED
    BY <2>1, <2>2
<1>10. Ring(my, M)
  BY <1>2, <1>6, <1>7, <1>8, <1>9 DEF Ring
<1>11. QED
  BY <1>1, <1>4, <1>5, <1>10

\* There is a block below b, and slob_free finds it wherever it begins.
LEMMA BelowExists ==
  ASSUME NEW nx, NEW L, Ring(nx, L), NEW b \in Addrs \ L
  PROVE  \E c : Below(nx, L, c, b)
<1>1. /\ 0 \in L /\ L \subseteq Addrs /\ \A c \in L : nx[c] \in L
      /\ \A c, d \in L : c < d => c < nx[c] /\ nx[c] <= d
      /\ \A c \in L : (\A d \in L : d <= c) => nx[c] = 0
  BY DEF Ring
<1>2. Top \in Nat /\ Addrs = 0 .. Top - 1
  BY AddrsAre
<1>3. PICK T : T = {j \in 1 .. Top : j - 1 \in L /\ j - 1 < b}
  OBVIOUS
<1>4. T \in SUBSET (1 .. Top) /\ 1 \in T
  BY <1>1, <1>2, <1>3
<1>5. Max(T) \in T /\ \A j \in T : j <= Max(T)
  BY <1>2, <1>4, MaxInSet
<1>6. PICK c \in L : c < b /\ c + 1 = Max(T)
  <2>1. PICK j \in 1 .. Top : j = Max(T) /\ j - 1 \in L /\ j - 1 < b
    BY <1>3, <1>5
  <2>2. (j - 1) + 1 = j
    BY <1>2
  <2>3. QED
    BY <2>1, <2>2
<1>7. ASSUME NEW x \in L, x < b
      PROVE  x <= c
  <2>1. x + 1 \in T
    BY <1>1, <1>2, <1>3, <1>7
  <2>2. QED
    BY <1>1, <1>2, <1>5, <1>6, <2>1
<1>8. nx[c] = 0 \/ b < nx[c]
  <2>1. nx[c] \in L /\ (nx[c] = 0 \/ c < nx[c])
    BY RingGoesUp
  <2>2. CASE c < nx[c]
    <3>1. PICK y \in L : y = nx[c]
      BY <2>1
    <3>2. y \in Nat /\ c \in Nat /\ b \in Nat /\ y # b
      BY <1>1, <1>2, <3>1
    <3>3. y < b => y <= c
      BY <1>7
    <3>4. QED
      BY <2>2, <3>1, <3>2, <3>3
  <2>3. QED
    BY <2>1, <2>2
<1>9. QED
  BY <1>6, <1>7, <1>8 DEF Below

Fits(nx, c, b) == \/ b > c /\ b < nx[c]
                  \/ c >= nx[c] /\ (b > c \/ b < nx[c])

\* The condition by which slob_free finds a place holds of one block, the one below.
LEMMA BelowFits ==
  ASSUME NEW nx, NEW L, Ring(nx, L), NEW b \in Addrs \ L, NEW c, Below(nx, L, c, b),
         NEW x \in L
  PROVE  Fits(nx, x, b) <=> x = c
<1>1. /\ 0 \in L /\ L \subseteq Addrs /\ \A d \in L : nx[d] \in L
      /\ \A d, e \in L : d < e => d < nx[d] /\ nx[d] <= e
      /\ \A d \in L : (\A e \in L : e <= d) => nx[d] = 0
  BY DEF Ring
<1>2. Top \in Nat /\ Addrs = 0 .. Top - 1
  BY AddrsAre
<1>3. /\ c \in L /\ c < b /\ (nx[c] = 0 \/ b < nx[c])
      /\ \A d \in L : d < b => d <= c
  BY DEF Below
<1>4. Fits(nx, c, b)
  BY <1>1, <1>2, <1>3 DEF Fits
<1>5. ASSUME Fits(nx, x, b)
      PROVE  x = c
  <2>1. x < c => x < nx[x] /\ nx[x] <= c
    BY <1>1, <1>3
  <2>2. nx[x] <= x => nx[x] = 0
    BY RingGoesUp
  <2>3. x < b => x <= c
    BY <1>3
  <2>4. x \in Nat /\ nx[x] \in Nat /\ c \in Nat /\ b \in Nat
    BY <1>2, <1>3, RingGoesUp
  <2>5. QED
    BY <1>3, <1>5, <2>1, <2>2, <2>3, <2>4 DEF Fits
<1>6. QED
  BY <1>4, <1>5

\* So Before finds it.
LEMMA BeforeIs ==
  ASSUME NEW h, NEW L, h.slobfree \in L, Ring(h.next, L), NEW b \in Addrs \ L
  PROVE  Below(h.next, L, Slob!Before(h, b), b)
<1>1. PICK w : w = Slob!Walk(h)
  OBVIOUS
<1>2. Tour(w, h, L)
  BY <1>1, TourIs
<1>3. PICK nx : nx = h.next
  OBVIOUS
<1>4. PICK c : Below(nx, L, c, b)
  BY <1>3, BelowExists
<1>5. PICK T : T = {i \in DOMAIN w : Fits(nx, w[i], b)}
  OBVIOUS
<1>6. /\ DOMAIN w = 1 .. Len(w) /\ Len(w) \in Nat
      /\ \A i \in 1 .. Len(w) : w[i] \in L
      /\ \E i \in 2 .. Len(w) : w[i] = c
  BY <1>2, <1>4 DEF Tour, Below
<1>7. \A i \in 1 .. Len(w) : Fits(nx, w[i], b) <=> w[i] = c
  BY <1>3, <1>4, <1>6, BelowFits
<1>8. T \in SUBSET Nat /\ T # {}
  BY <1>5, <1>6, <1>7
<1>9. Min(T) \in T
  BY <1>8, MinInSet
<1>10. w[Min(T)] = c
  BY <1>5, <1>6, <1>7, <1>9
<1>11. Slob!Before(h, b) = w[Min(T)]
  BY <1>1, <1>3, <1>5 DEF Slob!Before, Slob!Min, Min, Fits
<1>12. QED
  BY <1>3, <1>4, <1>10, <1>11

-----------------------------------------------------------------------------
(* What becomes of the headers.                                            *)

\* A block of n units is cut off the block a.
Split(u, a, n) == [u EXCEPT ![a] = n, ![a + n] = u[a] - n]

\* The block y, which begins where x ends, becomes part of it.
Joined(u, x, y) == [u EXCEPT ![x] = u[x] + u[y], ![y] = 0]

\* A block cut in two: its units stay tiled.
LEMMA TilesSplit ==
  ASSUME NEW u, NEW A, Tiled(u, A), NEW a \in Addrs, NEW n \in Nat, 0 < n, n < u[a]
  PROVE  /\ a + n \in Addrs /\ a + n # a /\ u[a + n] = 0
         /\ Tiled(Split(u, a, n), A)
         /\ \A x \in Addrs : Split(u, a, n)[x] =
               IF x = a THEN n ELSE IF x = a + n THEN u[a] - n ELSE u[x]
<1>1. PICK v : v = Split(u, a, n)
  OBVIOUS
<1>2. /\ u \in [Addrs -> Nat] /\ A \subseteq Addrs
      /\ \A b \in Addrs : u[b] > 0 => b + u[b] <= Top
      /\ \A b, x \in Addrs : u[b] > 0 /\ b <= x /\ x < b + u[b]
                                => x \in A /\ (x = b \/ u[x] = 0)
      /\ \A x \in A : \E b \in Addrs : b <= x /\ x < b + u[b]
  BY DEF Tiled
<1>3. Top \in Nat /\ Addrs = 0 .. Top - 1
  BY AddrsAre
<1>4. PICK k : k = u[a]
  OBVIOUS
<1>5. k \in Nat /\ n < k /\ a \in Nat /\ a + k <= Top
  BY <1>2, <1>3, <1>4
<1>6. PICK c \in Addrs : c = a + n
  BY <1>3, <1>5
<1>7. c # a /\ c \in A /\ u[c] = 0
  <2>1. a <= c /\ c < a + k /\ c # a
    BY <1>3, <1>5, <1>6
  <2>2. QED
    BY <1>2, <1>4, <1>5, <2>1
<1>8. /\ v \in [Addrs -> Nat]
      /\ \A x \in Addrs : v[x] = IF x = a THEN n ELSE IF x = c THEN k - n ELSE u[x]
  <2>1. k - n \in Nat
    BY <1>5
  <2>2. v = [u EXCEPT ![a] = n, ![c] = k - n]
    BY <1>1, <1>4, <1>6 DEF Split
  <2>3. QED
    BY <1>2, <1>7, <2>1, <2>2
<1>9. ASSUME NEW b \in Addrs, v[b] > 0
      PROVE  b + v[b] <= Top
  <2>1. CASE b = a
    <3>1. v[b] = n
      BY <1>8, <2>1
    <3>2. QED
      BY <1>3, <1>5, <2>1, <3>1
  <2>2. CASE b = c
    <3>1. v[b] = k - n
      BY <1>7, <1>8, <2>2
    <3>2. QED
      BY <1>3, <1>5, <1>6, <2>2, <3>1
  <2>3. CASE b # a /\ b # c
    <3>1. v[b] = u[b]
      BY <1>8, <2>3
    <3>2. QED
      BY <1>2, <1>9, <3>1
  <2>4. QED
    BY <2>1, <2>2, <2>3
<1>10. ASSUME NEW b \in Addrs, NEW x \in Addrs, v[b] > 0, b <= x, x < b + v[b]
       PROVE  x \in A /\ (x = b \/ v[x] = 0)
  <2>1. b \in Nat /\ x \in Nat
    BY <1>3
  <2>2. CASE b = a
    <3>1. v[b] = n /\ x < c
      BY <1>6, <1>8, <1>10, <2>1, <2>2
    <3>2. a <= x /\ x < a + k /\ x # c
      BY <1>5, <1>6, <1>10, <2>1, <2>2, <3>1
    <3>3. x \in A /\ (x = a \/ u[x] = 0)
      BY <1>2, <1>4, <1>5, <3>2
    <3>4. QED
      BY <1>8, <2>2, <3>2, <3>3
  <2>3. CASE b = c
    <3>1. v[b] = k - n
      BY <1>7, <1>8, <2>3
    <3>2. a <= x /\ x < a + k /\ x # a
      BY <1>5, <1>6, <1>7, <1>10, <2>1, <2>3, <3>1
    <3>3. x \in A /\ (x = a \/ u[x] = 0)
      BY <1>2, <1>4, <1>5, <3>2
    <3>4. QED
      BY <1>8, <2>3, <3>2, <3>3
  <2>4. CASE b # a /\ b # c
    <3>1. v[b] = u[b]
      BY <1>8, <2>4
    <3>2. x \in A /\ (x = b \/ u[x] = 0)
      BY <1>2, <1>10, <3>1
    <3>3. CASE x = b
      BY <3>2, <3>3
    <3>4. CASE x # b
      <4>1. x # a
        BY <1>4, <1>5, <3>2, <3>4
      <4>2. x # c
        <5>1. CASE b < a
          <6>1. a < b + u[b] => u[a] = 0
            BY <1>2, <1>3, <1>10, <3>1, <5>1
          <6>2. u[b] \in Nat /\ ~(a < b + u[b])
            BY <1>2, <1>4, <1>5, <6>1
          <6>3. QED
            BY <1>5, <1>6, <1>10, <2>1, <3>1, <5>1, <6>2
        <5>2. CASE a < b
          <6>1. b < a + k => u[b] = 0
            BY <1>2, <1>3, <1>4, <1>5, <5>2
          <6>2. u[b] # 0
            BY <1>10, <3>1
          <6>3. QED
            BY <1>5, <1>6, <1>10, <2>1, <5>2, <6>1, <6>2
        <5>3. QED
          BY <1>5, <2>1, <2>4, <5>1, <5>2
      <4>3. QED
        BY <1>8, <3>2, <3>4, <4>1, <4>2
    <3>5. QED
      BY <3>3, <3>4
  <2>5. QED
    BY <2>2, <2>3, <2>4
<1>11. ASSUME NEW x \in A
       PROVE  \E b \in Addrs : b <= x /\ x < b + v[b]
  <2>1. PICK b \in Addrs : b <= x /\ x < b + u[b]
    BY <1>2
  <2>2. x \in Nat /\ b \in Nat
    BY <1>2, <1>3
  <2>3. CASE b = a
    <3>1. CASE x < c
      BY <1>6, <1>8, <2>1, <2>3, <3>1
    <3>2. CASE ~(x < c)
      <4>1. v[c] = k - n
        BY <1>7, <1>8
      <4>2. c <= x /\ x < c + v[c]
        BY <1>4, <1>5, <1>6, <2>1, <2>2, <2>3, <3>2, <4>1
      <4>3. QED
        BY <4>2
    <3>3. QED
      BY <3>1, <3>2
  <2>4. CASE b # a
    <3>1. b # c
      BY <1>7, <2>1, <2>2
    <3>2. QED
      BY <1>8, <2>1, <2>4, <3>1
  <2>5. QED
    BY <2>3, <2>4
<1>12. Tiled(v, A)
  BY <1>2, <1>8, <1>9, <1>10, <1>11 DEF Tiled
<1>13. QED
  BY <1>1, <1>4, <1>6, <1>7, <1>8, <1>12

\* Two blocks become one: their units stay tiled.
LEMMA TilesJoin ==
  ASSUME NEW u, NEW A, Tiled(u, A), NEW x \in Heads(u), NEW y \in Heads(u),
         x + u[x] = y
  PROVE  /\ Tiled(Joined(u, x, y), A)
         /\ \A c \in Addrs : Joined(u, x, y)[c] =
               IF c = x THEN u[x] + u[y] ELSE IF c = y THEN 0 ELSE u[c]
<1>1. PICK v : v = Joined(u, x, y)
  OBVIOUS
<1>2. /\ u \in [Addrs -> Nat] /\ A \subseteq Addrs
      /\ \A b \in Addrs : u[b] > 0 => b + u[b] <= Top
      /\ \A b, c \in Addrs : u[b] > 0 /\ b <= c /\ c < b + u[b]
                                => c \in A /\ (c = b \/ u[c] = 0)
      /\ \A c \in A : \E b \in Addrs : b <= c /\ c < b + u[b]
  BY DEF Tiled
<1>3. Top \in Nat /\ Addrs = 0 .. Top - 1
  BY AddrsAre
<1>4. /\ x \in Addrs /\ y \in Addrs /\ u[x] \in Nat /\ u[y] \in Nat /\ u[x] > 0 /\ u[y] > 0
      /\ x \in Nat /\ y \in Nat
  BY <1>2, <1>3 DEF Heads
<1>5. x < y
  BY <1>4
<1>6. /\ v \in [Addrs -> Nat]
      /\ \A c \in Addrs : v[c] = IF c = x THEN u[x] + u[y] ELSE IF c = y THEN 0 ELSE u[c]
  <2>1. PICK k \in Nat : k = u[x] + u[y]
    BY <1>4
  <2>2. v = [u EXCEPT ![x] = k, ![y] = 0]
    BY <1>1, <2>1 DEF Joined
  <2>3. QED
    BY <1>2, <1>4, <1>5, <2>1, <2>2
<1>7. v[x] = u[x] + u[y] /\ v[y] = 0 /\ x + v[x] = y + u[y]
  BY <1>4, <1>5, <1>6
<1>8. ASSUME NEW b \in Addrs, v[b] > 0
      PROVE  b + v[b] <= Top
  <2>1. CASE b = x
    BY <1>2, <1>4, <1>7, <2>1
  <2>2. CASE b # x
    <3>1. b # y
      BY <1>7, <1>8
    <3>2. v[b] = u[b]
      BY <1>6, <2>2, <3>1
    <3>3. QED
      BY <1>2, <1>8, <3>2
  <2>3. QED
    BY <2>1, <2>2
<1>9. ASSUME NEW b \in Addrs, NEW c \in Addrs, v[b] > 0, b <= c, c < b + v[b]
      PROVE  c \in A /\ (c = b \/ v[c] = 0)
  <2>1. b \in Nat /\ c \in Nat
    BY <1>3
  <2>2. CASE b = x
    <3>1. CASE c < y
      <4>1. c \in A /\ (c = x \/ u[c] = 0)
        BY <1>2, <1>4, <1>9, <2>1, <2>2, <3>1
      <4>2. QED
        BY <1>4, <1>6, <2>1, <2>2, <3>1, <4>1
    <3>2. CASE ~(c < y)
      <4>1. y <= c /\ c < y + u[y]
        BY <1>4, <1>7, <1>9, <2>1, <2>2, <3>2
      <4>2. c \in A /\ (c = y \/ u[c] = 0)
        BY <1>2, <1>4, <4>1
      <4>3. c # x
        BY <1>4, <1>5, <2>1, <4>1
      <4>4. QED
        BY <1>6, <4>2, <4>3
    <3>3. QED
      BY <3>1, <3>2
  <2>3. CASE b # x
    <3>1. b # y
      BY <1>7, <1>9
    <3>2. v[b] = u[b]
      BY <1>6, <2>3, <3>1
    <3>3. c \in A /\ (c = b \/ u[c] = 0)
      BY <1>2, <1>9, <3>2
    <3>4. c # x
      BY <1>4, <2>3, <3>3
    <3>5. QED
      BY <1>6, <3>3, <3>4
  <2>4. QED
    BY <2>2, <2>3
<1>10. ASSUME NEW c \in A
       PROVE  \E b \in Addrs : b <= c /\ c < b + v[b]
  <2>1. PICK b \in Addrs : b <= c /\ c < b + u[b]
    BY <1>2
  <2>2. c \in Nat /\ b \in Nat
    BY <1>2, <1>3
  <2>3. CASE b = x
    BY <1>4, <1>7, <2>1, <2>2, <2>3
  <2>4. CASE b = y
    <3>1. x <= c /\ c < x + v[x]
      BY <1>4, <1>5, <1>7, <2>1, <2>2, <2>4
    <3>2. QED
      BY <1>4, <3>1
  <2>5. CASE b # x /\ b # y
    BY <1>6, <2>1, <2>5
  <2>6. QED
    BY <2>3, <2>4, <2>5
<1>11. Tiled(v, A)
  BY <1>2, <1>6, <1>8, <1>9, <1>10 DEF Tiled
<1>12. QED
  BY <1>1, <1>6, <1>11

\* A page that joins the heap is a block.
Headed(u, s) == [u EXCEPT ![s] = PageUnits]

\* A page joins the heap: its units are tiled as well.
LEMMA TilesGrow ==
  ASSUME NEW u, NEW A, Tiled(u, A), NEW s \in Addrs, s + PageUnits <= Top,
         NEW B, B = Slob!Units(s, PageUnits), A \cap B = {},
         NEW v, v = Headed(u, s)
  PROVE  /\ Tiled(v, A \cup B) /\ u[s] = 0
         /\ \A c \in Addrs : v[c] = IF c = s THEN PageUnits ELSE u[c]
<1>1. /\ u \in [Addrs -> Nat] /\ A \subseteq Addrs
      /\ \A b \in Addrs : u[b] > 0 => b + u[b] <= Top
      /\ \A b, c \in Addrs : u[b] > 0 /\ b <= c /\ c < b + u[b]
                                => c \in A /\ (c = b \/ u[c] = 0)
      /\ \A c \in A : \E b \in Addrs : b <= c /\ c < b + u[b]
  BY DEF Tiled
<1>2. /\ Top \in Nat /\ Addrs = 0 .. Top - 1 /\ s \in Nat
      /\ PageUnits \in Nat /\ PageUnits > 0
  BY AddrsAre, SlobConstants
<1>3. B = s .. s + PageUnits - 1
  BY DEF Slob!Units
<1>4. B \subseteq Addrs /\ s \in B
  BY <1>2, <1>3
<1>5. ASSUME NEW b \in Addrs, u[b] > 0
      PROVE  b \in A /\ \A c \in Addrs : b <= c /\ c < b + u[b] => c \in A
  <2>1. b <= b /\ b < b + u[b] /\ u[b] \in Nat
    BY <1>1, <1>2, <1>5
  <2>2. QED
    BY <1>1, <1>5, <2>1
<1>6. \A c \in B : u[c] = 0
  <2>1. ASSUME NEW c \in B
        PROVE  u[c] = 0
    <3>1. c \in Addrs /\ c \notin A /\ u[c] \in Nat
      BY <1>1, <1>4
    <3>2. QED
      BY <1>5, <3>1
  <2>2. QED
    BY <2>1
<1>7. /\ v \in [Addrs -> Nat]
      /\ \A c \in Addrs : v[c] = IF c = s THEN PageUnits ELSE u[c]
  BY <1>1, <1>2 DEF Headed
<1>8. ASSUME NEW b \in Addrs, v[b] > 0
      PROVE  b + v[b] <= Top
  BY <1>1, <1>7, <1>8
<1>9. ASSUME NEW b \in Addrs, NEW c \in Addrs, v[b] > 0, b <= c, c < b + v[b]
      PROVE  c \in A \cup B /\ (c = b \/ v[c] = 0)
  <2>1. CASE b = s
    <3>1. c \in B
      BY <1>2, <1>3, <1>7, <1>9, <2>1
    <3>2. QED
      BY <1>6, <1>7, <2>1, <3>1
  <2>2. CASE b # s
    <3>1. v[b] = u[b]
      BY <1>7, <2>2
    <3>2. c \in A /\ (c = b \/ u[c] = 0)
      BY <1>1, <1>9, <3>1
    <3>3. c # s
      BY <1>4, <3>2
    <3>4. QED
      BY <1>7, <3>2, <3>3
  <2>3. QED
    BY <2>1, <2>2
<1>10. ASSUME NEW c \in A \cup B
       PROVE  \E b \in Addrs : b <= c /\ c < b + v[b]
  <2>1. CASE c \in B
    <3>1. s <= c /\ c < s + v[s]
      BY <1>2, <1>3, <1>7, <2>1
    <3>2. QED
      BY <3>1
  <2>2. CASE c \in A
    <3>1. PICK b \in Addrs : b <= c /\ c < b + u[b]
      BY <1>1, <2>2
    <3>2. c \in Nat /\ b \in Nat
      BY <1>1, <1>2, <2>2
    <3>3. b # s
      BY <1>4, <1>6, <3>1, <3>2
    <3>4. QED
      BY <1>7, <3>1, <3>3
  <2>3. QED
    BY <2>1, <2>2
<1>11. Tiled(v, A \cup B)
  BY <1>1, <1>4, <1>7, <1>8, <1>9, <1>10 DEF Tiled
<1>12. QED
  BY <1>4, <1>6, <1>7, <1>11

-----------------------------------------------------------------------------
(* slob_alloc.                                                             *)

\* What it does with the block behind prev.
TakenBehind(h, prev, n) ==
    LET cur == h.next[prev]
    IN  IF h.units[cur] = n
        THEN [h EXCEPT !.next[prev] = h.next[cur], !.next[cur] = 0, !.slobfree = prev]
        ELSE [units |-> [h.units EXCEPT ![cur] = n, ![cur + n] = h.units[cur] - n],
              next |-> [h.next EXCEPT ![prev] = cur + n, ![cur + n] = h.next[cur],
                                      ![cur] = 0],
              slobfree |-> prev]

HasRoom(h, L, n) == \E b \in L : h.units[b] >= n

\* slob_alloc finds room when a free block has it, and takes the head of that block.
LEMMA RoomIs ==
  ASSUME NEW h, NEW L, h.slobfree \in L, Ring(h.next, L), NEW n
  PROVE  /\ Slob!Room(h, n) # {} <=> HasRoom(h, L, n)
         /\ Slob!Room(h, n) # {} =>
               \E prev \in L : /\ Slob!Taken(h, n) = h.next[prev]
                               /\ h.units[h.next[prev]] >= n
                               /\ Slob!Take(h, n) = TakenBehind(h, prev, n)
<1>1. PICK w : w = Slob!Walk(h)
  OBVIOUS
<1>2. Tour(w, h, L)
  BY <1>1, TourIs
<1>3. /\ Len(w) \in Nat /\ \A i \in 1 .. Len(w) : w[i] \in L
      /\ \A i \in 1 .. Len(w) - 1 : w[i + 1] = h.next[w[i]]
      /\ \A c \in L : \E i \in 2 .. Len(w) : w[i] = c
  <2>1. /\ w \in Seq(L)
        /\ \A i \in 1 .. Len(w) - 1 : w[i + 1] = h.next[w[i]]
        /\ \A c \in L : \E i \in 2 .. Len(w) : w[i] = c
    BY <1>2, Zenon DEF Tour
  <2>2. Len(w) \in Nat /\ \A i \in 1 .. Len(w) : w[i] \in L
    BY <2>1
  <2>3. QED
    BY <2>1, <2>2, Zenon
<1>4. PICK T : T = Slob!Room(h, n)
  OBVIOUS
<1>5. T = {i \in 2 .. Len(w) : h.units[w[i]] >= n}
  BY <1>1, <1>4 DEF Slob!Room
<1>6. T # {} <=> HasRoom(h, L, n)
  BY <1>3, <1>5 DEF HasRoom
<1>7. ASSUME T # {}
      PROVE  \E prev \in L : /\ Slob!Taken(h, n) = h.next[prev]
                             /\ h.units[h.next[prev]] >= n
                             /\ Slob!Take(h, n) = TakenBehind(h, prev, n)
  <2>1. PICK i : i = Min(T)
    OBVIOUS
  <2>2. i \in T
    <3>1. T \in SUBSET Nat
      BY <1>5
    <3>2. QED
      BY <1>7, <2>1, <3>1, MinInSet
  <2>3. i \in 2 .. Len(w) /\ h.units[w[i]] >= n
    BY <1>5, <2>2
  <2>4. PICK prev \in L : prev = w[i - 1]
    BY <1>3, <2>3
  <2>5. w[i] = h.next[prev]
    <3>1. i - 1 \in 1 .. Len(w) - 1 /\ (i - 1) + 1 = i
      BY <1>3, <2>3
    <3>2. QED
      BY <1>3, <2>4, <3>1
  <2>6. Slob!Min(Slob!Room(h, n)) = i
    BY <1>4, <2>1 DEF Slob!Min, Min
  <2>7. Slob!Taken(h, n) = w[i]
    BY <1>1, <2>6 DEF Slob!Taken
  <2>8. Slob!Take(h, n) = TakenBehind(h, prev, n)
    BY <1>1, <2>4, <2>5, <2>6 DEF Slob!Take, TakenBehind
  <2>9. QED
    BY <2>3, <2>5, <2>7, <2>8
<1>8. QED
  BY <1>4, <1>6, <1>7

\* The blocks M are free in r, at is held, and no other one has changed hands.
Takes(h, L, r, M, at, n) ==
    /\ at \in Addrs \ HeldBy(h, L) /\ HeldBy(r, M) = HeldBy(h, L) \cup {at}
    /\ r.units[at] = n /\ \A c \in HeldBy(h, L) : r.units[c] = h.units[c]

\* The fields of a list.
LEMMA ListFields ==
  ASSUME NEW h \in Lists
  PROVE  /\ h = [units |-> h.units, next |-> h.next, slobfree |-> h.slobfree]
         /\ h.units \in [Addrs -> Nat] /\ h.next \in [Addrs -> Addrs] /\ h.slobfree \in Addrs
BY DEF Lists

\* What slob_alloc takes is held, and the list is as sound as before.
LEMMA TakeKeeps ==
  ASSUME NEW h, NEW L, NEW A, HeapInv(h, L, A), NEW n \in Nat, n > 1,
         NEW prev \in L, NEW cur, cur = h.next[prev], h.units[cur] >= n,
         NEW r, r = TakenBehind(h, prev, n)
  PROVE  /\ \E M : HeapInv(r, M, A) /\ Takes(h, L, r, M, cur, n)
         /\ \A x \in Addrs : cur <= x /\ x < cur + n => x \in A
<1>1. PICK u : u = h.units
  OBVIOUS
<1>2. PICK nx : nx = h.next
  OBVIOUS
<1>3. /\ h \in Lists /\ Tiled(u, A) /\ Ring(nx, L) /\ Spaced(u, L) /\ \A b \in L : u[b] > 0
      /\ u[0] = 1 /\ 1 \notin A
  BY <1>1, <1>2 DEF HeapInv
<1>4. Top \in Nat /\ Addrs = 0 .. Top - 1 /\ 0 \in Addrs
  BY AddrsAre
<1>5. cur \in L /\ L \subseteq Addrs /\ 0 \in L
  BY <1>2, <1>3 DEF Ring
<1>6. /\ u \in [Addrs -> Nat] /\ nx \in [Addrs -> Addrs] /\ prev \in Addrs /\ cur \in Addrs
      /\ prev \in Nat /\ cur \in Nat /\ u[cur] \in Nat
  BY <1>1, <1>2, <1>3, <1>4, <1>5, ListFields
<1>7. cur # 0 /\ u[cur] >= n /\ u[cur] > 0 /\ cur \in Nat /\ u[cur] \in Nat
  BY <1>1, <1>3, <1>6
<1>8. cur = nx[prev] /\ cur \in L
  BY <1>2, <1>5
<1>9. \A x \in Addrs : cur <= x /\ x < cur + n => x \in A
  <2>1. ASSUME NEW x \in Addrs, cur <= x, x < cur + n
        PROVE  x \in A
    <3>1. x \in Nat
      BY <1>4
    <3>2. x < cur + u[cur] /\ u[cur] > 0
      BY <1>7, <2>1, <3>1
    <3>3. QED
      BY <1>3, <1>6, <2>1, <3>2 DEF Tiled
  <2>2. QED
    BY <2>1
<1>10. CASE u[cur] = n
  <2>1. PICK my : my = Removed(nx, prev, cur)
    OBVIOUS
  <2>2. PICK M : M = L \ {cur}
    OBVIOUS
  <2>3. Ring(my, M) /\ prev < cur
    BY <1>8, <1>3, <1>7, <2>1, <2>2, RingRemove
  <2>4. r = [units |-> u, next |-> my, slobfree |-> prev]
    <3>1. r = [h EXCEPT !.next[prev] = nx[cur], !.next[cur] = 0, !.slobfree = prev]
      BY <1>1, <1>2, <1>10 DEF TakenBehind
    <3>2. QED
      BY <1>1, <1>2, <1>3, <2>1, <3>1, ListFields DEF Removed
  <2>5. r.units = u /\ r.next = my /\ r.slobfree = prev
    BY <2>4
  <2>6. r \in Lists
    BY <1>6, <2>3, <2>4 DEF Lists, Ring
  <2>7. Spaced(u, M)
    BY <1>3, <2>2 DEF Spaced
  <2>8. HeapInv(r, M, A)
    BY <1>3, <1>6, <2>2, <2>3, <2>5, <2>6, <2>7 DEF HeapInv
  <2>9. Takes(h, L, r, M, cur, n)
    BY <1>1, <1>3, <1>5, <1>6, <1>10, <2>2, <2>5 DEF Takes, HeldBy, Heads
  <2>10. QED
    BY <1>9, <2>8, <2>9
<1>11. CASE u[cur] # n
  <2>1. n < u[cur]
    BY <1>6, <1>7, <1>11
  <2>2. PICK b : b = cur + n
    OBVIOUS
  <2>3. PICK v : v = Split(u, cur, n)
    OBVIOUS
  <2>4. /\ b \in Addrs /\ b # cur /\ u[b] = 0 /\ Tiled(v, A)
        /\ \A x \in Addrs : v[x] = IF x = cur THEN n ELSE IF x = b THEN u[cur] - n ELSE u[x]
    <3>1. Tiled(u, A) /\ cur \in Addrs /\ 0 < n
      BY <1>3, <1>6
    <3>2. QED
      BY <2>1, <2>2, <2>3, <3>1, TilesSplit
  <2>5. b \notin L /\ b \in Nat /\ cur < b /\ b < cur + u[cur]
    <3>1. b \in Nat /\ cur < b /\ b < cur + u[cur]
      BY <1>7, <2>1, <2>2
    <3>2. u[b] = 0
      BY <2>4
    <3>3. b \notin L
      BY <1>3, <3>2
    <3>4. QED
      BY <3>1, <3>3
  <2>6. Below(nx, L, cur, b)
    <3>1. ASSUME NEW x \in L, cur < x
          PROVE  b < x
      <4>1. cur + u[cur] < x
        BY <1>3, <1>5, <3>1 DEF Spaced
      <4>2. x \in Nat
        BY <1>4, <1>5
      <4>3. QED
        BY <1>6, <2>5, <4>1, <4>2
    <3>2. \A x \in L : x < b => x <= cur
      <4>1. ASSUME NEW x \in L, x < b
            PROVE  x <= cur
        <5>1. x \in Nat
          BY <1>4, <1>5
        <5>2. QED
          BY <1>6, <2>5, <3>1, <4>1, <5>1
      <4>2. QED
        BY <4>1
    <3>3. nx[cur] = 0 \/ b < nx[cur]
      BY <1>3, <1>5, <3>1, RingGoesUp
    <3>4. QED
      BY <1>5, <2>5, <3>2, <3>3 DEF Below
  <2>7. PICK K : K = L \cup {b}
    OBVIOUS
  <2>8. PICK mid : mid = Inserted(nx, cur, b)
    OBVIOUS
  <2>9. Ring(mid, K)
    BY <1>3, <2>4, <2>5, <2>6, <2>7, <2>8, RingInsert
  <2>10. PICK M : M = K \ {cur}
    OBVIOUS
  <2>11. PICK my : my = Removed(mid, prev, cur)
    OBVIOUS
  <2>12. prev < cur
    BY <1>8, <1>3, <1>7, RingRemove
  <2>13. mid[prev] = cur
    BY <1>2, <1>6, <2>4, <2>5, <2>8, <2>12 DEF Inserted
  <2>14. Ring(my, M)
    BY <1>7, <2>7, <2>9, <2>10, <2>11, <2>13, RingRemove
  <2>15. my = [nx EXCEPT ![prev] = b, ![b] = nx[cur], ![cur] = 0]
    <3>1. prev # cur /\ prev # b /\ cur # b
      BY <1>6, <2>5, <2>12
    <3>2. mid = [nx EXCEPT ![b] = nx[cur], ![cur] = b]
      BY <2>8 DEF Inserted
    <3>3. mid[cur] = b
      BY <1>6, <3>2
    <3>4. my = [mid EXCEPT ![prev] = b, ![cur] = 0]
      BY <2>11, <3>3 DEF Removed
    <3>5. QED
      BY <1>6, <2>4, <3>1, <3>2, <3>4
  <2>16. r = [units |-> v, next |-> my, slobfree |-> prev]
    BY <1>1, <1>2, <1>11, <2>2, <2>3, <2>15 DEF TakenBehind, Split
  <2>17. r.units = v /\ r.next = my /\ r.slobfree = prev
    BY <2>16
  <2>18. r \in Lists
    BY <1>6, <2>4, <2>14, <2>16 DEF Lists, Ring, Tiled
  <2>19. \A x \in M : x \in Addrs /\ v[x] > 0
    BY <1>3, <1>5, <1>6, <2>1, <2>4, <2>7, <2>10
  <2>20. Spaced(v, M)
    <3>1. ASSUME NEW x \in M, NEW y \in M, x < y
          PROVE  x + v[x] < y
      <4>1. x \in Nat /\ y \in Nat /\ x # cur /\ y # cur
        BY <1>4, <2>10, <2>19
      <4>2. CASE x = b
        <5>1. y \in L /\ cur < y
          BY <1>6, <2>5, <2>7, <2>10, <3>1, <4>1, <4>2
        <5>2. cur + u[cur] < y
          BY <1>3, <1>5, <5>1 DEF Spaced
        <5>3. v[b] = u[cur] - n
          BY <2>4
        <5>4. QED
          BY <1>6, <2>2, <4>1, <4>2, <5>2, <5>3
      <4>3. CASE x # b
        <5>1. x \in L /\ v[x] = u[x]
          BY <2>4, <2>7, <2>10, <2>19, <4>1, <4>3
        <5>2. CASE y = b
          <6>1. x < cur
            BY <1>6, <2>6, <3>1, <4>1, <5>1, <5>2 DEF Below
          <6>2. x + u[x] < cur
            BY <1>3, <1>5, <5>1, <6>1 DEF Spaced
          <6>3. u[x] \in Nat
            BY <1>5, <1>6, <5>1
          <6>4. QED
            BY <1>6, <2>5, <4>1, <5>1, <5>2, <6>2, <6>3
        <5>3. CASE y # b
          BY <1>3, <2>7, <2>10, <3>1, <5>1, <5>3 DEF Spaced
        <5>4. QED
          BY <5>2, <5>3
      <4>4. QED
        BY <4>2, <4>3
    <3>2. QED
      BY <3>1 DEF Spaced
  <2>21. v[0] = 1 /\ prev \in M
    <3>1. b # 0 /\ prev # cur
      BY <1>6, <2>5, <2>12
    <3>2. u[0] = 1
      BY <1>3
    <3>3. v[0] = 1
      BY <1>4, <1>7, <2>4, <3>1, <3>2
    <3>4. QED
      BY <2>7, <2>10, <3>1, <3>3
  <2>22. HeapInv(r, M, A)
    BY <1>3, <2>4, <2>14, <2>17, <2>18, <2>19, <2>20, <2>21 DEF HeapInv
  <2>23. Takes(h, L, r, M, cur, n)
    <3>1. \A c \in Addrs \ {cur, b} : v[c] = u[c]
      BY <2>4
    <3>2. v[cur] = n /\ v[b] > 0 /\ u[b] = 0 /\ u[cur] > 0
      <4>1. v[cur] = n /\ v[b] = u[cur] - n
        BY <1>6, <2>4
      <4>2. PICK k \in Nat : k = u[cur]
        BY <1>6
      <4>3. v[b] > 0 /\ u[cur] > 0
        BY <2>1, <4>1, <4>2
      <4>4. u[b] = 0
        BY <2>4
      <4>5. QED
        BY <4>1, <4>3, <4>4
    <3>3. HeldBy(h, L) = {c \in Addrs : u[c] > 0} \ L
      BY <1>1 DEF HeldBy, Heads
    <3>4. HeldBy(r, M) = {c \in Addrs : v[c] > 0} \ M
      BY <2>17 DEF HeldBy, Heads
    <3>5. b \in Addrs /\ b \notin HeldBy(h, L) /\ cur \notin HeldBy(h, L) /\ b # cur
      BY <1>8, <2>4, <3>2, <3>3
    <3>6. \A c \in Addrs \ {cur, b} : c \in HeldBy(r, M) <=> c \in HeldBy(h, L)
      BY <2>7, <2>10, <3>1, <3>3, <3>4
    <3>7. cur \in HeldBy(r, M) /\ b \notin HeldBy(r, M)
      <4>1. cur \in Addrs /\ v[cur] > 0 /\ cur \notin M
        BY <1>6, <2>10, <3>2
      <4>2. b \in M
        BY <2>4, <2>7, <2>10
      <4>3. QED
        BY <3>4, <4>1, <4>2
    <3>8. HeldBy(h, L) \subseteq Addrs /\ HeldBy(r, M) \subseteq Addrs
      BY <3>3, <3>4
    <3>9. HeldBy(r, M) = HeldBy(h, L) \cup {cur}
      BY <3>5, <3>6, <3>7, <3>8, <1>6
    <3>10. \A c \in HeldBy(h, L) : v[c] = u[c]
      BY <3>1, <3>5, <3>8
    <3>11. QED
      BY <1>1, <1>6, <2>17, <3>2, <3>5, <3>9, <3>10 DEF Takes
  <2>24. QED
    BY <1>9, <2>22, <2>23
<1>12. QED
  BY <1>10, <1>11

-----------------------------------------------------------------------------
(* slob_free.                                                              *)

\* The list while slob_free works on it: blocks may touch.
HeapBut(h, L, A) ==
    /\ h \in Lists /\ h.slobfree \in L
    /\ Tiled(h.units, A) /\ Ring(h.next, L)
    /\ \A b \in L : h.units[b] > 0
    /\ h.units[0] = 1 /\ 1 \notin A

\* The blocks that touch the next one.
Loose(u, L) == {c \in L : c + u[c] \in L}

\* No two free blocks touch when none touches the next one.
LEMMA LooseApart ==
  ASSUME NEW h, NEW L, NEW A, HeapBut(h, L, A)
  PROVE  Loose(h.units, L) = {} <=> Spaced(h.units, L)
<1>1. PICK u : u = h.units
  OBVIOUS
<1>2. Tiled(u, A) /\ L \subseteq Addrs /\ \A c \in L : u[c] > 0
  BY <1>1 DEF HeapBut, Ring
<1>3. \A c \in L : c \in Nat /\ u[c] \in Nat /\ c \in Heads(u)
  BY <1>2, AddrsAre DEF Tiled, Heads
<1>4. ASSUME Loose(u, L) = {}
      PROVE  Spaced(u, L)
  <2>1. ASSUME NEW c \in L, NEW d \in L, c < d
        PROVE  c + u[c] < d
    <3>1. c + u[c] <= d
      BY <1>2, <1>3, <2>1, TilesApart
    <3>2. c + u[c] # d
      BY <1>4 DEF Loose
    <3>3. QED
      BY <1>3, <3>1, <3>2
  <2>2. QED
    BY <2>1 DEF Spaced
<1>5. ASSUME Spaced(u, L)
      PROVE  Loose(u, L) = {}
  <2>1. ASSUME NEW c \in L, c + u[c] \in L
        PROVE  FALSE
    <3>1. PICK d \in L : d = c + u[c]
      BY <2>1
    <3>2. c \in Nat /\ u[c] \in Nat /\ u[c] > 0
      BY <1>2, <1>3
    <3>3. c < d
      BY <3>1, <3>2
    <3>4. c + u[c] < d
      BY <1>5, <3>3 DEF Spaced
    <3>5. QED
      BY <3>1, <3>2, <3>4
  <2>2. QED
    BY <2>1 DEF Loose
<1>6. QED
  BY <1>1, <1>4, <1>5

\* The list with the block y joined to x.
Join(h, x, y) == [units |-> Joined(h.units, x, y), next |-> Removed(h.next, x, y),
                  slobfree |-> h.slobfree]

\* The blocks M of r are free, and what is held is as it was.
SameHeld(h, L, r, M) ==
    /\ HeldBy(r, M) = HeldBy(h, L)
    /\ \A c \in HeldBy(h, L) : r.units[c] = h.units[c]

\* To join a block with the next one repairs the two, and breaks no other.
LEMMA JoinKeeps ==
  ASSUME NEW h, NEW L, NEW A, HeapBut(h, L, A), NEW x \in L, NEW y, y = h.next[x],
         x + h.units[x] = y, y \notin Loose(h.units, L), h.slobfree # y,
         NEW r, r = Join(h, x, y), NEW M, M = L \ {y}
  PROVE  /\ HeapBut(r, M, A) /\ SameHeld(h, L, r, M)
         /\ Loose(r.units, M) \subseteq Loose(h.units, L) \ {x}
         /\ \A c \in Addrs : r.units[c] = IF c = x THEN h.units[x] + h.units[y]
                                          ELSE IF c = y THEN 0 ELSE h.units[c]
         /\ x # 0
<1>1. PICK u : u = h.units
  OBVIOUS
<1>2. PICK nx : nx = h.next
  OBVIOUS
<1>3. /\ h \in Lists /\ Tiled(u, A) /\ Ring(nx, L) /\ \A b \in L : u[b] > 0
      /\ u[0] = 1 /\ 1 \notin A /\ h.slobfree \in L
  BY <1>1, <1>2 DEF HeapBut
<1>4. Top \in Nat /\ Addrs = 0 .. Top - 1 /\ 0 \in Addrs
  BY AddrsAre
<1>5. y \in L /\ L \subseteq Addrs /\ 0 \in L /\ y = nx[x]
  BY <1>2, <1>3 DEF Ring
<1>6. /\ x \in Addrs /\ y \in Addrs /\ x \in Nat /\ y \in Nat
      /\ u[x] \in Nat /\ u[y] \in Nat /\ u[x] > 0 /\ u[y] > 0
  BY <1>3, <1>4, <1>5 DEF Tiled
<1>7. x + u[x] = y /\ x < y /\ y # 0
  <2>1. x + u[x] = y
    BY <1>1
  <2>2. QED
    BY <1>6, <2>1
<1>8. x \in Heads(u) /\ y \in Heads(u)
  BY <1>6 DEF Heads
<1>9. PICK v : v = Joined(u, x, y)
  OBVIOUS
<1>10. /\ Tiled(v, A)
       /\ \A c \in Addrs : v[c] = IF c = x THEN u[x] + u[y] ELSE IF c = y THEN 0 ELSE u[c]
  BY <1>3, <1>7, <1>8, <1>9, TilesJoin
<1>11. PICK my : my = Removed(nx, x, y)
  OBVIOUS
<1>12. Ring(my, M)
  BY <1>3, <1>5, <1>7, <1>11, RingRemove
<1>13. r.units = v /\ r.next = my /\ r.slobfree = h.slobfree /\ r \in Lists
  <2>1. r = [units |-> v, next |-> my, slobfree |-> h.slobfree]
    BY <1>1, <1>2, <1>9, <1>11 DEF Join
  <2>2. v \in [Addrs -> Nat] /\ my \in [Addrs -> Addrs] /\ h.slobfree \in Addrs
    BY <1>3, <1>5, <1>10, <1>12 DEF Tiled, Ring
  <2>3. QED
    BY <2>1, <2>2 DEF Lists
<1>14. x # 0
  <2>1. y \in A
    <3>1. y <= y /\ y < y + u[y]
      BY <1>6
    <3>2. QED
      BY <1>3, <1>6, <3>1 DEF Tiled
  <2>2. QED
    BY <1>3, <1>7, <2>1
<1>15. v[0] = 1
  <2>1. 0 # x /\ 0 # y
    BY <1>7, <1>14
  <2>2. QED
    BY <1>3, <1>4, <1>10, <2>1
<1>16. \A c \in M : v[c] > 0
  <2>1. ASSUME NEW c \in M
        PROVE  v[c] > 0
    <3>1. c \in Addrs /\ c # y /\ u[c] > 0
      BY <1>3, <1>5
    <3>2. v[c] = IF c = x THEN u[x] + u[y] ELSE u[c]
      BY <1>10, <3>1
    <3>3. QED
      BY <1>6, <3>1, <3>2
  <2>2. QED
    BY <2>1
<1>17. HeapBut(r, M, A)
  BY <1>3, <1>10, <1>12, <1>13, <1>15, <1>16 DEF HeapBut
<1>18. SameHeld(h, L, r, M)
  <2>1. HeldBy(h, L) = {c \in Addrs : u[c] > 0} \ L
    BY <1>1 DEF HeldBy, Heads
  <2>2. HeldBy(r, M) = {c \in Addrs : v[c] > 0} \ M
    BY <1>13 DEF HeldBy, Heads
  <2>3. \A c \in Addrs \ {x, y} : v[c] = u[c]
    BY <1>10
  <2>4. v[y] = 0
    BY <1>6, <1>7, <1>10
  <2>5. x \in L /\ y \in L /\ x \in M
    BY <1>5, <1>7, <1>6
  <2>6. \A c \in Addrs : c \in HeldBy(r, M) <=> c \in HeldBy(h, L)
    <3>1. ASSUME NEW c \in Addrs
          PROVE  c \in HeldBy(r, M) <=> c \in HeldBy(h, L)
      <4>1. CASE c = x
        BY <2>1, <2>2, <2>5, <4>1
      <4>2. CASE c = y
        BY <2>1, <2>2, <2>4, <2>5, <4>2
      <4>3. CASE c # x /\ c # y
        BY <2>1, <2>2, <2>3, <4>3
      <4>4. QED
        BY <4>1, <4>2, <4>3
    <3>2. QED
      BY <3>1
  <2>7. HeldBy(h, L) \subseteq Addrs /\ HeldBy(r, M) \subseteq Addrs
    BY <2>1, <2>2
  <2>8. HeldBy(r, M) = HeldBy(h, L)
    BY <2>6, <2>7
  <2>9. \A c \in HeldBy(h, L) : v[c] = u[c]
    BY <2>1, <2>3, <2>5
  <2>10. QED
    BY <1>1, <1>13, <2>8, <2>9 DEF SameHeld
<1>19. Loose(v, M) \subseteq Loose(u, L) \ {x}
  <2>1. ASSUME NEW c \in M, c + v[c] \in M
        PROVE  c # x /\ c + u[c] \in L
    <3>1. c # x
      <4>1. ASSUME c = x
            PROVE  FALSE
        <5>1. v[x] = u[x] + u[y]
          BY <1>6, <1>10
        <5>2. x + v[x] = y + u[y]
          BY <1>6, <1>7, <5>1
        <5>3. y + u[y] \in L
          BY <2>1, <4>1, <5>2
        <5>4. QED
          BY <1>1, <1>5, <5>3 DEF Loose
      <4>2. QED
        BY <4>1
    <3>2. v[c] = u[c]
      BY <1>5, <1>10, <3>1
    <3>3. QED
      BY <2>1, <3>1, <3>2
  <2>2. QED
    BY <2>1 DEF Loose
<1>20. QED
  BY <1>1, <1>10, <1>13, <1>14, <1>17, <1>18, <1>19

\* The list with b put behind cur.
PutBehind(h, cur, b) ==
    [units |-> h.units, next |-> Inserted(h.next, cur, b), slobfree |-> cur]

\* Only b and the block before it may touch the next one now.
Touches(u, nx, M, cur, b) ==
    \A c \in Loose(u, M) : \/ c = b /\ b + u[b] = nx[cur]
                           \/ c = cur /\ cur + u[cur] = b

PutBetween(my, nx, cur, b) ==
    \A c \in Addrs : my[c] = IF c = cur THEN b ELSE IF c = b THEN nx[cur] ELSE nx[c]

\* A block put on the list may touch the one before it and the one behind it.
LEMMA PutKeeps ==
  ASSUME NEW h, NEW L, NEW A, HeapInv(h, L, A), NEW b \in HeldBy(h, L),
         NEW cur, Below(h.next, L, cur, b),
         NEW r, r = PutBehind(h, cur, b), NEW M, M = L \cup {b}
  PROVE  /\ HeapBut(r, M, A) /\ HeldBy(r, M) = HeldBy(h, L) \ {b}
         /\ Touches(h.units, h.next, M, cur, b)
         /\ cur \in L /\ cur < b /\ PutBetween(r.next, h.next, cur, b)
<1>1. PICK u : u = h.units
  OBVIOUS
<1>2. PICK nx : nx = h.next
  OBVIOUS
<1>3. /\ h \in Lists /\ Tiled(u, A) /\ Ring(nx, L) /\ \A c \in L : u[c] > 0
      /\ u[0] = 1 /\ 1 \notin A /\ Spaced(u, L)
  BY <1>1, <1>2 DEF HeapInv
<1>4. Top \in Nat /\ Addrs = 0 .. Top - 1 /\ 0 \in Addrs
  BY AddrsAre
<1>5. b \in Addrs /\ b \notin L /\ b \in Heads(u) /\ u[b] > 0
  BY <1>1 DEF HeldBy, Heads
<1>6. /\ u \in [Addrs -> Nat] /\ nx \in [Addrs -> Addrs] /\ L \subseteq Addrs /\ 0 \in L
      /\ \A c \in L : nx[c] \in L
  BY <1>3 DEF Tiled, Ring
<1>7. /\ cur \in L /\ cur < b /\ (nx[cur] = 0 \/ b < nx[cur])
      /\ \A x \in L : x < b => x <= cur
  BY <1>2 DEF Below
<1>8. cur \in Nat /\ b \in Nat /\ u[b] \in Nat /\ u[cur] \in Nat /\ u[cur] > 0
  BY <1>3, <1>4, <1>5, <1>6, <1>7
<1>9. PICK my : my = Inserted(nx, cur, b)
  OBVIOUS
<1>10. Ring(my, M)
  BY <1>2, <1>3, <1>5, <1>9, RingInsert
<1>11. r = [units |-> u, next |-> my, slobfree |-> cur]
  BY <1>1, <1>2, <1>9 DEF PutBehind
<1>12. r.units = u /\ r.next = my /\ r.slobfree = cur
  BY <1>11
<1>13. r \in Lists
  BY <1>6, <1>7, <1>10, <1>11 DEF Lists, Ring
<1>14. \A c \in M : u[c] > 0
  BY <1>3, <1>5
<1>15. HeapBut(r, M, A)
  BY <1>3, <1>7, <1>10, <1>12, <1>13, <1>14 DEF HeapBut
<1>16. HeldBy(r, M) = HeldBy(h, L) \ {b}
  BY <1>1, <1>12 DEF HeldBy
<1>17. \A c \in L : c \in Nat /\ u[c] \in Nat /\ c \in Heads(u) /\ c \in Addrs
  BY <1>3, <1>4, <1>6 DEF Heads
<1>18. ASSUME NEW c \in M, c + u[c] \in M
       PROVE  \/ c = b /\ b + u[b] = nx[cur]
              \/ c = cur /\ cur + u[cur] = b
  <2>1. PICK d \in M : d = c + u[c]
    BY <1>18
  <2>2. CASE c = b
    <3>1. b < d /\ d # b
      BY <1>5, <1>8, <2>1, <2>2
    <3>2. d \in L /\ b < d /\ d \in Nat
      BY <1>17, <3>1
    <3>3. cur < d
      BY <1>7, <1>8, <3>2
    <3>4. nx[cur] <= d /\ cur < nx[cur]
      BY <1>3, <1>7, <3>2, <3>3 DEF Ring
    <3>5. b < nx[cur] /\ nx[cur] \in L
      BY <1>6, <1>7, <1>8, <3>4
    <3>6. b + u[b] <= nx[cur]
      BY <1>3, <1>5, <1>17, <3>5, TilesApart
    <3>7. nx[cur] \in Nat
      BY <1>17, <3>5
    <3>8. QED
      BY <1>8, <2>1, <2>2, <3>2, <3>4, <3>6, <3>7
  <2>3. CASE c # b
    <3>1. c \in L /\ c \in Nat /\ u[c] \in Nat /\ u[c] > 0
      BY <1>3, <1>17, <2>3
    <3>2. d = b
      <4>1. ASSUME d \in L
            PROVE  FALSE
        <5>1. c < d
          BY <2>1, <3>1
        <5>2. c + u[c] < d
          BY <1>3, <3>1, <4>1, <5>1 DEF Spaced
        <5>3. QED
          BY <2>1, <3>1, <5>2
      <4>2. QED
        BY <4>1
    <3>3. c <= cur
      <4>1. c < b
        BY <1>8, <2>1, <3>1, <3>2
      <4>2. QED
        BY <1>7, <3>1, <4>1
    <3>4. c = cur
      <4>1. ASSUME c < cur
            PROVE  FALSE
        <5>1. c + u[c] <= cur
          BY <1>3, <1>7, <1>17, <3>1, <4>1, TilesApart
        <5>2. QED
          BY <1>7, <1>8, <2>1, <3>1, <3>2, <5>1
      <4>2. QED
        BY <1>8, <3>1, <3>3, <4>1
    <3>5. QED
      BY <2>1, <3>2, <3>4
  <2>4. QED
    BY <2>2, <2>3
<1>19. \A c \in Loose(u, M) : \/ c = b /\ b + u[b] = nx[cur]
                              \/ c = cur /\ cur + u[cur] = b
  BY <1>18 DEF Loose
<1>20. \A c \in Addrs : my[c] = IF c = cur THEN b ELSE IF c = b THEN nx[cur] ELSE nx[c]
  <2>1. cur # b /\ cur \in Addrs /\ nx[cur] \in Addrs
    BY <1>5, <1>6, <1>7
  <2>2. QED
    BY <1>5, <1>6, <1>9, <2>1 DEF Inserted
<1>21. Touches(u, nx, M, cur, b) /\ PutBetween(my, nx, cur, b)
  BY <1>19, <1>20 DEF Touches, PutBetween
<1>22. QED
  BY <1>1, <1>2, <1>7, <1>12, <1>15, <1>16, <1>21

\* What slob_free leaves, by the neighbours that b touches.
FreedBehind(h, cur, b) ==
    LET after == h.next[cur]
        put == PutBehind(h, cur, b)
        up == IF b + h.units[b] = after THEN Join(put, b, after) ELSE put
    IN  IF cur + h.units[cur] = b THEN Join(up, cur, b) ELSE up

\* slob_free in the terms of this proof.
LEMMA FreeIs ==
  ASSUME NEW h, NEW b, NEW cur, cur = Slob!Before(h, b)
  PROVE  Slob!slob_free(h, b) = FreedBehind(h, cur, b)
<1>1. \A g, x, y : Slob!Joined(g, x, y) = Join(g, x, y)
  BY DEF Slob!Joined, Join, Joined, Removed
<1>2. QED
  BY <1>1 DEF Slob!slob_free, FreedBehind, PutBehind, Inserted

\* b is free in r, where the blocks M are, and no other one has changed hands.
Frees(h, L, r, M, b) ==
    /\ HeldBy(r, M) = HeldBy(h, L) \ {b}
    /\ \A c \in HeldBy(r, M) : r.units[c] = h.units[c]
    /\ HasRoom(r, M, h.units[b])

\* slob_free gives back the block that it is told to, and no other.
LEMMA FreeKeeps ==
  ASSUME NEW h, NEW L, NEW A, HeapInv(h, L, A), NEW b \in HeldBy(h, L),
         NEW r, r = Slob!slob_free(h, b)
  PROVE  \E M : HeapInv(r, M, A) /\ Frees(h, L, r, M, b)
<1>1. PICK u : u = h.units
  OBVIOUS
<1>2. PICK nx : nx = h.next
  OBVIOUS
<1>3. /\ h \in Lists /\ Tiled(u, A) /\ Ring(nx, L) /\ h.slobfree \in L
  BY <1>1, <1>2 DEF HeapInv
<1>4. b \in Addrs \ L /\ u[b] > 0 /\ u \in [Addrs -> Nat] /\ L \subseteq Addrs
  BY <1>1, <1>3 DEF HeldBy, Heads, Ring, Tiled
<1>5. PICK cur : cur = Slob!Before(h, b)
  OBVIOUS
<1>6. Below(nx, L, cur, b)
  BY <1>2, <1>3, <1>4, <1>5, BeforeIs
<1>7. r = FreedBehind(h, cur, b)
  BY <1>5, FreeIs
<1>8. PICK put : put = PutBehind(h, cur, b)
  OBVIOUS
<1>9. PICK K : K = L \cup {b}
  OBVIOUS
<1>10. PICK after : after = nx[cur]
  OBVIOUS
<1>11. /\ HeapBut(put, K, A) /\ HeldBy(put, K) = HeldBy(h, L) \ {b}
       /\ cur \in L /\ cur < b
  BY <1>2, <1>6, <1>8, <1>9, PutKeeps
<1>12. \A c \in Loose(u, K) : \/ c = b /\ b + u[b] = after
                              \/ c = cur /\ cur + u[cur] = b
  <2>1. Touches(u, nx, K, cur, b)
    BY <1>1, <1>2, <1>6, <1>8, <1>9, PutKeeps
  <2>2. QED
    BY <1>10, <2>1 DEF Touches
<1>13. \A c \in Addrs : put.next[c] = IF c = cur THEN b ELSE IF c = b THEN after ELSE nx[c]
  <2>1. PutBetween(put.next, nx, cur, b)
    BY <1>2, <1>6, <1>8, <1>9, PutKeeps
  <2>2. QED
    BY <1>10, <2>1 DEF PutBetween
<1>14. put.units = u /\ put.slobfree = cur
  BY <1>1, <1>8 DEF PutBehind
<1>15. /\ cur \in Addrs /\ cur \in Nat /\ b \in Nat /\ u[b] \in Nat /\ u[cur] \in Nat
       /\ after \in Addrs /\ after \in Nat /\ after \in L
       /\ (after = 0 \/ b < after) /\ cur # b
  <2>1. cur \in Addrs /\ after \in L
    BY <1>3, <1>4, <1>10, <1>11 DEF Ring
  <2>2. after = 0 \/ b < after
    BY <1>6, <1>10 DEF Below
  <2>3. Addrs \subseteq Nat
    BY AddrsAre
  <2>4. QED
    BY <1>4, <1>11, <2>1, <2>2, <2>3
<1>16. put.next[cur] = b /\ put.next[b] = after
  BY <1>4, <1>13, <1>15
<1>17. PICK up : up = IF b + u[b] = after THEN Join(put, b, after) ELSE put
  OBVIOUS
<1>18. PICK J : J = IF b + u[b] = after THEN K \ {after} ELSE K
  OBVIOUS
<1>19. /\ HeapBut(up, J, A) /\ SameHeld(put, K, up, J)
       /\ Loose(up.units, J) \subseteq Loose(u, K) \ {b}
       /\ up.units[b] >= u[b] /\ up.units[b] \in Nat
       /\ up.units[cur] = u[cur] /\ up.next[cur] = b /\ up.slobfree = cur
       /\ cur \in J /\ b \in J
  <2>1. CASE b + u[b] = after
    <3>1. b < after /\ after # cur /\ after # b
      BY <1>4, <1>11, <1>15, <2>1
    <3>2. after \notin Loose(u, K)
      BY <1>12, <3>1
    <3>3. b \in K /\ b + put.units[b] = after /\ put.slobfree # after
      BY <1>9, <1>14, <2>1, <3>1
    <3>4. up = Join(put, b, after) /\ J = K \ {after}
      BY <1>17, <1>18, <2>1
    <3>5. /\ HeapBut(up, J, A) /\ SameHeld(put, K, up, J)
          /\ Loose(up.units, J) \subseteq Loose(u, K) \ {b}
      BY <1>11, <1>14, <1>16, <3>2, <3>3, <3>4, JoinKeeps
    <3>6. \A c \in Addrs : up.units[c] = IF c = b THEN u[b] + u[after]
                                         ELSE IF c = after THEN 0 ELSE u[c]
      BY <1>11, <1>14, <1>16, <3>2, <3>3, <3>4, JoinKeeps
    <3>7. up.units[b] = u[b] + u[after] /\ up.units[cur] = u[cur] /\ u[after] \in Nat
      BY <1>4, <1>15, <3>1, <3>6
    <3>8. up.next[cur] = b /\ up.slobfree = cur
      <4>1. up.next = Removed(put.next, b, after) /\ up.slobfree = cur
        BY <1>14, <3>4 DEF Join
      <4>2. put.next \in [Addrs -> Addrs]
        BY <1>11 DEF HeapBut, Ring
      <4>3. QED
        BY <1>15, <1>16, <3>1, <4>1, <4>2 DEF Removed
    <3>9. cur \in J /\ b \in J
      BY <1>9, <1>11, <3>1, <3>4
    <3>10. QED
      BY <1>15, <3>5, <3>7, <3>8, <3>9
  <2>2. CASE b + u[b] # after
    <3>1. up = put /\ J = K
      BY <1>17, <1>18, <2>2
    <3>2. b \notin Loose(u, K)
      BY <1>12, <1>15, <2>2
    <3>3. SameHeld(put, K, put, K)
      BY DEF SameHeld
    <3>4. QED
      BY <1>9, <1>11, <1>14, <1>15, <1>16, <3>1, <3>2, <3>3
  <2>3. QED
    BY <2>1, <2>2
<1>20. CASE cur + u[cur] = b
  <2>1. r = Join(up, cur, b)
    BY <1>1, <1>2, <1>7, <1>8, <1>10, <1>17, <1>20 DEF FreedBehind
  <2>2. PICK M : M = J \ {b}
    OBVIOUS
  <2>3. cur + up.units[cur] = b /\ b \notin Loose(up.units, J) /\ up.slobfree # b
    BY <1>15, <1>19, <1>20
  <2>4. /\ HeapBut(r, M, A) /\ SameHeld(up, J, r, M)
        /\ Loose(r.units, M) \subseteq Loose(up.units, J) \ {cur}
    <3>1. HeapBut(up, J, A) /\ cur \in J /\ b = up.next[cur]
      BY <1>19
    <3>2. QED
      BY <2>1, <2>2, <2>3, <3>1, JoinKeeps
  <2>5. r.units[cur] = up.units[cur] + up.units[b]
    <3>1. \A c \in Addrs : r.units[c] = IF c = cur THEN up.units[cur] + up.units[b]
                                        ELSE IF c = b THEN 0 ELSE up.units[c]
      BY <1>19, <2>1, <2>2, <2>3, JoinKeeps
    <3>2. QED
      BY <1>15, <3>1
  <2>6. Loose(r.units, M) = {}
    <3>1. \A c \in Loose(r.units, M) : c \in Loose(u, K) /\ c # b /\ c # cur
      BY <1>19, <2>4
    <3>2. QED
      BY <1>12, <3>1
  <2>7. Spaced(r.units, M)
    BY <2>4, <2>6, LooseApart
  <2>8. HeapInv(r, M, A)
    BY <2>4, <2>7 DEF HeapInv, HeapBut
  <2>9. HasRoom(r, M, u[b])
    <3>1. cur \in M
      BY <1>15, <1>19, <2>2
    <3>2. r.units[cur] >= u[b]
      BY <1>15, <1>19, <2>5
    <3>3. QED
      BY <3>1, <3>2 DEF HasRoom
  <2>10. Frees(h, L, r, M, b)
    <3>1. HeldBy(r, M) = HeldBy(put, K) /\ \A c \in HeldBy(put, K) : r.units[c] = u[c]
      BY <1>14, <1>19, <2>4 DEF SameHeld
    <3>2. QED
      BY <1>1, <1>11, <2>9, <3>1 DEF Frees
  <2>11. QED
    BY <2>8, <2>10
<1>21. CASE cur + u[cur] # b
  <2>1. r = up
    BY <1>1, <1>2, <1>7, <1>8, <1>10, <1>17, <1>21 DEF FreedBehind
  <2>2. Loose(r.units, J) = {}
    <3>1. \A c \in Loose(r.units, J) : c \in Loose(u, K) /\ c # b
      BY <1>19, <2>1
    <3>2. QED
      BY <1>12, <1>21, <3>1
  <2>3. Spaced(r.units, J)
    BY <1>19, <2>1, <2>2, LooseApart
  <2>4. HeapInv(r, J, A)
    BY <1>19, <2>1, <2>3 DEF HeapInv, HeapBut
  <2>5. HasRoom(r, J, u[b])
    BY <1>19, <2>1 DEF HasRoom
  <2>6. Frees(h, L, r, J, b)
    <3>1. HeldBy(r, J) = HeldBy(put, K) /\ \A c \in HeldBy(put, K) : r.units[c] = u[c]
      BY <1>14, <1>19, <2>1 DEF SameHeld
    <3>2. QED
      BY <1>1, <1>11, <2>5, <3>1 DEF Frees
  <2>7. QED
    BY <2>4, <2>6
<1>22. QED
  BY <1>20, <1>21

-----------------------------------------------------------------------------
(* The sizes of blocks, and the pages of the heap.                         *)

\* The quotient, rounded up, is the least number that is enough.
LEMMA DivUp ==
  ASSUME NEW k \in Nat \ {0}, NEW x \in Nat, NEW n, n = (x + k - 1) \div k
  PROVE  /\ n \in Nat /\ x <= n * k
         /\ \A m \in Nat : x <= m * k => n <= m
         /\ k < x => n > 1
<1>1. PICK y \in Nat : y = x + k - 1
  OBVIOUS
<1>2. n \in Nat
  BY <1>1
<1>3. PICK p \in Nat : p = n * k
  BY <1>2
<1>4. p <= y /\ y < p + k
  BY <1>1, <1>2, <1>3
<1>5. x <= p
  BY <1>1, <1>3, <1>4
<1>6. ASSUME NEW m \in Nat, x <= m * k
      PROVE  n <= m
  <2>1. ASSUME m < n
        PROVE  FALSE
    <3>1. PICK q \in Nat : q = m * k
      OBVIOUS
    <3>2. q + k <= p
      BY <1>2, <1>3, <2>1, <3>1
    <3>3. QED
      BY <1>1, <1>4, <1>6, <3>1, <3>2
  <2>2. QED
    BY <1>2, <2>1
<1>7. ASSUME k < x
      PROVE  n > 1
  <2>1. ASSUME n <= 1
        PROVE  FALSE
    <3>1. p <= k
      BY <1>2, <1>3, <2>1
    <3>2. QED
      BY <1>5, <1>7, <3>1
  <2>2. QED
    BY <1>2, <2>1
<1>8. QED
  BY <1>2, <1>3, <1>5, <1>6, <1>7

BigUnits == Slob!SLOB_UNITS(BigblockSize)
SmallUnits(size) == Slob!SLOB_UNITS(size + SLOB_UNIT)

\* The units of a page and of a bigblock_t.
LEMMA BlockUnits ==
  /\ Slob!SLOB_UNITS(Slob!PAGE_SIZE) = PageUnits
  /\ BigUnits \in Nat /\ BigUnits > 1 /\ BigUnits <= PageUnits
<1>1. PICK z \in Nat : z = PageUnits * SLOB_UNIT
  BY SlobConstants
<1>2. Slob!PAGE_SIZE = z /\ BigblockSize <= z
  BY <1>1, SlobConstants DEF Slob!PAGE_SIZE
<1>3. PICK n : n = (z + SLOB_UNIT - 1) \div SLOB_UNIT
  OBVIOUS
<1>4. n \in Nat /\ z <= n * SLOB_UNIT /\ n <= PageUnits
  <2>1. /\ n \in Nat /\ z <= n * SLOB_UNIT
        /\ \A m \in Nat : z <= m * SLOB_UNIT => n <= m
    BY <1>3, SlobConstants, DivUp
  <2>2. PageUnits \in Nat /\ z <= PageUnits * SLOB_UNIT
    BY <1>1, SlobConstants
  <2>3. QED
    BY <2>1, <2>2
<1>5. n = PageUnits
  <2>1. ASSUME n < PageUnits
        PROVE  FALSE
    <3>1. n * SLOB_UNIT + SLOB_UNIT <= z
      BY <1>1, <1>4, <2>1, SlobConstants
    <3>2. QED
      BY <1>4, <3>1, SlobConstants
  <2>2. QED
    BY <1>4, <2>1, SlobConstants
<1>6. BigUnits = (BigblockSize + SLOB_UNIT - 1) \div SLOB_UNIT
  BY DEF BigUnits, Slob!SLOB_UNITS
<1>7. BigUnits \in Nat /\ BigUnits > 1 /\ BigUnits <= PageUnits
  BY <1>1, <1>2, <1>6, SlobConstants, DivUp
<1>8. QED
  BY <1>2, <1>3, <1>5, <1>7 DEF Slob!SLOB_UNITS

\* The units of a small object, with its header.
LEMMA SmallUnitsAre ==
  ASSUME NEW size \in Sizes
  PROVE  /\ SmallUnits(size) \in Nat /\ SmallUnits(size) > 1
         /\ size + SLOB_UNIT <= SmallUnits(size) * SLOB_UNIT
         /\ Slob!Accepts(size + SLOB_UNIT) => SmallUnits(size) <= PageUnits
<1>1. PICK x \in Nat : x = size + SLOB_UNIT
  BY SlobConstants
<1>2. SLOB_UNIT < x
  BY <1>1, SlobConstants
<1>3. SmallUnits(size) = (x + SLOB_UNIT - 1) \div SLOB_UNIT
  BY <1>1 DEF SmallUnits, Slob!SLOB_UNITS
<1>4. PICK z \in Nat : z = PageUnits * SLOB_UNIT
  BY SlobConstants
<1>5. Slob!Accepts(size + SLOB_UNIT) => x <= z
  BY <1>1, <1>4, SlobConstants DEF Slob!Accepts, Slob!PAGE_SIZE
<1>6. QED
  BY <1>1, <1>2, <1>3, <1>4, <1>5, SlobConstants, DivUp

HeapPage == 1 .. HeapPages
PageOf(p) == Slob!Units(Slob!PageAt(p), PageUnits)

\* The units of a page.
LEMMA PageIs ==
  ASSUME NEW p \in HeapPage
  PROVE  /\ p \in Nat /\ p > 0 /\ Slob!PageAt(p) \in Addrs /\ Slob!PageAt(p) \in Nat
         /\ PageUnits <= Slob!PageAt(p) /\ Slob!PageAt(p) + PageUnits <= Top
         /\ PageOf(p) = Slob!PageAt(p) .. Slob!PageAt(p) + PageUnits - 1
         /\ Slob!PageAt(p) \div PageUnits = p
<1>1. /\ p \in Nat /\ p > 0 /\ p <= HeapPages
      /\ HeapPages \in Nat /\ PageUnits \in Nat /\ PageUnits > 1
  BY SlobConstants DEF HeapPage
<1>2. PICK x \in Nat : x = p * PageUnits
  BY <1>1
<1>3. PICK y \in Nat : y = HeapPages * PageUnits
  BY <1>1
<1>4. PageUnits <= x /\ x <= y
  BY <1>1, <1>2, <1>3
<1>5. Top = y + PageUnits
  BY <1>1, <1>3 DEF Top
<1>6. x \div PageUnits = p
  BY <1>1, <1>2
<1>7. Slob!PageAt(p) = x
  BY <1>2 DEF Slob!PageAt
<1>8. QED
  BY <1>1, <1>4, <1>5, <1>6, <1>7, AddrsAre DEF PageOf, Slob!Units

\* Pages follow each other.
LEMMA PagesApart ==
  ASSUME NEW p \in Nat, NEW q \in Nat, p < q
  PROVE  Slob!PageAt(p) + PageUnits <= Slob!PageAt(q)
<1>1. PageUnits \in Nat
  BY SlobConstants
<1>2. QED
  BY <1>1 DEF Slob!PageAt

\* The units of the heap: the arena, and the pages P.
Area(P) == {0} \cup UNION {PageOf(p) : p \in P}

\* Pages that the heap does not have are not in its area.
LEMMA AreaIs ==
  ASSUME NEW P \in SUBSET HeapPage
  PROVE  1 \notin Area(P) /\ \A q \in HeapPage \ P : Area(P) \cap PageOf(q) = {}
<1>1. PageUnits \in Nat /\ PageUnits > 1
  BY SlobConstants
<1>2. ASSUME NEW p \in P
      PROVE  1 \notin PageOf(p)
  <2>1. QED
    BY <1>1, PageIs
<1>3. 1 \notin Area(P)
  BY <1>2 DEF Area
<1>4. ASSUME NEW q \in HeapPage \ P, NEW x \in Area(P), x \in PageOf(q)
      PROVE  FALSE
  <2>1. x \in Nat /\ x >= Slob!PageAt(q) /\ x < Slob!PageAt(q) + PageUnits
        /\ Slob!PageAt(q) \in Nat /\ PageUnits <= Slob!PageAt(q) /\ q \in Nat
    BY <1>1, <1>4, PageIs
  <2>2. PICK p \in P : x \in PageOf(p)
    BY <1>1, <1>4, <2>1 DEF Area
  <2>3. x >= Slob!PageAt(p) /\ x < Slob!PageAt(p) + PageUnits /\ Slob!PageAt(p) \in Nat
        /\ p \in Nat
    BY <1>1, <2>1, <2>2, PageIs
  <2>4. CASE p < q
    <3>1. Slob!PageAt(p) + PageUnits <= Slob!PageAt(q)
      BY <2>1, <2>3, <2>4, PagesApart
    <3>2. QED
      BY <1>1, <2>1, <2>3, <3>1
  <2>5. CASE q < p
    <3>1. Slob!PageAt(q) + PageUnits <= Slob!PageAt(p)
      BY <2>1, <2>3, <2>5, PagesApart
    <3>2. QED
      BY <1>1, <2>1, <2>3, <3>1
  <2>6. QED
    BY <2>1, <2>3, <2>4, <2>5
<1>5. QED
  BY <1>3, <1>4

-----------------------------------------------------------------------------
(* The heap gets a page, and slob_alloc takes what it finds.               *)

\* A page becomes a free block of the heap, large enough for any request.
LEMMA GrowKeeps ==
  ASSUME NEW h, NEW L, NEW P \in SUBSET HeapPage, HeapInv(h, L, Area(P)),
         NEW p \in HeapPage \ P, NEW Q, Q = P \cup {p},
         NEW r, r = Slob!Freed(h, Slob!PageAt(p), Slob!PAGE_SIZE)
  PROVE  \E M : HeapInv(r, M, Area(Q)) /\ SameHeld(h, L, r, M) /\ HasRoom(r, M, PageUnits)
<1>1. PICK u : u = h.units
  OBVIOUS
<1>2. PICK nx : nx = h.next
  OBVIOUS
<1>3. PICK A : A = Area(P)
  OBVIOUS
<1>4. PICK B : B = PageOf(p)
  OBVIOUS
<1>5. PICK s : s = Slob!PageAt(p)
  OBVIOUS
<1>6. /\ h \in Lists /\ Tiled(u, A) /\ Ring(nx, L) /\ Spaced(u, L) /\ \A b \in L : u[b] > 0
      /\ u[0] = 1 /\ 1 \notin A /\ h.slobfree \in L
  BY <1>1, <1>2, <1>3 DEF HeapInv
<1>7. /\ s \in Addrs /\ s \in Nat /\ PageUnits <= s /\ s + PageUnits <= Top
      /\ B = s .. s + PageUnits - 1
  BY <1>4, <1>5, PageIs
<1>8. PageUnits \in Nat /\ PageUnits > 1
  BY SlobConstants
<1>9. A \cap B = {}
  BY <1>3, <1>4, AreaIs
<1>10. Area(Q) = A \cup B
  BY <1>3, <1>4 DEF Area
<1>11. PICK v : v = Headed(u, s)
  OBVIOUS
<1>12. /\ Tiled(v, A \cup B) /\ u[s] = 0
       /\ \A c \in Addrs : v[c] = IF c = s THEN PageUnits ELSE u[c]
  <2>1. B = Slob!Units(s, PageUnits)
    BY <1>4, <1>5 DEF PageOf
  <2>2. Tiled(u, A) /\ s \in Addrs /\ s + PageUnits <= Top
    BY <1>6, <1>7
  <2>3. QED
    BY <1>9, <1>11, <2>1, <2>2, TilesGrow
<1>13. PICK g : g = [units |-> v, next |-> nx, slobfree |-> h.slobfree]
  OBVIOUS
<1>14. g.units = v /\ g.next = nx /\ g.slobfree = h.slobfree
  BY <1>13
<1>15. r = Slob!slob_free(g, s)
  <2>1. PICK k : k = PageUnits
    OBVIOUS
  <2>2. g = [h EXCEPT !.units[s] = k]
    <3>1. h = [units |-> u, next |-> nx, slobfree |-> h.slobfree]
      BY <1>1, <1>2, <1>6, ListFields
    <3>2. QED
      BY <1>1, <1>11, <1>13, <2>1, <3>1 DEF Headed
  <2>3. Slob!SLOB_UNITS(Slob!PAGE_SIZE) = k
    BY <2>1, BlockUnits
  <2>4. QED
    BY <1>5, <2>2, <2>3 DEF Slob!Freed
<1>16. s \notin L /\ L \subseteq Addrs /\ \A b \in L : v[b] = u[b]
  <2>1. s \notin L /\ L \subseteq Addrs
    BY <1>6, <1>12 DEF Ring
  <2>2. QED
    BY <1>12, <2>1
<1>17. HeapInv(g, L, A \cup B)
  <2>1. Spaced(v, L)
    BY <1>6, <1>16 DEF Spaced
  <2>2. \A b \in L : v[b] > 0
    BY <1>6, <1>16
  <2>3. v[0] = 1
    <3>1. 0 # s
      BY <1>7, <1>8
    <3>2. QED
      BY <1>6, <1>12, <3>1, AddrsAre
  <2>4. 1 \notin A \cup B
    <3>1. 1 \notin B
      BY <1>7, <1>8
    <3>2. QED
      BY <1>6, <3>1
  <2>5. g \in Lists
    <3>1. v \in [Addrs -> Nat] /\ nx \in [Addrs -> Addrs] /\ h.slobfree \in Addrs
      BY <1>6, <1>12, <1>16 DEF Tiled, Ring
    <3>2. QED
      BY <1>13, <3>1 DEF Lists
  <2>6. QED
    BY <1>6, <1>12, <1>14, <2>1, <2>2, <2>3, <2>4, <2>5 DEF HeapInv
<1>18. HeldBy(g, L) = HeldBy(h, L) \cup {s} /\ s \notin HeldBy(h, L)
  <2>1. HeldBy(h, L) = {c \in Addrs : u[c] > 0} \ L
    BY <1>1 DEF HeldBy, Heads
  <2>2. HeldBy(g, L) = {c \in Addrs : v[c] > 0} \ L
    BY <1>14 DEF HeldBy, Heads
  <2>3. v[s] > 0 /\ \A c \in Addrs \ {s} : v[c] = u[c]
    BY <1>7, <1>8, <1>12
  <2>4. s \in HeldBy(g, L) /\ s \notin HeldBy(h, L)
    BY <1>7, <1>12, <1>16, <2>1, <2>2, <2>3
  <2>5. \A c \in Addrs \ {s} : c \in HeldBy(g, L) <=> c \in HeldBy(h, L)
    BY <2>1, <2>2, <2>3
  <2>6. HeldBy(h, L) \subseteq Addrs /\ HeldBy(g, L) \subseteq Addrs
    BY <2>1, <2>2
  <2>7. QED
    BY <2>4, <2>5, <2>6
<1>19. PICK M : HeapInv(r, M, A \cup B) /\ Frees(g, L, r, M, s)
  <2>1. s \in HeldBy(g, L)
    BY <1>18
  <2>2. QED
    BY <1>15, <1>17, <2>1, FreeKeeps
<1>20. HeldBy(r, M) = HeldBy(h, L) /\ HasRoom(r, M, PageUnits)
  <2>1. g.units[s] = PageUnits
    BY <1>7, <1>12, <1>14
  <2>2. QED
    BY <1>18, <1>19, <2>1 DEF Frees
<1>21. \A c \in HeldBy(h, L) : r.units[c] = u[c]
  <2>1. \A c \in HeldBy(h, L) : r.units[c] = v[c]
    BY <1>14, <1>19, <1>20 DEF Frees
  <2>2. \A c \in HeldBy(h, L) : c \in Addrs /\ c # s
    BY <1>18 DEF HeldBy, Heads
  <2>3. QED
    BY <1>12, <2>1, <2>2
<1>22. SameHeld(h, L, r, M)
  BY <1>1, <1>20, <1>21 DEF SameHeld
<1>23. QED
  BY <1>10, <1>19, <1>20, <1>22

\* What a call of slob_alloc did: the pages P of the heap became Q.
Allocs(h, L, r, M, Q, n) ==
    /\ HeapInv(r.heap, M, Area(Q)) /\ Takes(h, L, r.heap, M, r.at, n)
    /\ \A x \in Addrs : r.at <= x /\ x < r.at + n => x \in Area(Q)
    /\ r.at \in Addrs

\* slob_alloc, when a free block has room.
LEMMA TakeFrom ==
  ASSUME NEW h, NEW L, NEW A, HeapInv(h, L, A), NEW n \in Nat, n > 1, HasRoom(h, L, n)
  PROVE  \E M : /\ HeapInv(Slob!Take(h, n), M, A)
                /\ Takes(h, L, Slob!Take(h, n), M, Slob!Taken(h, n), n)
                /\ \A x \in Addrs : Slob!Taken(h, n) <= x /\ x < Slob!Taken(h, n) + n => x \in A
<1>1. h.slobfree \in L /\ Ring(h.next, L)
  BY DEF HeapInv
<1>2. PICK prev \in L : /\ Slob!Taken(h, n) = h.next[prev]
                        /\ h.units[h.next[prev]] >= n
                        /\ Slob!Take(h, n) = TakenBehind(h, prev, n)
  BY <1>1, RoomIs
<1>3. PICK cur : cur = h.next[prev]
  OBVIOUS
<1>4. PICK r : r = TakenBehind(h, prev, n)
  OBVIOUS
<1>5. h.units[cur] >= n
  BY <1>2, <1>3
<1>6. /\ \E M : HeapInv(r, M, A) /\ Takes(h, L, r, M, cur, n)
      /\ \A x \in Addrs : cur <= x /\ x < cur + n => x \in A
  BY <1>3, <1>4, <1>5, TakeKeeps
<1>7. Slob!Taken(h, n) = cur /\ Slob!Take(h, n) = r
  BY <1>2, <1>3, <1>4
<1>8. QED
  BY <1>6, <1>7

\* slob_alloc, whether or not it must ask for a page.
LEMMA AllocKeeps ==
  ASSUME NEW h, NEW L, NEW P \in SUBSET HeapPage, HeapInv(h, L, Area(P)),
         NEW ps \in SUBSET HeapPage, ps \cap P = {},
         NEW n \in Nat, n > 1, n <= PageUnits, NEW r \in Slob!slob_alloc(h, ps, n)
  PROVE  \/ r.at = None /\ r.heap = h /\ r.pages = ps
         \/ /\ r.pages \subseteq ps /\ (r.pages # ps => ~HasRoom(h, L, n))
            /\ \E M : Allocs(h, L, r, M, P \cup (ps \ r.pages), n)
<1>1. h.slobfree \in L /\ Ring(h.next, L)
  BY DEF HeapInv
<1>2. Slob!Room(h, n) # {} <=> HasRoom(h, L, n)
  BY <1>1, RoomIs
<1>3. CASE Slob!Room(h, n) # {}
  <2>1. r = [heap |-> Slob!Take(h, n), pages |-> ps, at |-> Slob!Taken(h, n)]
    BY <1>3 DEF Slob!slob_alloc
  <2>2. r.heap = Slob!Take(h, n) /\ r.pages = ps /\ r.at = Slob!Taken(h, n)
    BY <2>1
  <2>3. PICK M : /\ HeapInv(r.heap, M, Area(P)) /\ Takes(h, L, r.heap, M, r.at, n)
                 /\ \A x \in Addrs : r.at <= x /\ x < r.at + n => x \in Area(P)
    BY <1>2, <1>3, <2>2, TakeFrom
  <2>4. P \cup (ps \ r.pages) = P
    BY <2>2
  <2>5. r.at \in Addrs
    BY <2>3 DEF Takes
  <2>6. Allocs(h, L, r, M, P \cup (ps \ r.pages), n)
    BY <2>3, <2>4, <2>5 DEF Allocs
  <2>7. QED
    BY <2>2, <2>6
<1>4. CASE Slob!Room(h, n) = {} /\ ps = {}
  <2>1. r = [heap |-> h, pages |-> ps, at |-> None]
    BY <1>4 DEF Slob!slob_alloc
  <2>2. QED
    BY <2>1
<1>5. CASE Slob!Room(h, n) = {} /\ ps # {}
  <2>1. PICK p \in ps : LET more == Slob!Freed(h, Slob!PageAt(p), Slob!PAGE_SIZE)
                        IN  r = [heap |-> Slob!Take(more, n), pages |-> ps \ {p},
                                 at |-> Slob!Taken(more, n)]
    BY <1>5 DEF Slob!slob_alloc
  <2>2. PICK more : more = Slob!Freed(h, Slob!PageAt(p), Slob!PAGE_SIZE)
    OBVIOUS
  <2>3. /\ r.heap = Slob!Take(more, n) /\ r.pages = ps \ {p} /\ r.at = Slob!Taken(more, n)
    BY <2>1, <2>2
  <2>4. PICK Q : Q = P \cup {p}
    OBVIOUS
  <2>5. p \in HeapPage \ P
    OBVIOUS
  <2>6. PICK K : /\ HeapInv(more, K, Area(Q)) /\ SameHeld(h, L, more, K)
                 /\ HasRoom(more, K, PageUnits)
    BY <2>2, <2>4, <2>5, GrowKeeps
  <2>7. HasRoom(more, K, n)
    <3>1. PICK b \in K : more.units[b] >= PageUnits
      BY <2>6 DEF HasRoom
    <3>2. more.units \in [Addrs -> Nat] /\ K \subseteq Addrs /\ PageUnits \in Nat
      BY <2>6, SlobConstants DEF HeapInv, Tiled, Ring
    <3>3. more.units[b] >= n
      BY <3>1, <3>2
    <3>4. QED
      BY <3>3 DEF HasRoom
  <2>8. PICK M : /\ HeapInv(r.heap, M, Area(Q)) /\ Takes(more, K, r.heap, M, r.at, n)
                 /\ \A x \in Addrs : r.at <= x /\ x < r.at + n => x \in Area(Q)
    BY <2>3, <2>6, <2>7, TakeFrom
  <2>9. P \cup (ps \ r.pages) = Q
    BY <2>3, <2>4
  <2>10. Takes(h, L, r.heap, M, r.at, n)
    BY <2>6, <2>8 DEF Takes, SameHeld
  <2>11. r.at \in Addrs
    BY <2>8 DEF Takes
  <2>12. Allocs(h, L, r, M, P \cup (ps \ r.pages), n)
    BY <2>8, <2>9, <2>10, <2>11 DEF Allocs
  <2>13. QED
    BY <1>2, <1>5, <2>3, <2>12
<1>6. QED
  BY <1>3, <1>4, <1>5

-----------------------------------------------------------------------------
(* The heap and what was handed out of it.                                 *)

\* The pages of a big block.
Spans(b) == 2 ^ b.order
Extent(b) == Slob!Pages(b.pages \div PageUnits, b.order)

IsBig(b) ==
    /\ Spans(b) \in Nat /\ Spans(b) > 0
    /\ \E first \in HeapPage : /\ b.pages = Slob!PageAt(first)
                               /\ first + Spans(b) - 1 <= HeapPages

BigAt(b, first) ==
    /\ first \in HeapPage /\ b.pages = Slob!PageAt(first)
    /\ first + Spans(b) - 1 <= HeapPages
    /\ Extent(b) = first .. first + Spans(b) - 1
    /\ first \in Extent(b) /\ Extent(b) \subseteq HeapPage
    /\ Spans(b) \in Nat /\ Spans(b) > 0

\* The pages of a big block are pages of the machine.
LEMMA BigIs ==
  ASSUME NEW b, IsBig(b)
  PROVE  \E first : BigAt(b, first)
<1>1. PICK m \in Nat : m = Spans(b)
  BY DEF IsBig
<1>2. m > 0
  BY <1>1 DEF IsBig
<1>3. PICK first \in HeapPage : b.pages = Slob!PageAt(first) /\ first + m - 1 <= HeapPages
  BY <1>1 DEF IsBig
<1>4. b.pages \div PageUnits = first
  BY <1>3, PageIs
<1>5. Extent(b) = first .. first + m - 1
  BY <1>1, <1>4 DEF Extent, Slob!Pages, Spans
<1>6. first \in Extent(b) /\ Extent(b) \subseteq HeapPage
  BY <1>2, <1>3, <1>5, SlobConstants DEF HeapPage
<1>7. QED
  BY <1>1, <1>2, <1>3, <1>5, <1>6 DEF BigAt

\* The pages that are neither free nor in a big block are the heap's.
Slabs(fp, B) == HeapPage \ (fp \cup UNION {Extent(b) : b \in B})

PagesPart(fp, B) ==
    /\ fp \in SUBSET HeapPage
    /\ \A b \in B : IsBig(b) /\ Extent(b) \cap fp = {}
    /\ \A b, c \in B : b # c => b.bb # c.bb /\ Extent(b) \cap Extent(c) = {}

Blocks == [at : Addrs, size : Sizes]

Big(B, at) == \E b \in B : b.pages = at

Small(B, blk) == {o \in Objects : blk[o] # None /\ ~Big(B, blk[o].at)}

BlocksPart(B, blk) ==
    /\ blk \in [Objects -> Blocks \cup {None}]
    /\ \A o, q \in Objects :
          o # q /\ blk[o] # None /\ blk[q] # None => blk[o].at # blk[q].at
    /\ \A o \in Objects, b \in B :
          blk[o] # None /\ blk[o].at = b.pages
             => blk[o].size <= Spans(b) * Slob!PAGE_SIZE

Header(blk, o) == blk[o].at - 1

\* Each block that is held is a small object's or a bigblock_t.
OwnersPart(h, L, B, blk) ==
    /\ HeldBy(h, L) = {Header(blk, o) : o \in Small(B, blk)} \cup {b.bb : b \in B}
    /\ \A o \in Small(B, blk) : h.units[Header(blk, o)] = SmallUnits(blk[o].size)
    /\ \A o \in Small(B, blk), b \in B : Header(blk, o) # b.bb
    /\ \A b \in B : h.units[b.bb] = BigUnits

ListPart(h, L, fp, B, blk) ==
    HeapInv(h, L, Area(Slabs(fp, B))) /\ OwnersPart(h, L, B, blk)

HeapState(h, fp, B, blk) ==
    PagesPart(fp, B) /\ BlocksPart(B, blk) /\ \E L : ListPart(h, L, fp, B, blk)

\* The start of a page that is not the heap's is not in the heap.
LEMMA PageOutside ==
  ASSUME NEW P \in SUBSET HeapPage, NEW p \in HeapPage \ P
  PROVE  Slob!PageAt(p) \notin Area(P)
<1>1. Slob!PageAt(p) \in PageOf(p)
  BY PageIs, SlobConstants
<1>2. QED
  BY <1>1, AreaIs

\* Nor is the start of a big block in the heap.
LEMMA BigOutside ==
  ASSUME NEW fp, NEW B, PagesPart(fp, B), NEW b \in B
  PROVE  /\ Slabs(fp, B) \in SUBSET HeapPage
         /\ b.pages \notin Area(Slabs(fp, B)) /\ b.pages \in Addrs
<1>1. PICK first : BigAt(b, first)
  BY BigIs DEF PagesPart
<1>2. first \in HeapPage /\ b.pages = Slob!PageAt(first) /\ first \in Extent(b)
  BY <1>1 DEF BigAt
<1>3. Slabs(fp, B) \in SUBSET HeapPage /\ first \notin Slabs(fp, B)
  BY <1>2 DEF Slabs
<1>4. QED
  BY <1>2, <1>3, PageOutside, PageIs

\* The second unit of a block that is held is in the heap.
LEMMA HeldInside ==
  ASSUME NEW h, NEW L, NEW A, HeapInv(h, L, A), NEW x \in HeldBy(h, L), h.units[x] > 1
  PROVE  x \in Nat /\ x + 1 \in A /\ x + 1 \in Addrs
<1>1. PICK u : u = h.units
  OBVIOUS
<1>2. Tiled(u, A)
  BY <1>1 DEF HeapInv
<1>3. x \in Addrs /\ u[x] > 1
  BY <1>1 DEF HeldBy, Heads
<1>4. u[x] \in Nat /\ x \in Nat /\ x + u[x] <= Top
  BY <1>2, <1>3, AddrsAre DEF Tiled
<1>5. PICK y \in Addrs : y = x + 1
  BY <1>3, <1>4, AddrsAre
<1>6. x <= y /\ y < x + u[x] /\ u[x] > 0
  BY <1>3, <1>4, <1>5
<1>7. y \in A
  BY <1>2, <1>3, <1>5, <1>6 DEF Tiled
<1>8. QED
  BY <1>4, <1>5, <1>7

\* So a small object is not where a page begins that is free or in a big block.
LEMMA SmallInside ==
  ASSUME NEW h, NEW L, NEW fp, NEW B, NEW blk, BlocksPart(B, blk), ListPart(h, L, fp, B, blk),
         NEW o \in Small(B, blk)
  PROVE  /\ Header(blk, o) \in HeldBy(h, L) /\ Header(blk, o) \in Addrs
         /\ blk[o] \in Blocks /\ blk[o].size \in Sizes
         /\ h.units[Header(blk, o)] = SmallUnits(blk[o].size)
         /\ blk[o].at \in Area(Slabs(fp, B)) /\ blk[o].at = Header(blk, o) + 1
<1>1. blk[o] \in Blocks /\ o \in Objects
  BY DEF BlocksPart, Small
<1>2. blk[o].at \in Addrs /\ blk[o].size \in Sizes
  BY <1>1 DEF Blocks
<1>3. PICK x : x = Header(blk, o)
  OBVIOUS
<1>4. blk[o].at = x + 1
  BY <1>2, <1>3, AddrsAre DEF Header
<1>5. x \in HeldBy(h, L) /\ h.units[x] = SmallUnits(blk[o].size)
  BY <1>3 DEF ListPart, OwnersPart
<1>6. h.units[x] > 1
  BY <1>2, <1>5, SmallUnitsAre
<1>7. HeapInv(h, L, Area(Slabs(fp, B)))
  BY DEF ListPart
<1>8. x + 1 \in Area(Slabs(fp, B))
  BY <1>5, <1>6, <1>7, HeldInside
<1>9. x \in Addrs
  BY <1>5 DEF HeldBy, Heads
<1>10. QED
  BY <1>1, <1>2, <1>3, <1>4, <1>5, <1>8, <1>9

\* NULL is no address and no block.
LEMMA NoBlock == None \notin Addrs /\ None \notin Blocks
<1>1. None \notin Nat /\ None \notin [at : Nat, size : Nat]
  BY PagingAndHeapAssumption DEF Slob!SlobAssumption
<1>2. Addrs \subseteq Nat /\ Sizes \subseteq Nat
  BY AddrsAre, SlobConstants
<1>3. Blocks \subseteq [at : Nat, size : Nat]
  BY <1>2 DEF Blocks
<1>4. QED
  BY <1>1, <1>2, <1>3

WithBlock(blk, o, x) == [blk EXCEPT ![o] = x]

\* The blocks of the other objects stay.
LEMMA BlockSet ==
  ASSUME NEW B, NEW blk, BlocksPart(B, blk), NEW o \in Objects, NEW x,
         NEW new, new = WithBlock(blk, o, x)
  PROVE  new[o] = x /\ \A q \in Objects : q # o => new[q] = blk[q]
BY DEF BlocksPart, WithBlock

\* The heap has the pages that were free and are not.
LEMMA SlabsGrow ==
  ASSUME NEW fp, NEW B, PagesPart(fp, B), NEW fq \in SUBSET fp
  PROVE  PagesPart(fq, B) /\ Slabs(fq, B) = Slabs(fp, B) \cup (fp \ fq)
<1>1. PagesPart(fq, B)
  BY DEF PagesPart
<1>2. PICK E : E = UNION {Extent(b) : b \in B}
  OBVIOUS
<1>3. \A x \in fp : x \notin E
  <2>1. ASSUME NEW x \in fp, NEW b \in B, x \in Extent(b)
        PROVE  FALSE
    BY <2>1 DEF PagesPart
  <2>2. QED
    BY <1>2, <2>1
<1>4. fp \subseteq HeapPage
  BY DEF PagesPart
<1>5. Slabs(fq, B) = Slabs(fp, B) \cup (fp \ fq)
  <2>1. Slabs(fq, B) = HeapPage \ (fq \cup E) /\ Slabs(fp, B) = HeapPage \ (fp \cup E)
    BY <1>2 DEF Slabs
  <2>2. QED
    BY <1>3, <1>4, <2>1
<1>6. QED
  BY <1>1, <1>5

\* Nobody has what slob_alloc found yet.
Fresh(h, L, fq, B, blk, g, M, a, n) ==
    /\ PagesPart(fq, B) /\ HeapInv(g, M, Area(Slabs(fq, B)))
    /\ a \in Addrs /\ a \in Nat /\ a + 1 \in Addrs /\ a + 1 \in Area(Slabs(fq, B))
    /\ HeldBy(g, M) = HeldBy(h, L) \cup {a} /\ a \notin HeldBy(h, L)
    /\ g.units[a] = n /\ \A c \in HeldBy(h, L) : g.units[c] = h.units[c]
    /\ ~Big(B, a + 1)
    /\ \A q \in Objects : blk[q] # None => blk[q].at # a + 1

\* What slob_alloc returned is nobody's.
LEMMA TakenFresh ==
  ASSUME NEW h, NEW L, NEW fp, NEW B, NEW blk,
         PagesPart(fp, B), BlocksPart(B, blk), ListPart(h, L, fp, B, blk),
         NEW fq \in SUBSET fp, NEW n \in Nat, n > 1, NEW r, NEW M,
         Allocs(h, L, r, M, Slabs(fp, B) \cup (fp \ fq), n)
  PROVE  Fresh(h, L, fq, B, blk, r.heap, M, r.at, n)
<1>1. PagesPart(fq, B) /\ Slabs(fq, B) = Slabs(fp, B) \cup (fp \ fq)
  BY SlabsGrow
<1>2. PICK a \in Addrs : a = r.at
  BY DEF Allocs
<1>3. HeapInv(r.heap, M, Area(Slabs(fq, B)))
  BY <1>1 DEF Allocs
<1>4. /\ HeldBy(r.heap, M) = HeldBy(h, L) \cup {a} /\ a \notin HeldBy(h, L)
      /\ r.heap.units[a] = n /\ \A c \in HeldBy(h, L) : r.heap.units[c] = h.units[c]
  BY <1>2 DEF Allocs, Takes
<1>5. a \in Nat /\ a + 1 \in Area(Slabs(fq, B)) /\ a + 1 \in Addrs
  BY <1>3, <1>4, HeldInside
<1>6. ~Big(B, a + 1)
  BY <1>1, <1>5, BigOutside DEF Big
<1>7. ASSUME NEW q \in Objects, blk[q] # None, blk[q].at = a + 1
      PROVE  FALSE
  <2>1. CASE q \in Small(B, blk)
    <3>1. Header(blk, q) \in HeldBy(h, L) /\ Header(blk, q) \in Addrs
          /\ blk[q].at = Header(blk, q) + 1
      BY <2>1, SmallInside
    <3>2. Header(blk, q) = a
      BY <1>5, <1>7, <3>1, AddrsAre
    <3>3. QED
      BY <1>4, <3>1, <3>2
  <2>2. CASE q \notin Small(B, blk)
    BY <1>6, <1>7, <2>2 DEF Small
  <2>3. QED
    BY <2>1, <2>2
<1>8. QED
  BY <1>1, <1>2, <1>3, <1>4, <1>5, <1>6, <1>7 DEF Fresh

\* What kmalloc returns for a small object: what is behind the header.
BlockAt(at, size) == [at |-> at + 1, size |-> size]

\* kmalloc of a small object keeps the state of the heap.
LEMMA SmallTaken ==
  ASSUME NEW h, NEW L, NEW fp, NEW B, NEW blk,
         PagesPart(fp, B), BlocksPart(B, blk), ListPart(h, L, fp, B, blk),
         NEW o \in Objects, blk[o] = None, NEW size \in Sizes, NEW fq \in SUBSET fp,
         NEW r, NEW M, Allocs(h, L, r, M, Slabs(fp, B) \cup (fp \ fq), SmallUnits(size)),
         NEW new, new = WithBlock(blk, o, BlockAt(r.at, size))
  PROVE  HeapState(r.heap, fq, B, new) /\ Small(B, new) = Small(B, blk) \cup {o}
<1>1. PICK n : n = SmallUnits(size)
  OBVIOUS
<1>2. PICK a : a = r.at
  OBVIOUS
<1>3. PICK g : g = r.heap
  OBVIOUS
<1>4. n \in Nat /\ n > 1
  BY <1>1, SmallUnitsAre
<1>5. Allocs(h, L, r, M, Slabs(fp, B) \cup (fp \ fq), n)
  BY <1>1
<1>6. Fresh(h, L, fq, B, blk, g, M, a, n)
  BY <1>2, <1>3, <1>4, <1>5, TakenFresh
<1>7. /\ PagesPart(fq, B) /\ HeapInv(g, M, Area(Slabs(fq, B)))
      /\ a \in Addrs /\ a \in Nat /\ a + 1 \in Addrs
      /\ HeldBy(g, M) = HeldBy(h, L) \cup {a} /\ a \notin HeldBy(h, L)
      /\ g.units[a] = n /\ ~Big(B, a + 1)
  BY <1>6 DEF Fresh
<1>8. \A c \in HeldBy(h, L) : g.units[c] = h.units[c]
  BY <1>6 DEF Fresh
<1>9. \A q \in Objects : blk[q] # None => blk[q].at # a + 1
  BY <1>6 DEF Fresh
<1>10. PICK x : x = [at |-> a + 1, size |-> size]
  OBVIOUS
<1>11. x \in Blocks /\ x.at = a + 1 /\ x.size = size /\ x # None
  BY <1>7, <1>10, NoBlock DEF Blocks
<1>12. new = WithBlock(blk, o, x)
  BY <1>2, <1>10 DEF BlockAt
<1>13. new[o] = x /\ \A q \in Objects : q # o => new[q] = blk[q]
  BY <1>12, BlockSet
<1>14. Small(B, new) = Small(B, blk) \cup {o} /\ o \notin Small(B, blk)
  BY <1>7, <1>11, <1>13 DEF Small
<1>15. BlocksPart(B, new)
  <2>1. new \in [Objects -> Blocks \cup {None}]
    BY <1>11, <1>12 DEF BlocksPart, WithBlock
  <2>2. ASSUME NEW p \in Objects, NEW q \in Objects, p # q, new[p] # None, new[q] # None
        PROVE  new[p].at # new[q].at
    <3>1. CASE p = o
      BY <1>9, <1>11, <1>13, <2>2, <3>1
    <3>2. CASE q = o
      BY <1>9, <1>11, <1>13, <2>2, <3>2
    <3>3. CASE p # o /\ q # o
      BY <1>13, <2>2, <3>3 DEF BlocksPart
    <3>4. QED
      BY <3>1, <3>2, <3>3
  <2>3. ASSUME NEW q \in Objects, NEW b \in B, new[q] # None, new[q].at = b.pages
        PROVE  new[q].size <= Spans(b) * Slob!PAGE_SIZE
    <3>1. q # o
      BY <1>7, <1>11, <1>13, <2>3 DEF Big
    <3>2. new[q] = blk[q]
      BY <1>13, <3>1
    <3>3. QED
      BY <2>3, <3>2 DEF BlocksPart
  <2>4. QED
    BY <2>1, <2>2, <2>3 DEF BlocksPart
<1>16. Header(new, o) = a /\ \A q \in Small(B, blk) : Header(new, q) = Header(blk, q)
  <2>1. Header(new, o) = a
    BY <1>7, <1>11, <1>13 DEF Header
  <2>2. \A q \in Small(B, blk) : new[q] = blk[q]
    BY <1>13, <1>14 DEF Small
  <2>3. QED
    BY <2>1, <2>2 DEF Header
<1>17. /\ HeldBy(h, L) = {Header(blk, q) : q \in Small(B, blk)} \cup {b.bb : b \in B}
       /\ \A q \in Small(B, blk) : h.units[Header(blk, q)] = SmallUnits(blk[q].size)
       /\ \A q \in Small(B, blk), b \in B : Header(blk, q) # b.bb
       /\ \A b \in B : h.units[b.bb] = BigUnits
  BY DEF ListPart, OwnersPart
<1>18. OwnersPart(g, M, B, new)
  <2>1. HeldBy(g, M) = {Header(new, q) : q \in Small(B, new)} \cup {b.bb : b \in B}
    BY <1>7, <1>14, <1>16, <1>17
  <2>2. ASSUME NEW q \in Small(B, new)
        PROVE  /\ g.units[Header(new, q)] = SmallUnits(new[q].size)
               /\ \A b \in B : Header(new, q) # b.bb
    <3>1. CASE q = o
      <4>1. g.units[Header(new, q)] = SmallUnits(new[q].size)
        BY <1>1, <1>7, <1>11, <1>13, <1>16, <3>1
      <4>2. \A b \in B : Header(new, q) # b.bb
        BY <1>7, <1>16, <1>17, <3>1
      <4>3. QED
        BY <4>1, <4>2
    <3>2. CASE q \in Small(B, blk)
      <4>1. Header(blk, q) \in HeldBy(h, L) /\ Header(new, q) = Header(blk, q)
        BY <1>16, <1>17, <3>2
      <4>2. new[q] = blk[q]
        BY <1>13, <1>14, <3>2 DEF Small
      <4>3. QED
        BY <1>8, <1>17, <3>2, <4>1, <4>2
    <3>3. QED
      BY <1>14, <3>1, <3>2
  <2>3. ASSUME NEW b \in B
        PROVE  g.units[b.bb] = BigUnits
    BY <1>8, <1>17
  <2>4. QED
    BY <2>1, <2>2, <2>3 DEF OwnersPart
<1>19. ListPart(g, M, fq, B, new)
  BY <1>7, <1>18 DEF ListPart
<1>20. QED
  BY <1>3, <1>7, <1>14, <1>15, <1>19 DEF HeapState

\* The parts of OwnersPart.
LEMMA OwnersAre ==
  ASSUME NEW h, NEW L, NEW fp, NEW B, NEW blk, ListPart(h, L, fp, B, blk)
  PROVE  /\ HeldBy(h, L) = {Header(blk, q) : q \in Small(B, blk)} \cup {b.bb : b \in B}
         /\ \A q \in Small(B, blk) : h.units[Header(blk, q)] = SmallUnits(blk[q].size)
         /\ \A q \in Small(B, blk), b \in B : Header(blk, q) # b.bb
         /\ \A b \in B : h.units[b.bb] = BigUnits
         /\ HeapInv(h, L, Area(Slabs(fp, B)))
BY DEF ListPart, OwnersPart

\* An object's block that is NULL again.
LEMMA BlockLeft ==
  ASSUME NEW B, NEW blk, BlocksPart(B, blk), NEW o \in Objects,
         NEW new, new = WithBlock(blk, o, None), NEW C \in SUBSET B
  PROVE  BlocksPart(C, new)
<1>1. new[o] = None /\ \A q \in Objects : q # o => new[q] = blk[q]
  BY BlockSet
<1>2. new \in [Objects -> Blocks \cup {None}]
  BY DEF BlocksPart, WithBlock
<1>3. ASSUME NEW p \in Objects, NEW q \in Objects, p # q, new[p] # None, new[q] # None
      PROVE  new[p].at # new[q].at
  <2>1. new[p] = blk[p] /\ new[q] = blk[q]
    BY <1>1, <1>3
  <2>2. QED
    BY <1>3, <2>1 DEF BlocksPart
<1>4. ASSUME NEW q \in Objects, NEW b \in C, new[q] # None, new[q].at = b.pages
      PROVE  new[q].size <= Spans(b) * Slob!PAGE_SIZE
  <2>1. new[q] = blk[q] /\ b \in B
    BY <1>1, <1>4
  <2>2. QED
    BY <1>4, <2>1 DEF BlocksPart
<1>5. QED
  BY <1>2, <1>3, <1>4 DEF BlocksPart

\* kfree of a small object keeps the state of the heap.
LEMMA SmallFreed ==
  ASSUME NEW h, NEW L, NEW fp, NEW B, NEW blk,
         PagesPart(fp, B), BlocksPart(B, blk), ListPart(h, L, fp, B, blk),
         NEW o \in Small(B, blk),
         NEW r, r = Slob!slob_free(h, Header(blk, o)), NEW new, new = WithBlock(blk, o, None)
  PROVE  HeapState(r, fp, B, new) /\ Small(B, new) = Small(B, blk) \ {o}
<1>1. PICK x : x = Header(blk, o)
  OBVIOUS
<1>2. o \in Objects /\ x \in HeldBy(h, L)
  BY <1>1, SmallInside DEF Small
<1>3. HeapInv(h, L, Area(Slabs(fp, B)))
  BY OwnersAre
<1>4. PICK M : HeapInv(r, M, Area(Slabs(fp, B))) /\ Frees(h, L, r, M, x)
  BY <1>1, <1>2, <1>3, FreeKeeps
<1>5. new[o] = None /\ \A q \in Objects : q # o => new[q] = blk[q]
  BY <1>2, BlockSet
<1>6. Small(B, new) = Small(B, blk) \ {o}
  BY <1>2, <1>5 DEF Small
<1>7. BlocksPart(B, new)
  BY <1>2, BlockLeft
<1>8. \A q \in Small(B, new) : /\ q \in Small(B, blk) /\ new[q] = blk[q]
                               /\ Header(new, q) = Header(blk, q) /\ Header(new, q) # x
  <2>1. ASSUME NEW q \in Small(B, new)
        PROVE  /\ q \in Small(B, blk) /\ new[q] = blk[q]
               /\ Header(new, q) = Header(blk, q) /\ Header(new, q) # x
    <3>1. q \in Small(B, blk) /\ q # o /\ q \in Objects
      BY <1>6 DEF Small
    <3>2. new[q] = blk[q]
      BY <1>5, <3>1
    <3>3. Header(new, q) = Header(blk, q)
      BY <3>2 DEF Header
    <3>4. blk[q].at = Header(blk, q) + 1 /\ blk[o].at = x + 1
      BY <1>1, <3>1, SmallInside
    <3>5. blk[q].at # blk[o].at
      BY <1>2, <3>1 DEF BlocksPart, Small
    <3>6. QED
      BY <3>1, <3>2, <3>3, <3>4, <3>5
  <2>2. QED
    BY <2>1
<1>9. /\ HeldBy(h, L) = {Header(blk, q) : q \in Small(B, blk)} \cup {b.bb : b \in B}
      /\ \A q \in Small(B, blk) : h.units[Header(blk, q)] = SmallUnits(blk[q].size)
      /\ \A q \in Small(B, blk), b \in B : Header(blk, q) # b.bb
      /\ \A b \in B : h.units[b.bb] = BigUnits
  BY OwnersAre
<1>10. HeldBy(r, M) = HeldBy(h, L) \ {x} /\ \A c \in HeldBy(r, M) : r.units[c] = h.units[c]
  BY <1>4 DEF Frees
<1>11. HeldBy(r, M) = {Header(new, q) : q \in Small(B, new)} \cup {b.bb : b \in B}
  <2>1. ASSUME NEW c \in HeldBy(r, M)
        PROVE  c \in {Header(new, q) : q \in Small(B, new)} \cup {b.bb : b \in B}
    <3>1. CASE \E b \in B : c = b.bb
      BY <3>1
    <3>2. CASE ~\E b \in B : c = b.bb
      <4>1. PICK q \in Small(B, blk) : c = Header(blk, q)
        BY <1>9, <1>10, <3>2
      <4>2. q # o
        BY <1>1, <1>10, <4>1
      <4>3. q \in Small(B, new) /\ Header(new, q) = c
        BY <1>6, <1>8, <4>1, <4>2
      <4>4. QED
        BY <4>3
    <3>3. QED
      BY <3>1, <3>2
  <2>2. ASSUME NEW q \in Small(B, new)
        PROVE  Header(new, q) \in HeldBy(r, M)
    BY <1>8, <1>9, <1>10
  <2>3. ASSUME NEW b \in B
        PROVE  b.bb \in HeldBy(r, M)
    BY <1>1, <1>9, <1>10
  <2>4. QED
    BY <2>1, <2>2, <2>3
<1>12. OwnersPart(r, M, B, new)
  <2>1. ASSUME NEW q \in Small(B, new)
        PROVE  /\ r.units[Header(new, q)] = SmallUnits(new[q].size)
               /\ \A b \in B : Header(new, q) # b.bb
    <3>1. Header(new, q) \in HeldBy(r, M)
      BY <1>11
    <3>2. r.units[Header(new, q)] = h.units[Header(blk, q)]
      BY <1>8, <1>10, <3>1
    <3>3. QED
      BY <1>8, <1>9, <3>2
  <2>2. ASSUME NEW b \in B
        PROVE  r.units[b.bb] = BigUnits
    BY <1>9, <1>10, <1>11
  <2>3. QED
    BY <1>11, <2>1, <2>2 DEF OwnersPart
<1>13. QED
  BY <1>4, <1>6, <1>7, <1>12 DEF HeapState, ListPart

\* A bigblock_t has its size in its header already.
LEMMA FreedBigblock ==
  ASSUME NEW h, NEW L, NEW A, HeapInv(h, L, A), NEW x \in HeldBy(h, L),
         h.units[x] = BigUnits
  PROVE  Slob!Freed(h, x, BigblockSize) = Slob!slob_free(h, x)
<1>1. PICK u : u = h.units
  OBVIOUS
<1>2. h \in Lists /\ x \in Addrs /\ u \in [Addrs -> Nat] /\ u[x] = BigUnits
  BY <1>1 DEF HeapInv, HeldBy, Heads, Tiled
<1>3. [u EXCEPT ![x] = BigUnits] = u
  BY <1>2
<1>4. [h EXCEPT !.units[x] = BigUnits] = h
  <2>1. PICK nx, s : h = [units |-> u, next |-> nx, slobfree |-> s]
    BY <1>1, <1>2, ListFields
  <2>2. QED
    BY <1>3, <2>1
<1>5. QED
  BY <1>4 DEF Slob!Freed, BigUnits

\* There are no pages for a big block: its bigblock_t is given back.
LEMMA BigFailed ==
  ASSUME NEW h, NEW L, NEW fp, NEW B, NEW blk,
         PagesPart(fp, B), BlocksPart(B, blk), ListPart(h, L, fp, B, blk),
         NEW fq \in SUBSET fp,
         NEW r, NEW M, Allocs(h, L, r, M, Slabs(fp, B) \cup (fp \ fq), BigUnits)
  PROVE  HeapState(Slob!Freed(r.heap, r.at, BigblockSize), fq, B, blk)
<1>1. PICK a : a = r.at
  OBVIOUS
<1>2. PICK g : g = r.heap
  OBVIOUS
<1>3. BigUnits \in Nat /\ BigUnits > 1
  BY BlockUnits
<1>4. Fresh(h, L, fq, B, blk, g, M, a, BigUnits)
  BY <1>1, <1>2, <1>3, TakenFresh
<1>5. /\ PagesPart(fq, B) /\ HeapInv(g, M, Area(Slabs(fq, B)))
      /\ HeldBy(g, M) = HeldBy(h, L) \cup {a} /\ a \notin HeldBy(h, L)
      /\ g.units[a] = BigUnits
  BY <1>4 DEF Fresh
<1>6. \A c \in HeldBy(h, L) : g.units[c] = h.units[c]
  BY <1>4 DEF Fresh
<1>7. PICK f : f = Slob!slob_free(g, a)
  OBVIOUS
<1>8. a \in HeldBy(g, M)
  BY <1>5
<1>9. PICK K : HeapInv(f, K, Area(Slabs(fq, B))) /\ Frees(g, M, f, K, a)
  BY <1>5, <1>7, <1>8, FreeKeeps
<1>10. HeldBy(f, K) = HeldBy(h, L)
  BY <1>5, <1>9 DEF Frees
<1>11. \A c \in HeldBy(h, L) : f.units[c] = h.units[c]
  <2>1. \A c \in HeldBy(h, L) : f.units[c] = g.units[c]
    BY <1>9, <1>10 DEF Frees
  <2>2. QED
    BY <1>6, <2>1
<1>12. OwnersPart(f, K, B, blk)
  <2>1. /\ HeldBy(h, L) = {Header(blk, q) : q \in Small(B, blk)} \cup {b.bb : b \in B}
        /\ \A q \in Small(B, blk) : h.units[Header(blk, q)] = SmallUnits(blk[q].size)
        /\ \A q \in Small(B, blk), b \in B : Header(blk, q) # b.bb
        /\ \A b \in B : h.units[b.bb] = BigUnits
    BY OwnersAre
  <2>2. /\ \A q \in Small(B, blk) : Header(blk, q) \in HeldBy(h, L)
        /\ \A b \in B : b.bb \in HeldBy(h, L)
    BY <2>1
  <2>3. QED
    BY <1>10, <1>11, <2>1, <2>2 DEF OwnersPart
<1>13. Slob!Freed(g, a, BigblockSize) = f
  BY <1>5, <1>7, <1>8, FreedBigblock
<1>14. QED
  BY <1>1, <1>2, <1>5, <1>9, <1>12, <1>13 DEF HeapState, ListPart

\* Two big blocks that begin at the same page have that page in common.
LEMMA SamePage ==
  ASSUME NEW b, NEW c, NEW p, NEW q, BigAt(b, p), BigAt(c, q), b.pages = c.pages
  PROVE  p = q
<1>1. p \in HeapPage /\ q \in HeapPage /\ Slob!PageAt(p) = Slob!PageAt(q)
  BY DEF BigAt
<1>2. Slob!PageAt(p) \div PageUnits = p /\ Slob!PageAt(q) \div PageUnits = q
  BY <1>1, PageIs
<1>3. QED
  BY <1>1, <1>2

\* What kmalloc returns for a big object.
PagesOf(b, size) == [at |-> b.pages, size |-> size]

\* A big object gets its pages.
BigGot(h, L, fp, B, blk, o, size, fq, r, M, b, first, fr, C, new) ==
    /\ PagesPart(fp, B) /\ BlocksPart(B, blk) /\ ListPart(h, L, fp, B, blk)
    /\ o \in Objects /\ blk[o] = None /\ size \in Sizes /\ fq \in SUBSET fp
    /\ Allocs(h, L, r, M, Slabs(fp, B) \cup (fp \ fq), BigUnits)
    /\ b.bb = r.at /\ BigAt(b, first) /\ Extent(b) \subseteq fq
    /\ size <= Spans(b) * Slob!PAGE_SIZE
    /\ fr = fq \ Extent(b) /\ C = B \cup {b} /\ new = WithBlock(blk, o, PagesOf(b, size))

\* kmalloc of a big object keeps the state of the heap.
LEMMA BigTaken ==
  ASSUME NEW h, NEW L, NEW fp, NEW B, NEW blk, NEW o, NEW size, NEW fq, NEW r, NEW M, NEW b,
         NEW first, NEW fr, NEW C, NEW new,
         BigGot(h, L, fp, B, blk, o, size, fq, r, M, b, first, fr, C, new)
  PROVE  /\ HeapState(r.heap, fr, C, new)
         /\ Small(C, new) = Small(B, blk) /\ b \notin B
<1>1. /\ PagesPart(fp, B) /\ BlocksPart(B, blk) /\ ListPart(h, L, fp, B, blk)
      /\ o \in Objects /\ blk[o] = None /\ size \in Sizes /\ fq \in SUBSET fp
      /\ Allocs(h, L, r, M, Slabs(fp, B) \cup (fp \ fq), BigUnits)
      /\ b.bb = r.at /\ BigAt(b, first) /\ Extent(b) \subseteq fq
      /\ size <= Spans(b) * Slob!PAGE_SIZE
      /\ fr = fq \ Extent(b)
      /\ C = B \cup {b} /\ new = WithBlock(blk, o, PagesOf(b, size))
  BY DEF BigGot
<1> USE <1>1
<1>2. PICK a : a = r.at
  OBVIOUS
<1>3. PICK g : g = r.heap
  OBVIOUS
<1>4. BigUnits \in Nat /\ BigUnits > 1
  BY BlockUnits
<1>5. Fresh(h, L, fq, B, blk, g, M, a, BigUnits)
  BY <1>2, <1>3, <1>4, TakenFresh
<1>6. /\ PagesPart(fq, B) /\ HeapInv(g, M, Area(Slabs(fq, B)))
      /\ HeldBy(g, M) = HeldBy(h, L) \cup {a} /\ a \notin HeldBy(h, L)
      /\ g.units[a] = BigUnits
  BY <1>5 DEF Fresh
<1>7. \A c \in HeldBy(h, L) : g.units[c] = h.units[c]
  BY <1>5 DEF Fresh
<1>8. /\ HeldBy(h, L) = {Header(blk, q) : q \in Small(B, blk)} \cup {c.bb : c \in B}
      /\ \A q \in Small(B, blk) : h.units[Header(blk, q)] = SmallUnits(blk[q].size)
      /\ \A q \in Small(B, blk), c \in B : Header(blk, q) # c.bb
      /\ \A c \in B : h.units[c.bb] = BigUnits
  BY OwnersAre
<1>9. \A c \in B : c.bb # b.bb
  BY <1>2, <1>6, <1>8
<1>10. b \notin B
  BY <1>9
<1>11. PICK E : E = Extent(b)
  OBVIOUS
<1>12. /\ first \in HeapPage /\ b.pages = Slob!PageAt(first) /\ first \in E
       /\ E \subseteq HeapPage /\ E \subseteq fq
       /\ Spans(b) \in Nat /\ Spans(b) > 0 /\ first + Spans(b) - 1 <= HeapPages
  BY <1>11 DEF BigAt
<1>13. fr = fq \ E
  BY <1>11
<1>14. PagesPart(fr, C)
  <2>1. /\ fq \in SUBSET HeapPage
        /\ \A c \in B : IsBig(c) /\ Extent(c) \cap fq = {}
        /\ \A c, d \in B : c # d => c.bb # d.bb /\ Extent(c) \cap Extent(d) = {}
    BY <1>6 DEF PagesPart
  <2>2. IsBig(b)
    BY <1>12 DEF IsBig
  <2>3. \A c \in C : IsBig(c) /\ Extent(c) \cap fr = {}
    <3>1. ASSUME NEW c \in C
          PROVE  IsBig(c) /\ Extent(c) \cap fr = {}
      <4>1. CASE c = b
        BY <1>11, <1>13, <2>2, <4>1
      <4>2. CASE c \in B
        <5>1. Extent(c) \cap fq = {}
          BY <2>1, <4>2
        <5>2. QED
          BY <1>13, <2>1, <4>2, <5>1
      <4>3. QED
        BY <4>1, <4>2
    <3>2. QED
      BY <3>1
  <2>4. \A c \in B : Extent(c) \cap E = {}
    <3>1. ASSUME NEW c \in B
          PROVE  Extent(c) \cap E = {}
      <4>1. Extent(c) \cap fq = {}
        BY <2>1
      <4>2. QED
        BY <1>12, <4>1
    <3>2. QED
      BY <3>1
  <2>5. \A c, d \in C : c # d => c.bb # d.bb /\ Extent(c) \cap Extent(d) = {}
    <3>1. ASSUME NEW c \in C, NEW d \in C, c # d
          PROVE  c.bb # d.bb /\ Extent(c) \cap Extent(d) = {}
      <4>1. CASE c = b
        BY <1>9, <1>11, <2>4, <3>1, <4>1
      <4>2. CASE d = b
        BY <1>9, <1>11, <2>4, <3>1, <4>2
      <4>3. CASE c \in B /\ d \in B
        BY <2>1, <3>1, <4>3
      <4>4. QED
        BY <4>1, <4>2, <4>3
    <3>2. QED
      BY <3>1
  <2>6. fr \in SUBSET HeapPage
    BY <1>13, <2>1
  <2>7. QED
    BY <2>3, <2>5, <2>6 DEF PagesPart
<1>15. Slabs(fr, C) = Slabs(fq, B)
  <2>1. PICK F : F = UNION {Extent(c) : c \in B}
    OBVIOUS
  <2>2. UNION {Extent(c) : c \in C} = F \cup E
    BY <1>11, <2>1
  <2>3. Slabs(fr, C) = HeapPage \ (fr \cup (F \cup E)) /\ Slabs(fq, B) = HeapPage \ (fq \cup F)
    BY <2>1, <2>2 DEF Slabs
  <2>4. QED
    BY <1>12, <1>13, <2>3
<1>16. PICK x : x = PagesOf(b, size)
  OBVIOUS
<1>17. x \in Blocks /\ x.at = b.pages /\ x.size = size /\ x # None
  <2>1. b.pages \in Addrs
    BY <1>12, PageIs
  <2>2. QED
    BY <1>16, <2>1, NoBlock DEF Blocks, PagesOf
<1>18. new[o] = x /\ \A q \in Objects : q # o => new[q] = blk[q]
  BY <1>16, BlockSet
<1>19. ASSUME NEW q \in Objects, blk[q] # None
       PROVE  blk[q].at # b.pages
  <2>1. ASSUME blk[q].at = b.pages
        PROVE  FALSE
    <3>1. CASE q \in Small(B, blk)
      <4>1. blk[q].at \in Area(Slabs(fp, B))
        BY <3>1, SmallInside
      <4>2. Slabs(fp, B) \in SUBSET HeapPage /\ first \notin Slabs(fp, B)
        BY <1>12 DEF Slabs
      <4>3. QED
        BY <1>12, <2>1, <4>1, <4>2, PageOutside
    <3>2. CASE q \notin Small(B, blk)
      <4>1. PICK c \in B : c.pages = b.pages
        BY <1>19, <2>1, <3>2 DEF Small, Big
      <4>2. PICK p : BigAt(c, p)
        BY BigIs DEF PagesPart
      <4>3. p = first
        BY <4>1, <4>2, SamePage
      <4>4. first \in Extent(c)
        BY <4>2, <4>3 DEF BigAt
      <4>5. Extent(c) \cap fp = {}
        BY DEF PagesPart
      <4>6. QED
        BY <1>12, <4>4, <4>5
    <3>3. QED
      BY <3>1, <3>2
  <2>2. QED
    BY <2>1
<1>20. Small(C, new) = Small(B, blk)
  <2>1. Big(C, new[o].at)
    BY <1>17, <1>18 DEF Big
  <2>2. o \notin Small(C, new) /\ o \notin Small(B, blk)
    BY <2>1 DEF Small
  <2>3. \A q \in Objects : q # o => (q \in Small(C, new) <=> q \in Small(B, blk))
    <3>1. ASSUME NEW q \in Objects, q # o
          PROVE  q \in Small(C, new) <=> q \in Small(B, blk)
      <4>1. new[q] = blk[q]
        BY <1>18, <3>1
      <4>2. blk[q] # None => (Big(C, blk[q].at) <=> Big(B, blk[q].at))
        BY <1>19 DEF Big
      <4>3. QED
        BY <4>1, <4>2 DEF Small
    <3>2. QED
      BY <3>1
  <2>4. QED
    BY <2>2, <2>3 DEF Small
<1>21. BlocksPart(C, new)
  <2>1. new \in [Objects -> Blocks \cup {None}]
    BY <1>16, <1>17 DEF BlocksPart, WithBlock
  <2>2. ASSUME NEW p \in Objects, NEW q \in Objects, p # q, new[p] # None, new[q] # None
        PROVE  new[p].at # new[q].at
    <3>1. CASE p = o
      BY <1>17, <1>18, <1>19, <2>2, <3>1
    <3>2. CASE q = o
      BY <1>17, <1>18, <1>19, <2>2, <3>2
    <3>3. CASE p # o /\ q # o
      BY <1>18, <2>2, <3>3 DEF BlocksPart
    <3>4. QED
      BY <3>1, <3>2, <3>3
  <2>3. ASSUME NEW q \in Objects, NEW c \in C, new[q] # None, new[q].at = c.pages
        PROVE  new[q].size <= Spans(c) * Slob!PAGE_SIZE
    <3>1. CASE q = o
      <4>1. c = b
        <5>1. ASSUME c \in B
              PROVE  FALSE
          <6>1. c.pages = b.pages
            BY <1>17, <1>18, <2>3, <3>1
          <6>2. PICK p : BigAt(c, p)
            BY <5>1, BigIs DEF PagesPart
          <6>3. p = first
            BY <6>1, <6>2, SamePage
          <6>4. first \in Extent(c)
            BY <6>2, <6>3 DEF BigAt
          <6>5. Extent(c) \cap fp = {}
            BY <5>1 DEF PagesPart
          <6>6. QED
            BY <1>12, <6>4, <6>5
        <5>2. QED
          BY <5>1
      <4>2. QED
        BY <1>17, <1>18, <3>1, <4>1
    <3>2. CASE q # o
      <4>1. new[q] = blk[q]
        BY <1>18, <3>2
      <4>2. c \in B
        BY <1>19, <2>3, <4>1
      <4>3. QED
        BY <2>3, <4>1, <4>2 DEF BlocksPart
    <3>3. QED
      BY <3>1, <3>2
  <2>4. QED
    BY <2>1, <2>2, <2>3 DEF BlocksPart
<1>22. \A q \in Small(B, blk) : new[q] = blk[q] /\ Header(new, q) = Header(blk, q)
  <2>1. ASSUME NEW q \in Small(B, blk)
        PROVE  new[q] = blk[q]
    BY <1>18 DEF Small
  <2>2. QED
    BY <2>1 DEF Header
<1>23. OwnersPart(g, M, C, new)
  <2>1. {Header(new, q) : q \in Small(C, new)} = {Header(blk, q) : q \in Small(B, blk)}
    BY <1>20, <1>22
  <2>2. HeldBy(g, M) = {Header(new, q) : q \in Small(C, new)} \cup {c.bb : c \in C}
    <3>1. {c.bb : c \in C} = {c.bb : c \in B} \cup {a}
      BY <1>2
    <3>2. QED
      BY <1>6, <1>8, <2>1, <3>1
  <2>3. ASSUME NEW q \in Small(C, new)
        PROVE  /\ g.units[Header(new, q)] = SmallUnits(new[q].size)
               /\ \A c \in C : Header(new, q) # c.bb
    <3>1. q \in Small(B, blk) /\ new[q] = blk[q] /\ Header(new, q) = Header(blk, q)
      BY <1>20, <1>22
    <3>2. Header(blk, q) \in HeldBy(h, L)
      BY <1>8, <3>1
    <3>3. Header(blk, q) # b.bb
      BY <1>2, <1>6, <3>2
    <3>4. QED
      BY <1>7, <1>8, <3>1, <3>2, <3>3
  <2>4. ASSUME NEW c \in C
        PROVE  g.units[c.bb] = BigUnits
    <3>1. CASE c = b
      BY <1>2, <1>6, <3>1
    <3>2. CASE c \in B
      <4>1. c.bb \in HeldBy(h, L)
        BY <1>8, <3>2
      <4>2. QED
        BY <1>7, <1>8, <3>2, <4>1
    <3>3. QED
      BY <3>1, <3>2
  <2>5. QED
    BY <2>2, <2>3, <2>4 DEF OwnersPart
<1>24. ListPart(g, M, fr, C, new)
  BY <1>6, <1>15, <1>23 DEF ListPart
<1>25. HeapState(g, fr, C, new)
  BY <1>14, <1>21, <1>24 DEF HeapState
<1>26. QED
  BY <1>3, <1>10, <1>11, <1>13, <1>20, <1>25

\* kfree of a big object keeps the state of the heap.
LEMMA BigFreed ==
  ASSUME NEW h, NEW L, NEW fp, NEW B, NEW blk,
         PagesPart(fp, B), BlocksPart(B, blk), ListPart(h, L, fp, B, blk),
         NEW o \in Objects, blk[o] # None, NEW b \in B, b.pages = blk[o].at,
         NEW fq, fq = fp \cup Extent(b), NEW C, C = B \ {b},
         NEW new, new = WithBlock(blk, o, None)
  PROVE  /\ HeapState(Slob!Freed(h, b.bb, BigblockSize), fq, C, new)
         /\ Small(C, new) = Small(B, blk)
<1>1. PICK x : x = b.bb
  OBVIOUS
<1>2. /\ HeldBy(h, L) = {Header(blk, q) : q \in Small(B, blk)} \cup {c.bb : c \in B}
      /\ \A q \in Small(B, blk) : h.units[Header(blk, q)] = SmallUnits(blk[q].size)
      /\ \A q \in Small(B, blk), c \in B : Header(blk, q) # c.bb
      /\ \A c \in B : h.units[c.bb] = BigUnits
      /\ HeapInv(h, L, Area(Slabs(fp, B)))
  BY OwnersAre
<1>3. x \in HeldBy(h, L) /\ h.units[x] = BigUnits
  BY <1>1, <1>2
<1>4. PICK r : r = Slob!slob_free(h, x)
  OBVIOUS
<1>5. Slob!Freed(h, x, BigblockSize) = r
  BY <1>2, <1>3, <1>4, FreedBigblock
<1>6. PICK M : HeapInv(r, M, Area(Slabs(fp, B))) /\ Frees(h, L, r, M, x)
  BY <1>2, <1>3, <1>4, FreeKeeps
<1>7. HeldBy(r, M) = HeldBy(h, L) \ {x} /\ \A c \in HeldBy(r, M) : r.units[c] = h.units[c]
  BY <1>6 DEF Frees
<1>8. new[o] = None /\ \A q \in Objects : q # o => new[q] = blk[q]
  BY BlockSet
<1>9. PICK E : E = Extent(b)
  OBVIOUS
<1>10. /\ fp \in SUBSET HeapPage
       /\ \A c \in B : IsBig(c) /\ Extent(c) \cap fp = {}
       /\ \A c, d \in B : c # d => c.bb # d.bb /\ Extent(c) \cap Extent(d) = {}
  BY DEF PagesPart
<1>11. E \subseteq HeapPage
  <2>1. PICK first : BigAt(b, first)
    BY <1>10, BigIs
  <2>2. QED
    BY <1>9, <2>1 DEF BigAt
<1>12. \A c \in C : c \in B /\ c # b /\ c.bb # x /\ Extent(c) \cap E = {}
  BY <1>1, <1>9, <1>10
<1>13. PagesPart(fq, C)
  <2>1. ASSUME NEW c \in C
        PROVE  IsBig(c) /\ Extent(c) \cap fq = {}
    <3>1. Extent(c) \cap fp = {} /\ Extent(c) \cap E = {} /\ IsBig(c)
      BY <1>10, <1>12
    <3>2. QED
      BY <1>9, <3>1
  <2>2. \A c, d \in C : c # d => c.bb # d.bb /\ Extent(c) \cap Extent(d) = {}
    BY <1>10, <1>12
  <2>3. fq \in SUBSET HeapPage
    BY <1>9, <1>10, <1>11
  <2>4. QED
    BY <2>1, <2>2, <2>3 DEF PagesPart
<1>14. Slabs(fq, C) = Slabs(fp, B)
  <2>1. PICK F : F = UNION {Extent(c) : c \in C}
    OBVIOUS
  <2>2. UNION {Extent(c) : c \in B} = F \cup E
    BY <1>9, <2>1
  <2>3. Slabs(fq, C) = HeapPage \ (fq \cup F) /\ Slabs(fp, B) = HeapPage \ (fp \cup (F \cup E))
    BY <2>1, <2>2 DEF Slabs
  <2>4. QED
    BY <1>9, <2>3
<1>15. BlocksPart(C, new)
  BY BlockLeft
<1>16. Small(C, new) = Small(B, blk)
  <2>1. o \notin Small(C, new) /\ o \notin Small(B, blk)
    BY <1>8 DEF Small, Big
  <2>2. ASSUME NEW q \in Objects, q # o
        PROVE  q \in Small(C, new) <=> q \in Small(B, blk)
    <3>1. new[q] = blk[q]
      BY <1>8, <2>2
    <3>2. blk[q] # None => blk[q].at # b.pages
      BY <2>2 DEF BlocksPart
    <3>3. blk[q] # None => (Big(C, blk[q].at) <=> Big(B, blk[q].at))
      BY <3>2 DEF Big
    <3>4. QED
      BY <3>1, <3>3 DEF Small
  <2>3. QED
    BY <2>1, <2>2 DEF Small
<1>17. \A q \in Small(B, blk) : new[q] = blk[q] /\ Header(new, q) = Header(blk, q)
  <2>1. ASSUME NEW q \in Small(B, blk)
        PROVE  new[q] = blk[q]
    BY <1>8 DEF Small, Big
  <2>2. QED
    BY <2>1 DEF Header
<1>18. OwnersPart(r, M, C, new)
  <2>1. {Header(new, q) : q \in Small(C, new)} = {Header(blk, q) : q \in Small(B, blk)}
    BY <1>16, <1>17
  <2>2. HeldBy(r, M) = {Header(new, q) : q \in Small(C, new)} \cup {c.bb : c \in C}
    <3>1. {c.bb : c \in B} = {c.bb : c \in C} \cup {x}
      BY <1>1
    <3>2. x \notin {c.bb : c \in C} /\ x \notin {Header(blk, q) : q \in Small(B, blk)}
      BY <1>1, <1>2, <1>12
    <3>3. QED
      BY <1>2, <1>7, <2>1, <3>1, <3>2
  <2>3. ASSUME NEW q \in Small(C, new)
        PROVE  /\ r.units[Header(new, q)] = SmallUnits(new[q].size)
               /\ \A c \in C : Header(new, q) # c.bb
    <3>1. q \in Small(B, blk) /\ new[q] = blk[q] /\ Header(new, q) = Header(blk, q)
      BY <1>16, <1>17
    <3>2. Header(new, q) \in HeldBy(r, M)
      BY <2>2
    <3>3. QED
      BY <1>2, <1>7, <1>12, <3>1, <3>2
  <2>4. ASSUME NEW c \in C
        PROVE  r.units[c.bb] = BigUnits
    <3>1. c.bb \in HeldBy(r, M)
      BY <2>2
    <3>2. QED
      BY <1>2, <1>7, <1>12, <3>1
  <2>5. QED
    BY <2>2, <2>3, <2>4 DEF OwnersPart
<1>19. HeapState(r, fq, C, new)
  BY <1>6, <1>13, <1>14, <1>15, <1>18 DEF HeapState, ListPart
<1>20. QED
  BY <1>1, <1>5, <1>16, <1>19

-----------------------------------------------------------------------------
(* The bytes of an object are in units that are nobody else's.             *)

Reaches(blk, o, lo, hi) ==
    /\ lo \in Nat /\ hi \in Nat /\ hi <= Top
    /\ lo * SLOB_UNIT <= blk[o].at * SLOB_UNIT
    /\ blk[o].at * SLOB_UNIT + blk[o].size <= hi * SLOB_UNIT

\* The bytes of a small object are within its block.
LEMMA SmallReach ==
  ASSUME NEW h, NEW L, NEW fp, NEW B, NEW blk,
         BlocksPart(B, blk), ListPart(h, L, fp, B, blk), NEW o \in Small(B, blk)
  PROVE  Reaches(blk, o, Header(blk, o), Header(blk, o) + SmallUnits(blk[o].size))
<1>1. PICK x : x = Header(blk, o)
  OBVIOUS
<1>2. PICK size \in Sizes : size = blk[o].size
  BY SmallInside
<1>3. PICK n \in Nat : n = SmallUnits(size) /\ n > 1 /\ size + SLOB_UNIT <= n * SLOB_UNIT
  BY SmallUnitsAre
<1>4. x \in HeldBy(h, L) /\ x \in Addrs /\ h.units[x] = n /\ blk[o].at = x + 1
  BY <1>1, <1>2, <1>3, SmallInside
<1>5. x + n <= Top
  BY <1>3, <1>4, OwnersAre DEF HeapInv, Tiled
<1>6. x \in Nat /\ size \in Nat /\ SLOB_UNIT \in Nat
  BY <1>4, AddrsAre, SlobConstants
<1>7. x * SLOB_UNIT <= (x + 1) * SLOB_UNIT
  BY <1>6
<1>8. (x + 1) * SLOB_UNIT + size <= (x + n) * SLOB_UNIT
  <2>1. PICK y \in Nat : y = x * SLOB_UNIT
    BY <1>6
  <2>2. PICK z \in Nat : z = n * SLOB_UNIT
    BY <1>6
  <2>3. (x + 1) * SLOB_UNIT = y + SLOB_UNIT /\ (x + n) * SLOB_UNIT = y + z
    BY <1>3, <1>6, <2>1, <2>2
  <2>4. QED
    BY <1>3, <1>6, <2>1, <2>2, <2>3
<1>9. QED
  BY <1>1, <1>2, <1>3, <1>4, <1>5, <1>6, <1>7, <1>8 DEF Reaches

\* Higher pages have higher addresses.
LEMMA PagesUp ==
  ASSUME NEW p \in Nat, NEW q \in Nat, p <= q
  PROVE  /\ Slob!PageAt(p) \in Nat /\ Slob!PageAt(q) \in Nat
         /\ Slob!PageAt(p) <= Slob!PageAt(q)
BY SlobConstants DEF Slob!PageAt

\* The bytes of a big object are within its pages.
LEMMA BigReach ==
  ASSUME NEW B, NEW blk, BlocksPart(B, blk), NEW o \in Objects, blk[o] # None,
         NEW b \in B, b.pages = blk[o].at, NEW first, BigAt(b, first)
  PROVE  Reaches(blk, o, Slob!PageAt(first), Slob!PageAt(first + Spans(b)))
<1>1. PICK m \in Nat : m = Spans(b)
  BY DEF BigAt
<1>2. PICK size \in Sizes : size = blk[o].size
  BY DEF BlocksPart, Blocks
<1>3. size <= m * Slob!PAGE_SIZE
  BY <1>1, <1>2 DEF BlocksPart
<1>4. first \in HeapPage /\ blk[o].at = Slob!PageAt(first) /\ first + m - 1 <= HeapPages
  BY <1>1 DEF BigAt
<1>5. first \in Nat /\ size \in Nat /\ PageUnits \in Nat /\ SLOB_UNIT \in Nat /\ HeapPages \in Nat
  BY <1>4, SlobConstants DEF HeapPage
<1>6. PICK x \in Nat : x = first * PageUnits
  BY <1>5
<1>7. PICK y \in Nat : y = m * PageUnits
  BY <1>5
<1>8. Slob!PageAt(first) = x /\ Slob!PageAt(first + m) = x + y
  BY <1>5, <1>6, <1>7 DEF Slob!PageAt
<1>9. m * Slob!PAGE_SIZE = y * SLOB_UNIT
  BY <1>5, <1>7 DEF Slob!PAGE_SIZE
<1>10. x * SLOB_UNIT + size <= (x + y) * SLOB_UNIT
  <2>1. PICK v \in Nat : v = x * SLOB_UNIT
    BY <1>5
  <2>2. PICK w \in Nat : w = y * SLOB_UNIT
    BY <1>5
  <2>3. (x + y) * SLOB_UNIT = v + w
    BY <1>5, <2>1, <2>2
  <2>4. QED
    BY <1>3, <1>5, <1>9, <2>1, <2>2, <2>3
<1>11. x + y <= Top
  <2>1. first + m <= HeapPages + 1
    BY <1>4, <1>5
  <2>2. Slob!PageAt(first + m) <= Slob!PageAt(HeapPages + 1)
    BY <1>5, <2>1, PagesUp
  <2>3. QED
    BY <1>8, <2>2 DEF Top, Slob!PageAt
<1>12. QED
  BY <1>1, <1>2, <1>4, <1>5, <1>8, <1>10, <1>11 DEF Reaches

\* What two intervals of units have between them.
Clear(lo, hi, lp, hp) == hi <= lp \/ hp <= lo

\* The blocks of two small objects are apart.
LEMMA SmallClear ==
  ASSUME NEW h, NEW L, NEW fp, NEW B, NEW blk,
         BlocksPart(B, blk), ListPart(h, L, fp, B, blk),
         NEW o \in Small(B, blk), NEW q \in Small(B, blk), o # q,
         NEW x, x = Header(blk, o), NEW y, y = Header(blk, q)
  PROVE  Clear(x, x + SmallUnits(blk[o].size), y, y + SmallUnits(blk[q].size))
<1>1. PICK u : u = h.units
  OBVIOUS
<1>2. /\ x \in HeldBy(h, L) /\ x \in Addrs /\ u[x] = SmallUnits(blk[o].size)
      /\ blk[o].at = x + 1
  BY <1>1, SmallInside
<1>3. /\ y \in HeldBy(h, L) /\ y \in Addrs /\ u[y] = SmallUnits(blk[q].size)
      /\ blk[q].at = y + 1
  BY <1>1, SmallInside
<1>4. blk[o].at # blk[q].at
  BY DEF BlocksPart, Small
<1>5. x \in Nat /\ y \in Nat /\ x # y
  BY <1>2, <1>3, <1>4, AddrsAre
<1>6. x \in Heads(u) /\ y \in Heads(u) /\ Tiled(u, Area(Slabs(fp, B)))
  BY <1>1, <1>2, <1>3, OwnersAre DEF HeldBy, HeapInv
<1>7. x < y => x + u[x] <= y
  BY <1>6, TilesApart
<1>8. y < x => y + u[y] <= x
  BY <1>6, TilesApart
<1>9. QED
  BY <1>2, <1>3, <1>5, <1>7, <1>8 DEF Clear

\* The pages of two big objects are apart.
LEMMA BigClear ==
  ASSUME NEW b, NEW c, NEW p, NEW q, BigAt(b, p), BigAt(c, q), Extent(b) \cap Extent(c) = {}
  PROVE  Clear(Slob!PageAt(p), Slob!PageAt(p + Spans(b)),
               Slob!PageAt(q), Slob!PageAt(q + Spans(c)))
<1>1. PICK m \in Nat : m = Spans(b)
  BY DEF BigAt
<1>2. PICK n \in Nat : n = Spans(c)
  BY DEF BigAt
<1>3. p \in Nat /\ q \in Nat
  BY PageIs DEF BigAt
<1>4. /\ p \in Extent(b) /\ Extent(b) = p .. p + m - 1
      /\ q \in Extent(c) /\ Extent(c) = q .. q + n - 1
  BY <1>1, <1>2 DEF BigAt
<1>5. p + m <= q \/ q + n <= p
  BY <1>3, <1>4
<1>6. p + m <= q => Slob!PageAt(p + m) <= Slob!PageAt(q)
  BY <1>3, PagesUp
<1>7. q + n <= p => Slob!PageAt(q + n) <= Slob!PageAt(p)
  BY <1>3, PagesUp
<1>8. QED
  BY <1>1, <1>2, <1>5, <1>6, <1>7 DEF Clear

\* The block of a small object and the pages of a big one are apart.
LEMMA MixedClear ==
  ASSUME NEW h, NEW L, NEW fp, NEW B, NEW blk,
         PagesPart(fp, B), BlocksPart(B, blk), ListPart(h, L, fp, B, blk),
         NEW o \in Small(B, blk), NEW x, x = Header(blk, o),
         NEW b \in B, NEW first, BigAt(b, first)
  PROVE  Clear(x, x + SmallUnits(blk[o].size),
               Slob!PageAt(first), Slob!PageAt(first + Spans(b)))
<1>1. PICK u : u = h.units
  OBVIOUS
<1>2. PICK n : n = SmallUnits(blk[o].size)
  OBVIOUS
<1>3. x \in Addrs /\ u[x] = n /\ n \in Nat /\ n > 0 /\ x \in Nat
  <2>1. x \in Addrs /\ u[x] = n /\ blk[o].size \in Sizes
    BY <1>1, <1>2, SmallInside
  <2>2. n \in Nat /\ n > 1
    BY <1>2, <2>1, SmallUnitsAre
  <2>3. QED
    BY <2>1, <2>2, AddrsAre
<1>4. PICK m \in Nat : m = Spans(b)
  BY DEF BigAt
<1>5. m > 0 /\ first \in HeapPage /\ first \in Nat /\ Extent(b) = first .. first + m - 1
  BY <1>4, PageIs DEF BigAt
<1>6. PICK lp \in Nat : lp = Slob!PageAt(first) /\ PageUnits <= lp
  BY <1>5, PageIs
<1>7. PICK hp \in Nat : hp = Slob!PageAt(first + m)
  BY <1>5, PagesUp
<1>8. PageUnits \in Nat /\ PageUnits > 0
  BY SlobConstants
<1>9. lp + PageUnits <= hp
  BY <1>5, <1>6, <1>7, PagesApart
<1>10. PICK A : A = Area(Slabs(fp, B))
  OBVIOUS
<1>11. Tiled(u, A)
  BY <1>1, <1>10, OwnersAre DEF HeapInv
<1>12. ASSUME lp < x + n, x < hp
       PROVE  FALSE
  <2>1. PICK z \in Nat : z = IF x > lp THEN x ELSE lp
    BY <1>3
  <2>2. x <= z /\ z < x + n /\ lp <= z /\ z < hp
    BY <1>3, <1>6, <1>7, <1>8, <1>9, <1>12, <2>1
  <2>3. x + n <= Top
    BY <1>3, <1>11 DEF Tiled
  <2>4. z \in Addrs
    BY <1>3, <2>2, <2>3, AddrsAre
  <2>5. z \in A
    BY <1>3, <1>11, <2>2, <2>4 DEF Tiled
  <2>6. z # 0
    BY <1>6, <1>8, <2>2
  <2>7. PICK p \in Slabs(fp, B) : z \in PageOf(p)
    BY <1>10, <2>5, <2>6 DEF Area
  <2>8. p \in HeapPage /\ p \notin Extent(b)
    BY <2>7 DEF Slabs
  <2>9. p \in Nat /\ Slob!PageAt(p) \in Nat /\ Slob!PageAt(p) <= z
        /\ z < Slob!PageAt(p) + PageUnits
    BY <1>8, <2>7, <2>8, PageIs
  <2>10. CASE p < first
    <3>1. Slob!PageAt(p) + PageUnits <= lp
      BY <1>5, <1>6, <2>9, <2>10, PagesApart
    <3>2. QED
      BY <1>8, <2>2, <2>9, <3>1
  <2>11. CASE first + m <= p
    <3>1. hp <= Slob!PageAt(p)
      BY <1>5, <1>7, <2>9, <2>11, PagesUp
    <3>2. QED
      BY <2>2, <2>9, <3>1
  <2>12. QED
    BY <1>5, <2>8, <2>9, <2>10, <2>11
<1>13. Clear(x, x + n, lp, hp)
  BY <1>3, <1>12 DEF Clear
<1>14. QED
  BY <1>2, <1>4, <1>6, <1>7, <1>13

BytesOf(x) == x.at * SLOB_UNIT .. x.at * SLOB_UNIT + x.size - 1

\* Objects within units that are apart have no byte in common.
LEMMA ClearBytes ==
  ASSUME NEW blk, NEW o, NEW q, blk[o] \in Blocks, blk[q] \in Blocks,
         NEW lo, NEW hi, NEW lp, NEW hp,
         Reaches(blk, o, lo, hi), Reaches(blk, q, lp, hp), Clear(lo, hi, lp, hp)
  PROVE  BytesOf(blk[o]) \cap BytesOf(blk[q]) = {}
<1>1. PICK a \in Nat : a = blk[o].at * SLOB_UNIT
  BY AddrsAre, SlobConstants DEF Blocks
<1>2. PICK b \in Nat : b = blk[q].at * SLOB_UNIT
  BY AddrsAre, SlobConstants DEF Blocks
<1>3. PICK k \in Nat : k = blk[o].size
  BY SlobConstants DEF Blocks
<1>4. PICK l \in Nat : l = blk[q].size
  BY SlobConstants DEF Blocks
<1>5. /\ lo \in Nat /\ hi \in Nat /\ lp \in Nat /\ hp \in Nat
      /\ lo * SLOB_UNIT <= a /\ a + k <= hi * SLOB_UNIT
      /\ lp * SLOB_UNIT <= b /\ b + l <= hp * SLOB_UNIT
  BY <1>1, <1>2, <1>3, <1>4 DEF Reaches
<1>6. hi <= lp \/ hp <= lo
  BY DEF Clear
<1>7. a + k <= b \/ b + l <= a
  <2>1. PICK s \in Nat : s = SLOB_UNIT
    BY SlobConstants
  <2>2. hi <= lp => hi * s <= lp * s
    BY <1>5, <2>1
  <2>3. hp <= lo => hp * s <= lo * s
    BY <1>5, <2>1
  <2>4. PICK w, x, y, z \in Nat : w = lo * s /\ x = hi * s /\ y = lp * s /\ z = hp * s
    BY <1>5, <2>1
  <2>5. QED
    BY <1>5, <1>6, <2>1, <2>2, <2>3, <2>4
<1>8. (a .. a + k - 1) \cap (b .. b + l - 1) = {}
  BY <1>7
<1>9. QED
  BY <1>1, <1>2, <1>3, <1>4, <1>8 DEF BytesOf

\* No two objects have a byte in common, and all are in the memory there is.
LEMMA StateApart ==
  ASSUME NEW h, NEW fp, NEW B, NEW blk, HeapState(h, fp, B, blk),
         NEW o \in Objects, blk[o] # None
  PROVE  /\ blk[o] \in Blocks /\ blk[o].at * SLOB_UNIT + blk[o].size <= Top * SLOB_UNIT
         /\ \A q \in Objects : q # o /\ blk[q] # None
                                  => BytesOf(blk[q]) \cap BytesOf(blk[o]) = {}
<1>1. PICK L : /\ PagesPart(fp, B) /\ BlocksPart(B, blk) /\ ListPart(h, L, fp, B, blk)
  BY DEF HeapState
<1>2. \A q \in Objects : blk[q] # None => blk[q] \in Blocks
  BY <1>1 DEF BlocksPart
<1>3. ASSUME NEW q \in Objects, blk[q] # None
      PROVE  \E lo, hi : Reaches(blk, q, lo, hi)
  <2>1. CASE q \in Small(B, blk)
    BY <1>1, <2>1, SmallReach
  <2>2. CASE q \notin Small(B, blk)
    <3>1. PICK b \in B : b.pages = blk[q].at
      BY <1>3, <2>2 DEF Small, Big
    <3>2. PICK first : BigAt(b, first)
      BY <1>1, BigIs DEF PagesPart
    <3>3. QED
      BY <1>1, <1>3, <3>1, <3>2, BigReach
  <2>3. QED
    BY <2>1, <2>2
<1>4. blk[o].at * SLOB_UNIT + blk[o].size <= Top * SLOB_UNIT
  <2>1. PICK lo, hi : Reaches(blk, o, lo, hi)
    BY <1>3
  <2>2. hi \in Nat /\ hi <= Top /\ Top \in Nat /\ SLOB_UNIT \in Nat
        /\ blk[o].at * SLOB_UNIT + blk[o].size <= hi * SLOB_UNIT
    BY <2>1, AddrsAre, SlobConstants DEF Reaches
  <2>3. hi * SLOB_UNIT <= Top * SLOB_UNIT
    BY <2>2
  <2>4. PICK x, y \in Nat : x = hi * SLOB_UNIT /\ y = Top * SLOB_UNIT
    BY <2>2
  <2>5. PICK z \in Nat : z = blk[o].at * SLOB_UNIT + blk[o].size
    <3>1. blk[o] \in Blocks
      BY <1>2
    <3>2. blk[o].at \in Nat /\ blk[o].size \in Nat
      <4>1. blk[o].at \in Addrs /\ blk[o].size \in Sizes
        BY <3>1 DEF Blocks
      <4>2. Addrs \subseteq Nat /\ Sizes \subseteq Nat
        BY AddrsAre, SlobConstants
      <4>3. QED
        BY <4>1, <4>2
    <3>3. blk[o].at * SLOB_UNIT \in Nat
      BY <2>2, <3>2
    <3>4. QED
      BY <3>2, <3>3
  <2>6. QED
    BY <2>2, <2>3, <2>4, <2>5
<1>5. ASSUME NEW q \in Objects, q # o, blk[q] # None
      PROVE  BytesOf(blk[q]) \cap BytesOf(blk[o]) = {}
  <2>1. blk[q] \in Blocks /\ blk[o] \in Blocks
    BY <1>2, <1>5
  <2>2. CASE o \in Small(B, blk) /\ q \in Small(B, blk)
    <3>1. PICK x : x = Header(blk, o)
      OBVIOUS
    <3>2. PICK y : y = Header(blk, q)
      OBVIOUS
    <3>3. Clear(y, y + SmallUnits(blk[q].size), x, x + SmallUnits(blk[o].size))
      BY <1>1, <1>5, <2>2, <3>1, <3>2, SmallClear
    <3>4. /\ Reaches(blk, o, x, x + SmallUnits(blk[o].size))
          /\ Reaches(blk, q, y, y + SmallUnits(blk[q].size))
      BY <1>1, <2>2, <3>1, <3>2, SmallReach
    <3>5. QED
      BY <2>1, <3>3, <3>4, ClearBytes
  <2>3. ASSUME NEW v \in Small(B, blk), NEW w \in Objects, w \notin Small(B, blk), blk[w] # None
        PROVE  BytesOf(blk[v]) \cap BytesOf(blk[w]) = {}
    <3>1. PICK x : x = Header(blk, v)
      OBVIOUS
    <3>2. PICK b \in B : b.pages = blk[w].at
      BY <2>3 DEF Small, Big
    <3>3. PICK first : BigAt(b, first)
      BY <1>1, BigIs DEF PagesPart
    <3>4. Clear(x, x + SmallUnits(blk[v].size),
                Slob!PageAt(first), Slob!PageAt(first + Spans(b)))
      BY <1>1, <3>1, <3>3, MixedClear
    <3>5. Reaches(blk, v, x, x + SmallUnits(blk[v].size))
      BY <1>1, <3>1, SmallReach
    <3>6. Reaches(blk, w, Slob!PageAt(first), Slob!PageAt(first + Spans(b)))
      BY <1>1, <2>3, <3>2, <3>3, BigReach
    <3>7. blk[v] \in Blocks /\ blk[w] \in Blocks
      BY <1>2, <2>3 DEF Small
    <3>8. QED
      BY <3>4, <3>5, <3>6, <3>7, ClearBytes
  <2>4. CASE o \in Small(B, blk) /\ q \notin Small(B, blk)
    BY <1>5, <2>3, <2>4
  <2>5. CASE o \notin Small(B, blk) /\ q \in Small(B, blk)
    BY <2>3, <2>5
  <2>6. CASE o \notin Small(B, blk) /\ q \notin Small(B, blk)
    <3>1. PICK b \in B : b.pages = blk[o].at
      BY <2>6 DEF Small, Big
    <3>2. PICK c \in B : c.pages = blk[q].at
      BY <1>5, <2>6 DEF Small, Big
    <3>3. c # b
      BY <1>1, <1>5, <3>1, <3>2 DEF BlocksPart
    <3>4. PICK p : BigAt(b, p)
      BY <1>1, BigIs DEF PagesPart
    <3>5. PICK r : BigAt(c, r)
      BY <1>1, BigIs DEF PagesPart
    <3>6. Extent(c) \cap Extent(b) = {}
      BY <1>1, <3>3 DEF PagesPart
    <3>7. Clear(Slob!PageAt(r), Slob!PageAt(r + Spans(c)),
                Slob!PageAt(p), Slob!PageAt(p + Spans(b)))
      BY <3>4, <3>5, <3>6, BigClear
    <3>8. Reaches(blk, o, Slob!PageAt(p), Slob!PageAt(p + Spans(b)))
      BY <1>1, <3>1, <3>4, BigReach
    <3>9. Reaches(blk, q, Slob!PageAt(r), Slob!PageAt(r + Spans(c)))
      BY <1>1, <1>5, <3>2, <3>5, BigReach
    <3>10. QED
      BY <2>1, <3>7, <3>8, <3>9, ClearBytes
  <2>7. QED
    BY <2>2, <2>4, <2>5, <2>6
<1>6. QED
  BY <1>2, <1>4, <1>5

-----------------------------------------------------------------------------
(* The calls of kmalloc and kfree.                                         *)

\* The operators on sequences that Slob uses are those of SequencesExt.
LEMMA SlobSequences ==
  /\ \A s : Slob!ToSet(s) = ToSet(s) /\ \A i : Slob!RemoveAt(s, i) = RemoveAt(s, i)
  /\ \A S : Slob!Min(S) = Min(S)
BY DEF Slob!ToSet, ToSet, Slob!RemoveAt, RemoveAt, Slob!Min, Min

Orders == {Slob!find_order(size) : size \in Sizes}
Bigs == [bb : Addrs, order : Orders, pages : Addrs]

SlobState(h, fp, bs, blk) ==
    HeapState(h, fp, ToSet(bs), blk) /\ bs \in Seq(Bigs) /\ IsInjective(bs)

\* The inductive invariant of Slob.
SlobInv == SlobState(Slob!List, freePages, bigblocks, object)

\* What a call does to the block of o.
Changes(blk, o, new) ==
    \/ new = blk
    \/ blk[o] = None /\ \E x : x # None /\ new = WithBlock(blk, o, x)
    \/ blk[o] # None /\ new = WithBlock(blk, o, None)

\* The heap grows for a small object only when there was no room for it.
Grows(h, fp, bs, blk, o, fq, cs, new) ==
    o \in Small(ToSet(cs), new) /\ new # blk =>
        /\ cs = bs
        /\ \E L : /\ HeapInv(h, L, Area(Slabs(fp, ToSet(bs))))
                  /\ fq # fp => ~HasRoom(h, L, SmallUnits(new[o].size))

\* A call.
Calls(h, fp, bs, blk, o, g, fq, cs, new) ==
    /\ SlobState(g, fq, cs, new) /\ Changes(blk, o, new)
    /\ Grows(h, fp, bs, blk, o, fq, cs, new)

\* What slob_alloc may have done.
LEMMA AllocIs ==
  ASSUME NEW h, NEW fp, NEW B, NEW blk, NEW L,
         PagesPart(fp, B), BlocksPart(B, blk), ListPart(h, L, fp, B, blk),
         NEW n \in Nat, n > 1, n <= PageUnits, NEW r \in Slob!slob_alloc(h, fp, n)
  PROVE  \/ r.at = None /\ r.heap = h /\ r.pages = fp
         \/ /\ r.pages \in SUBSET fp /\ (r.pages # fp => ~HasRoom(h, L, n))
            /\ r.at # None
            /\ \E M : Allocs(h, L, r, M, Slabs(fp, B) \cup (fp \ r.pages), n)
<1>1. PICK P : P = Slabs(fp, B)
  OBVIOUS
<1>2. P \in SUBSET HeapPage /\ fp \in SUBSET HeapPage /\ fp \cap P = {}
  BY <1>1 DEF Slabs, PagesPart
<1>3. HeapInv(h, L, Area(P))
  BY <1>1 DEF ListPart
<1>4. \/ r.at = None /\ r.heap = h /\ r.pages = fp
      \/ /\ r.pages \subseteq fp /\ (r.pages # fp => ~HasRoom(h, L, n))
         /\ \E M : Allocs(h, L, r, M, P \cup (fp \ r.pages), n)
  BY <1>2, <1>3, AllocKeeps
<1>5. ASSUME NEW M, Allocs(h, L, r, M, P \cup (fp \ r.pages), n)
      PROVE  r.at # None
  BY <1>5, NoBlock DEF Allocs
<1>6. QED
  BY <1>1, <1>4, <1>5

\* A call that gets nothing.
LEMMA NothingCalled ==
  ASSUME NEW h, NEW fp, NEW bs, NEW blk, NEW o, NEW g, NEW fq, SlobState(g, fq, bs, blk)
  PROVE  Calls(h, fp, bs, blk, o, g, fq, bs, blk)
BY DEF Calls, Changes, Grows

\* A small object gets its block.
SmallGot(h, L, fp, B, blk, o, size, fq, r, M, new) ==
    /\ PagesPart(fp, B) /\ BlocksPart(B, blk) /\ ListPart(h, L, fp, B, blk)
    /\ o \in Objects /\ blk[o] = None /\ size \in Sizes /\ fq \in SUBSET fp
    /\ Allocs(h, L, r, M, Slabs(fp, B) \cup (fp \ fq), SmallUnits(size))
    /\ new = WithBlock(blk, o, BlockAt(r.at, size))

\* SmallTaken, with its hypotheses under a name.
LEMMA SmallGets ==
  ASSUME NEW h, NEW L, NEW fp, NEW B, NEW blk, NEW o, NEW size, NEW fq, NEW r, NEW M, NEW new,
         SmallGot(h, L, fp, B, blk, o, size, fq, r, M, new)
  PROVE  HeapState(r.heap, fq, B, new) /\ Small(B, new) = Small(B, blk) \cup {o}
BY SmallTaken DEF SmallGot

\* What a call for a small object gets.
Given(blk, o, at, size) ==
    IF at = None THEN blk ELSE [blk EXCEPT ![o] = [at |-> at + 1, size |-> size]]

\* kmalloc of a small object, which may get nothing.
LEMMA SmallCalled ==
  ASSUME NEW h, NEW fp, NEW bs, NEW blk, SlobState(h, fp, bs, blk),
         NEW o \in Objects, blk[o] = None, NEW size \in Sizes,
         Slob!Accepts(size + SLOB_UNIT),
         NEW r \in Slob!slob_alloc(h, fp, SmallUnits(size)),
         NEW new, new = Given(blk, o, r.at, size)
  PROVE  Calls(h, fp, bs, blk, o, r.heap, r.pages, bs, new)
<1>1. PICK B : B = ToSet(bs)
  OBVIOUS
<1>2. PICK L : PagesPart(fp, B) /\ BlocksPart(B, blk) /\ ListPart(h, L, fp, B, blk)
  BY <1>1 DEF SlobState, HeapState
<1>3. bs \in Seq(Bigs) /\ IsInjective(bs)
  BY DEF SlobState
<1>4. PICK n : n = SmallUnits(size)
  OBVIOUS
<1>5. n \in Nat /\ n > 1 /\ n <= PageUnits
  BY <1>4, SmallUnitsAre
<1>6. r \in Slob!slob_alloc(h, fp, n)
  BY <1>4
<1>7. CASE r.at = None /\ r.heap = h /\ r.pages = fp
  <2>1. new = blk
    BY <1>7 DEF Given
  <2>2. QED
    BY <1>7, <2>1, NothingCalled
<1>8. CASE /\ r.pages \in SUBSET fp /\ (r.pages # fp => ~HasRoom(h, L, n))
           /\ r.at # None
           /\ \E M : Allocs(h, L, r, M, Slabs(fp, B) \cup (fp \ r.pages), n)
  <2>1. PICK fq \in SUBSET fp : fq = r.pages
    BY <1>8
  <2>2. PICK M : Allocs(h, L, r, M, Slabs(fp, B) \cup (fp \ fq), SmallUnits(size))
    BY <1>4, <1>8, <2>1
  <2>3. new = WithBlock(blk, o, BlockAt(r.at, size))
    BY <1>8 DEF WithBlock, Given, BlockAt
  <2>4. HeapState(r.heap, fq, B, new)
    <3>1. SmallGot(h, L, fp, B, blk, o, size, fq, r, M, new)
      BY <1>2, <2>2, <2>3 DEF SmallGot
    <3>2. QED
      BY <3>1, SmallGets
  <2>5. SlobState(r.heap, fq, bs, new)
    BY <1>1, <1>3, <2>4 DEF SlobState
  <2>6. Changes(blk, o, new)
    <3>1. PICK x : x = BlockAt(r.at, size)
      OBVIOUS
    <3>2. x # None
      <4>1. r.at \in Nat /\ size \in Nat
        BY <2>2, AddrsAre, SlobConstants DEF Allocs
      <4>2. x \in [at : Nat, size : Nat]
        BY <3>1, <4>1 DEF BlockAt
      <4>3. QED
        BY <4>2, PagingAndHeapAssumption DEF Slob!SlobAssumption
    <3>3. QED
      BY <2>3, <3>1, <3>2 DEF Changes
  <2>7. Grows(h, fp, bs, blk, o, fq, bs, new)
    <3>1. HeapInv(h, L, Area(Slabs(fp, B)))
      BY <1>2 DEF ListPart
    <3>2. new[o].size = size
      <4>1. PICK x : x = BlockAt(r.at, size)
        OBVIOUS
      <4>2. new = WithBlock(blk, o, x)
        BY <2>3, <4>1
      <4>3. new[o] = x
        BY <1>2, <4>2, BlockSet
      <4>4. QED
        BY <4>1, <4>3 DEF BlockAt
    <3>3. fq # fp => ~HasRoom(h, L, SmallUnits(new[o].size))
      BY <1>4, <1>8, <2>1, <3>2
    <3>4. QED
      BY <1>1, <3>1, <3>3 DEF Grows
  <2>8. QED
    BY <2>1, <2>5, <2>6, <2>7 DEF Calls
<1>9. QED
  BY <1>2, <1>5, <1>6, <1>7, <1>8, AllocIs

BigNew(at, first, order) ==
    [bb |-> at, order |-> order, pages |-> Slob!PageAt(first)]

\* The pages that were found are those of the big block.
LEMMA BigFound ==
  ASSUME NEW at \in Addrs, NEW size \in Sizes, size >= Slob!PAGE_SIZE - SLOB_UNIT,
         NEW order, order = Slob!find_order(size), NEW fq \in SUBSET HeapPage,
         NEW first \in fq, Slob!Pages(first, order) \subseteq fq,
         NEW b, b = BigNew(at, first, order)
  PROVE  /\ b \in Bigs /\ b.bb = at /\ b.pages = Slob!PageAt(first) /\ BigAt(b, first)
         /\ Extent(b) = Slob!Pages(first, order) /\ size <= Spans(b) * Slob!PAGE_SIZE
<1>1. b.bb = at /\ b.pages = Slob!PageAt(first) /\ b.order = order
  BY DEF BigNew
<1>2. first \in HeapPage
  OBVIOUS
<1>3. b \in Bigs
  <2>1. order \in Orders
    BY DEF Orders
  <2>2. Slob!PageAt(first) \in Addrs
    BY <1>2, PageIs
  <2>3. QED
    BY <2>1, <2>2 DEF BigNew, Bigs
<1>4. PICK k : k = 2 ^ order
  OBVIOUS
<1>5. k \in Nat /\ size <= k * Slob!PAGE_SIZE
  BY <1>4, PagingAndHeapAssumption DEF Slob!OrdersSuffice
<1>6. k > 0
  <2>1. size \in Nat /\ size > 0 /\ Slob!PAGE_SIZE \in Nat
    BY SlobConstants DEF Slob!PAGE_SIZE
  <2>2. k = 0 => k * Slob!PAGE_SIZE = 0
    BY <2>1
  <2>3. QED
    BY <1>5, <2>1, <2>2
<1>7. Spans(b) = k
  BY <1>1, <1>4 DEF Spans
<1>8. Extent(b) = Slob!Pages(first, order)
  <2>1. b.pages \div PageUnits = first
    BY <1>1, <1>2, PageIs
  <2>2. QED
    BY <1>1, <2>1 DEF Extent
<1>9. Extent(b) = first .. first + k - 1
  BY <1>4, <1>8 DEF Slob!Pages
<1>10. first \in Nat /\ HeapPages \in Nat /\ Extent(b) \subseteq 1 .. HeapPages
  <2>1. Extent(b) \subseteq HeapPage
    BY <1>8
  <2>2. QED
    BY <1>2, <2>1, SlobConstants DEF HeapPage
<1>11. first + k - 1 \in Extent(b) /\ first \in Extent(b)
  BY <1>5, <1>6, <1>9, <1>10
<1>12. first + k - 1 <= HeapPages
  BY <1>10, <1>11
<1>13. BigAt(b, first)
  BY <1>1, <1>2, <1>5, <1>6, <1>7, <1>9, <1>10, <1>11, <1>12 DEF BigAt, HeapPage
<1>14. QED
  BY <1>1, <1>3, <1>5, <1>7, <1>8, <1>13

\* The state after a call for a big object that gets one, or nothing.
LEMMA BigCalled ==
  ASSUME NEW h, NEW fp, NEW bs, NEW blk, SlobState(h, fp, bs, blk),
         NEW o \in Objects, blk[o] = None, NEW size \in Sizes,
         size >= Slob!PAGE_SIZE - SLOB_UNIT, NEW order, order = Slob!find_order(size),
         NEW r \in Slob!slob_alloc(h, fp, BigUnits), r.at # None,
         NEW first \in r.pages, Slob!Pages(first, order) \subseteq r.pages,
         NEW b, b = BigNew(r.at, first, order),
         NEW new, new = WithBlock(blk, o, PagesOf(b, size))
  PROVE  Calls(h, fp, bs, blk, o, r.heap, r.pages \ Slob!Pages(first, order), <<b>> \o bs, new)
<1>1. PICK B : B = ToSet(bs)
  OBVIOUS
<1>2. PICK L : PagesPart(fp, B) /\ BlocksPart(B, blk) /\ ListPart(h, L, fp, B, blk)
  BY <1>1 DEF SlobState, HeapState
<1>3. bs \in Seq(Bigs) /\ IsInjective(bs)
  BY DEF SlobState
<1>4. PICK n \in Nat : n = BigUnits /\ n > 1 /\ n <= PageUnits
  BY BlockUnits
<1>5. r \in Slob!slob_alloc(h, fp, n)
  BY <1>4
<1>6. /\ r.pages \in SUBSET fp
      /\ \E M : Allocs(h, L, r, M, Slabs(fp, B) \cup (fp \ r.pages), n)
  BY <1>2, <1>4, <1>5, AllocIs
<1>7. PICK fq \in SUBSET fp : fq = r.pages
  BY <1>6
<1>8. PICK M : Allocs(h, L, r, M, Slabs(fp, B) \cup (fp \ fq), BigUnits)
  BY <1>4, <1>6, <1>7
<1>9. PICK a \in Addrs : a = r.at
  BY <1>8 DEF Allocs
<1>10. fq \in SUBSET HeapPage
  BY <1>2, <1>7 DEF PagesPart
<1>11. /\ b \in Bigs /\ b.bb = a /\ b.pages = Slob!PageAt(first) /\ BigAt(b, first)
       /\ Extent(b) = Slob!Pages(first, order) /\ size <= Spans(b) * Slob!PAGE_SIZE
  <2>1. first \in fq /\ Slob!Pages(first, order) \subseteq fq /\ b = BigNew(a, first, order)
    BY <1>7, <1>9
  <2>2. QED
    BY <1>10, <2>1, BigFound
<1>12. PICK C : C = B \cup {b}
  OBVIOUS
<1>13. PICK fr : fr = fq \ Extent(b)
  OBVIOUS
<1>14. BigGot(h, L, fp, B, blk, o, size, fq, r, M, b, first, fr, C, new)
  <2>1. Extent(b) \subseteq fq
    BY <1>7, <1>11
  <2>2. QED
    BY <1>2, <1>8, <1>9, <1>11, <1>12, <1>13, <2>1 DEF BigGot
<1>15. HeapState(r.heap, fr, C, new) /\ Small(C, new) = Small(B, blk) /\ b \notin B
  BY <1>14, BigTaken
<1>16. PICK cs : cs = <<b>> \o bs
  OBVIOUS
<1>17. cs \in Seq(Bigs) /\ ToSet(cs) = C /\ IsInjective(cs)
  BY <1>1, <1>3, <1>11, <1>12, <1>15, <1>16, ConsSet
<1>18. SlobState(r.heap, fr, cs, new)
  BY <1>15, <1>17 DEF SlobState
<1>19. Changes(blk, o, new)
  <2>1. PICK x : x = PagesOf(b, size)
    OBVIOUS
  <2>2. b.pages \in Nat /\ size \in Nat
    BY <1>11, AddrsAre, SlobConstants DEF Bigs
  <2>3. x \in [at : Nat, size : Nat]
    BY <2>1, <2>2 DEF PagesOf
  <2>4. x # None
    BY <2>3, PagingAndHeapAssumption DEF Slob!SlobAssumption
  <2>5. QED
    BY <2>1, <2>4 DEF Changes
<1>20. o \notin Small(ToSet(cs), new)
  BY <1>15, <1>17 DEF Small
<1>21. Grows(h, fp, bs, blk, o, fr, cs, new)
  BY <1>20 DEF Grows
<1>22. fr = r.pages \ Slob!Pages(first, order)
  BY <1>7, <1>11, <1>13
<1>23. QED
  BY <1>16, <1>18, <1>19, <1>21, <1>22 DEF Calls

\* There is no room for a bigblock_t, or there are no pages.
LEMMA BigNotCalled ==
  ASSUME NEW h, NEW fp, NEW bs, NEW blk, SlobState(h, fp, bs, blk), NEW o,
         NEW r \in Slob!slob_alloc(h, fp, BigUnits),
         NEW g, g = IF r.at = None THEN r.heap ELSE Slob!Freed(r.heap, r.at, BigblockSize)
  PROVE  Calls(h, fp, bs, blk, o, g, r.pages, bs, blk)
<1>1. PICK B : B = ToSet(bs)
  OBVIOUS
<1>2. PICK L : PagesPart(fp, B) /\ BlocksPart(B, blk) /\ ListPart(h, L, fp, B, blk)
  BY <1>1 DEF SlobState, HeapState
<1>3. bs \in Seq(Bigs) /\ IsInjective(bs)
  BY DEF SlobState
<1>4. PICK n \in Nat : n = BigUnits /\ n > 1 /\ n <= PageUnits
  BY BlockUnits
<1>5. r \in Slob!slob_alloc(h, fp, n)
  BY <1>4
<1>6. CASE r.at = None /\ r.heap = h /\ r.pages = fp
  BY <1>6, NothingCalled
<1>7. CASE /\ r.pages \in SUBSET fp /\ r.at # None
           /\ \E M : Allocs(h, L, r, M, Slabs(fp, B) \cup (fp \ r.pages), n)
  <2>1. PICK fq \in SUBSET fp : fq = r.pages
    BY <1>7
  <2>2. PICK M : Allocs(h, L, r, M, Slabs(fp, B) \cup (fp \ fq), BigUnits)
    BY <1>4, <1>7, <2>1
  <2>3. g = Slob!Freed(r.heap, r.at, BigblockSize)
    BY <1>7
  <2>4. HeapState(Slob!Freed(r.heap, r.at, BigblockSize), fq, B, blk)
    BY <1>2, <2>2, BigFailed
  <2>5. SlobState(g, fq, bs, blk)
    BY <1>1, <1>3, <2>3, <2>4 DEF SlobState
  <2>6. QED
    BY <2>1, <2>5, NothingCalled
<1>8. QED
  BY <1>2, <1>4, <1>5, <1>6, <1>7, AllocIs

\* kfree of a small object.
LEMMA SmallReturned ==
  ASSUME NEW h, NEW fp, NEW bs, NEW blk, SlobState(h, fp, bs, blk),
         NEW o \in Objects, blk[o] # None, ~Big(ToSet(bs), blk[o].at),
         NEW new, new = WithBlock(blk, o, None)
  PROVE  Calls(h, fp, bs, blk, o, Slob!slob_free(h, blk[o].at - 1), fp, bs, new)
<1>1. PICK B : B = ToSet(bs)
  OBVIOUS
<1>2. PICK L : PagesPart(fp, B) /\ BlocksPart(B, blk) /\ ListPart(h, L, fp, B, blk)
  BY <1>1 DEF SlobState, HeapState
<1>3. bs \in Seq(Bigs) /\ IsInjective(bs)
  BY DEF SlobState
<1>4. o \in Small(B, blk)
  BY <1>1 DEF Small
<1>5. PICK g : g = Slob!slob_free(h, Header(blk, o))
  OBVIOUS
<1>6. HeapState(g, fp, B, new)
  BY <1>2, <1>4, <1>5, SmallFreed
<1>7. SlobState(g, fp, bs, new)
  BY <1>1, <1>3, <1>6 DEF SlobState
<1>8. Changes(blk, o, new)
  BY DEF Changes
<1>9. new[o] = None
  BY <1>2, BlockSet
<1>10. Grows(h, fp, bs, blk, o, fp, bs, new)
  BY <1>9 DEF Grows, Small
<1>11. g = Slob!slob_free(h, blk[o].at - 1)
  BY <1>5 DEF Header
<1>12. QED
  BY <1>7, <1>8, <1>10, <1>11 DEF Calls

\* kfree of a big object, which is taken off the list of big blocks.
LEMMA BigReturned ==
  ASSUME NEW h, NEW fp, NEW bs, NEW blk, SlobState(h, fp, bs, blk),
         NEW o \in Objects, blk[o] # None, NEW i \in DOMAIN bs, bs[i].pages = blk[o].at,
         NEW new, new = WithBlock(blk, o, None)
  PROVE  Calls(h, fp, bs, blk, o, Slob!Freed(h, bs[i].bb, BigblockSize),
               fp \cup Slob!Pages(bs[i].pages \div PageUnits, bs[i].order),
               RemoveAt(bs, i), new)
<1>1. PICK B : B = ToSet(bs)
  OBVIOUS
<1>2. PICK L : PagesPart(fp, B) /\ BlocksPart(B, blk) /\ ListPart(h, L, fp, B, blk)
  BY <1>1 DEF SlobState, HeapState
<1>3. bs \in Seq(Bigs) /\ IsInjective(bs)
  BY DEF SlobState
<1>4. PICK b : b = bs[i]
  OBVIOUS
<1>5. b \in B /\ b.pages = blk[o].at
  BY <1>1, <1>4 DEF ToSet
<1>6. PICK C : C = B \ {b}
  OBVIOUS
<1>7. PICK cs : cs = RemoveAt(bs, i)
  OBVIOUS
<1>8. cs \in Seq(Bigs) /\ ToSet(cs) = C /\ IsInjective(cs)
  <2>1. i \in 1 .. Len(bs)
    BY <1>3
  <2>2. QED
    BY <1>1, <1>3, <1>4, <1>6, <1>7, <2>1, RemoveSet
<1>9. PICK fq : fq = fp \cup Extent(b)
  OBVIOUS
<1>10. PICK g : g = Slob!Freed(h, b.bb, BigblockSize)
  OBVIOUS
<1>11. HeapState(g, fq, C, new)
  BY <1>2, <1>5, <1>6, <1>9, <1>10, BigFreed
<1>12. SlobState(g, fq, cs, new)
  BY <1>8, <1>11 DEF SlobState
<1>13. Changes(blk, o, new)
  BY DEF Changes
<1>14. new[o] = None
  BY <1>2, BlockSet
<1>15. Grows(h, fp, bs, blk, o, fq, cs, new)
  BY <1>14 DEF Grows, Small
<1>16. fq = fp \cup Slob!Pages(bs[i].pages \div PageUnits, bs[i].order)
  BY <1>4, <1>9 DEF Extent
<1>17. QED
  BY <1>4, <1>7, <1>10, <1>12, <1>13, <1>15, <1>16 DEF Calls

-----------------------------------------------------------------------------
(* The steps of Slob.                                                      *)

\* The list after a step is the one that the step sets.
LEMMA ListAfter ==
  ASSUME NEW h, NEW fp, NEW B, NEW blk, HeapState(h, fp, B, blk), Slob!Becomes(h)
  PROVE  Slob!List' = h
<1>1. h \in Lists
  BY DEF HeapState, ListPart, HeapInv
<1>2. h = [units |-> h.units, next |-> h.next, slobfree |-> h.slobfree]
  BY <1>1, ListFields
<1>3. units' = h.units /\ next_unit' = h.next /\ slobfree' = h.slobfree
  BY DEF Slob!Becomes
<1>4. QED
  BY <1>2, <1>3 DEF Slob!List

\* A step of Slob for o.
Called(o) ==
    Calls(Slob!List, freePages, bigblocks, object, o,
          Slob!List', freePages', bigblocks', object')

\* The state after a call is the one that the step sets.
LEMMA CallIs ==
  ASSUME NEW h, NEW fp, NEW bs, NEW blk, NEW o, NEW g, NEW fq, NEW cs, NEW new,
         Calls(h, fp, bs, blk, o, g, fq, cs, new),
         h = Slob!List, fp = freePages, bs = bigblocks, blk = object,
         Slob!Becomes(g), fq = freePages', cs = bigblocks', new = object'
  PROVE  Called(o)
<1>1. HeapState(g, fq, ToSet(cs), new)
  BY DEF Calls, SlobState
<1>2. Slob!List' = g
  BY <1>1, ListAfter
<1>3. QED
  BY <1>2 DEF Called

\* kmalloc of less than a page is a call.
LEMMA SmallAllocStep ==
  ASSUME SlobInv, NEW o \in Objects, NEW size \in Sizes, Slob!SmallAlloc(o, size)
  PROVE  Called(o)
<1>1. PICK h, fp, bs, blk : h = Slob!List /\ fp = freePages /\ bs = bigblocks /\ blk = object
  OBVIOUS
<1>2. SlobState(h, fp, bs, blk)
  BY <1>1 DEF SlobInv
<1>3. blk[o] = None /\ bigblocks' = bs
  BY <1>1 DEF Slob!SmallAlloc
<1>4. CASE Slob!Accepts(size + SLOB_UNIT)
  <2>1. PICK r \in Slob!slob_alloc(h, fp, SmallUnits(size)) :
            /\ Slob!Becomes(r.heap) /\ freePages' = r.pages
            /\ object' = IF r.at = None THEN blk
                         ELSE [blk EXCEPT ![o] = [at |-> r.at + 1, size |-> size]]
    BY <1>1, <1>4 DEF Slob!SmallAlloc, SmallUnits
  <2>2. PICK new : new = Given(blk, o, r.at, size)
    OBVIOUS
  <2>3. object' = new
    BY <2>1, <2>2 DEF Given
  <2>4. Calls(h, fp, bs, blk, o, r.heap, r.pages, bs, new)
    BY <1>2, <1>3, <1>4, <2>2, SmallCalled
  <2>5. QED
    BY <1>1, <1>3, <2>1, <2>3, <2>4, CallIs
<1>5. CASE ~Slob!Accepts(size + SLOB_UNIT)
  <2>1. UNCHANGED <<units, next_unit, slobfree, freePages, object>>
    BY <1>5 DEF Slob!SmallAlloc
  <2>2. Slob!List' = h
    BY <1>1, <2>1 DEF Slob!List
  <2>3. Calls(h, fp, bs, blk, o, h, fp, bs, blk)
    BY <1>2, NothingCalled
  <2>4. QED
    BY <1>1, <1>3, <2>1, <2>2, <2>3 DEF Called
<1>6. QED
  BY <1>4, <1>5

\* kmalloc of a page or more is a call.
LEMMA BigAllocStep ==
  ASSUME SlobInv, NEW o \in Objects, NEW size \in Sizes, Slob!BigAlloc(o, size)
  PROVE  Called(o)
<1>1. PICK h, fp, bs, blk : h = Slob!List /\ fp = freePages /\ bs = bigblocks /\ blk = object
  OBVIOUS
<1>2. SlobState(h, fp, bs, blk)
  BY <1>1 DEF SlobInv
<1>3. PICK order : order = Slob!find_order(size)
  OBVIOUS
<1>4. /\ blk[o] = None /\ size >= Slob!PAGE_SIZE - SLOB_UNIT
      /\ \E r \in Slob!slob_alloc(h, fp, BigUnits) :
            \/ /\ Slob!Becomes(IF r.at = None THEN r.heap
                               ELSE Slob!Freed(r.heap, r.at, BigblockSize))
               /\ freePages' = r.pages /\ bigblocks' = bs /\ object' = blk
            \/ /\ r.at # None
               /\ \E first \in r.pages :
                     /\ Slob!Pages(first, order) \subseteq r.pages
                     /\ freePages' = r.pages \ Slob!Pages(first, order)
                     /\ bigblocks' = <<BigNew(r.at, first, order)>> \o bs
                     /\ object' = [blk EXCEPT ![o] =
                                      [at |-> Slob!PageAt(first), size |-> size]]
               /\ Slob!Becomes(r.heap)
  BY <1>1, <1>3 DEF Slob!BigAlloc, BigUnits, BigNew
<1>5. PICK r \in Slob!slob_alloc(h, fp, BigUnits) :
            \/ /\ Slob!Becomes(IF r.at = None THEN r.heap
                               ELSE Slob!Freed(r.heap, r.at, BigblockSize))
               /\ freePages' = r.pages /\ bigblocks' = bs /\ object' = blk
            \/ /\ r.at # None
               /\ \E first \in r.pages :
                     /\ Slob!Pages(first, order) \subseteq r.pages
                     /\ freePages' = r.pages \ Slob!Pages(first, order)
                     /\ bigblocks' = <<BigNew(r.at, first, order)>> \o bs
                     /\ object' = [blk EXCEPT ![o] =
                                      [at |-> Slob!PageAt(first), size |-> size]]
               /\ Slob!Becomes(r.heap)
  BY <1>4
<1>6. CASE /\ Slob!Becomes(IF r.at = None THEN r.heap
                           ELSE Slob!Freed(r.heap, r.at, BigblockSize))
           /\ freePages' = r.pages /\ bigblocks' = bs /\ object' = blk
  <2>1. PICK g : g = IF r.at = None THEN r.heap ELSE Slob!Freed(r.heap, r.at, BigblockSize)
    OBVIOUS
  <2>2. Slob!Becomes(g)
    BY <1>6, <2>1
  <2>3. Calls(h, fp, bs, blk, o, g, r.pages, bs, blk)
    BY <1>2, <2>1, BigNotCalled
  <2>4. QED
    BY <1>1, <1>6, <2>2, <2>3, CallIs
<1>7. CASE /\ r.at # None
           /\ \E first \in r.pages :
                 /\ Slob!Pages(first, order) \subseteq r.pages
                 /\ freePages' = r.pages \ Slob!Pages(first, order)
                 /\ bigblocks' = <<BigNew(r.at, first, order)>> \o bs
                 /\ object' = [blk EXCEPT ![o] =
                                  [at |-> Slob!PageAt(first), size |-> size]]
           /\ Slob!Becomes(r.heap)
  <2>1. PICK first \in r.pages :
                 /\ Slob!Pages(first, order) \subseteq r.pages
                 /\ freePages' = r.pages \ Slob!Pages(first, order)
                 /\ bigblocks' = <<BigNew(r.at, first, order)>> \o bs
                 /\ object' = [blk EXCEPT ![o] =
                                  [at |-> Slob!PageAt(first), size |-> size]]
    BY <1>7
  <2>2. PICK b : b = BigNew(r.at, first, order)
    OBVIOUS
  <2>3. PICK new : new = WithBlock(blk, o, PagesOf(b, size))
    OBVIOUS
  <2>4. object' = new
    BY <2>1, <2>2, <2>3 DEF WithBlock, PagesOf, BigNew
  <2>5. PICK cs : cs = <<b>> \o bs
    OBVIOUS
  <2>6. PICK fq : fq = r.pages \ Slob!Pages(first, order)
    OBVIOUS
  <2>7. Calls(h, fp, bs, blk, o, r.heap, fq, cs, new)
    <3>1. r.at # None /\ Slob!Pages(first, order) \subseteq r.pages
      BY <1>7, <2>1
    <3>2. Calls(h, fp, bs, blk, o, r.heap, r.pages \ Slob!Pages(first, order), <<b>> \o bs, new)
      BY <1>2, <1>3, <1>4, <2>2, <2>3, <3>1, BigCalled
    <3>3. QED
      BY <2>5, <2>6, <3>2
  <2>8. freePages' = fq /\ bigblocks' = cs
    BY <2>1, <2>2, <2>5, <2>6
  <2>9. QED
    BY <1>1, <1>7, <2>4, <2>7, <2>8, CallIs
<1>8. QED
  BY <1>5, <1>6, <1>7

\* kfree is a call.
LEMMA FreeStep ==
  ASSUME SlobInv, NEW o \in Objects, Slob!kfree(o)
  PROVE  Called(o)
<1>1. PICK h, fp, bs, blk : h = Slob!List /\ fp = freePages /\ bs = bigblocks /\ blk = object
  OBVIOUS
<1>2. SlobState(h, fp, bs, blk)
  BY <1>1 DEF SlobInv
<1>3. PICK I : I = {i \in DOMAIN bs : bs[i].pages = blk[o].at}
  OBVIOUS
<1>4. I = Slob!Big(object[o].at)
  BY <1>1, <1>3 DEF Slob!Big
<1>5. PICK new : new = WithBlock(blk, o, None)
  OBVIOUS
<1>6. /\ blk[o] # None /\ object' = new
      /\ I # {} => Slob!FreeBig(o, Slob!Min(I))
      /\ I = {} => Slob!FreeSmall(o)
  BY <1>1, <1>4, <1>5 DEF Slob!kfree, WithBlock
<1>7. CASE I # {}
  <2>1. PICK i : i = Slob!Min(I)
    OBVIOUS
  <2>2. i \in I
    <3>1. I \in SUBSET Nat
      BY <1>2, <1>3 DEF SlobState
    <3>2. QED
      BY <1>7, <2>1, <3>1, MinInSet, SlobSequences
  <2>3. i \in DOMAIN bs /\ bs[i].pages = blk[o].at
    BY <1>3, <2>2
  <2>4. /\ bigblocks' = RemoveAt(bs, i)
        /\ freePages' = fp \cup Slob!Pages(bs[i].pages \div PageUnits, bs[i].order)
        /\ Slob!Becomes(Slob!Freed(h, bs[i].bb, BigblockSize))
    BY <1>1, <1>6, <1>7, <2>1, SlobSequences DEF Slob!FreeBig
  <2>5. Calls(h, fp, bs, blk, o, Slob!Freed(h, bs[i].bb, BigblockSize),
              fp \cup Slob!Pages(bs[i].pages \div PageUnits, bs[i].order),
              RemoveAt(bs, i), new)
    BY <1>2, <1>5, <1>6, <2>3, BigReturned
  <2>6. PICK g : g = Slob!Freed(h, bs[i].bb, BigblockSize)
    OBVIOUS
  <2>7. PICK fq : fq = fp \cup Slob!Pages(bs[i].pages \div PageUnits, bs[i].order)
    OBVIOUS
  <2>8. Calls(h, fp, bs, blk, o, g, fq, RemoveAt(bs, i), new) /\ Slob!Becomes(g)
    BY <2>4, <2>5, <2>6, <2>7
  <2>9. QED
    BY <1>1, <1>6, <2>4, <2>7, <2>8, CallIs
<1>8. CASE I = {}
  <2>1. ~Big(ToSet(bs), blk[o].at)
    BY <1>3, <1>8 DEF Big, ToSet
  <2>2. PICK g : g = Slob!slob_free(h, blk[o].at - 1)
    OBVIOUS
  <2>3. Slob!Becomes(g) /\ bigblocks' = bs /\ freePages' = fp
    BY <1>1, <1>6, <1>8, <2>2 DEF Slob!FreeSmall
  <2>4. Calls(h, fp, bs, blk, o, g, fp, bs, new)
    BY <1>2, <1>5, <1>6, <2>1, <2>2, SmallReturned
  <2>5. QED
    BY <1>1, <1>6, <2>3, <2>4, CallIs
<1>9. QED
  BY <1>7, <1>8

\* Every step of Slob is a call.
LEMMA SlobStepIs ==
  ASSUME SlobInv, Slob!Next
  PROVE  \E o \in Objects : Called(o)
BY SmallAllocStep, BigAllocStep, FreeStep DEF Slob!Next

\* So every step keeps the invariant.
LEMMA CalledKeeps ==
  ASSUME NEW o, Called(o)
  PROVE  SlobInv'
BY DEF Called, Calls, SlobInv

\* The heap begins with the arena alone.
LEMMA SlobInitial ==
  ASSUME Slob!Init
  PROVE  SlobInv
<1>1. PICK h, fp, bs, blk : h = Slob!List /\ fp = freePages /\ bs = bigblocks /\ blk = object
  OBVIOUS
<1>2. /\ units = [a \in Addrs |-> IF a = 0 THEN 1 ELSE 0] /\ next_unit = [a \in Addrs |-> 0]
      /\ slobfree = 0 /\ fp = HeapPage /\ bs = <<>> /\ blk = [o \in Objects |-> None]
  BY <1>1 DEF Slob!Init, Slob!arena, Addrs, HeapPage
<1>3. h.units = units /\ h.next = next_unit /\ h.slobfree = 0 /\ h \in Lists
  <2>1. h = [units |-> units, next |-> next_unit, slobfree |-> 0]
    BY <1>1, <1>2 DEF Slob!List
  <2>2. units \in [Addrs -> Nat] /\ next_unit \in [Addrs -> Addrs] /\ 0 \in Addrs
    BY <1>2, AddrsAre
  <2>3. QED
    BY <2>1, <2>2 DEF Lists
<1>4. PICK u, nx : u = h.units /\ nx = h.next
  OBVIOUS
<1>5. /\ u \in [Addrs -> Nat] /\ u[0] = 1 /\ \A a \in Addrs : a # 0 => u[a] = 0
      /\ nx \in [Addrs -> Addrs] /\ nx[0] = 0
  BY <1>2, <1>3, <1>4, AddrsAre
<1>6. /\ 0 \in Addrs /\ Addrs \subseteq Nat /\ 0 + 1 <= Top
  BY AddrsAre, SlobConstants
<1>7. Tiled(u, {0})
  <2>1. \A a \in Addrs : u[a] > 0 => a = 0
    BY <1>5
  <2>2. \A a \in Addrs : u[a] > 0 => a + u[a] <= Top
    BY <1>5, <1>6, <2>1
  <2>3. \A a, x \in Addrs : u[a] > 0 /\ a <= x /\ x < a + u[a] => x = 0 /\ x = a
    BY <1>5, <1>6, <2>1
  <2>4. \E a \in Addrs : a <= 0 /\ 0 < a + u[a]
    BY <1>5, <1>6
  <2>5. QED
    BY <1>5, <1>6, <2>2, <2>3, <2>4 DEF Tiled
<1>8. Ring(nx, {0}) /\ Spaced(u, {0})
  BY <1>5, <1>6 DEF Ring, Spaced
<1>9. HeapInv(h, {0}, {0})
  BY <1>3, <1>4, <1>5, <1>7, <1>8 DEF HeapInv
<1>10. ToSet(bs) = {} /\ bs \in Seq(Bigs) /\ IsInjective(bs)
  BY <1>2 DEF ToSet, IsInjective
<1>11. Area(Slabs(fp, {})) = {0}
  BY <1>2 DEF Area, Slabs
<1>12. HeldBy(h, {0}) = {} /\ Small({}, blk) = {}
  BY <1>2, <1>4, <1>5 DEF HeldBy, Heads, Small
<1>13. ListPart(h, {0}, fp, {}, blk)
  BY <1>9, <1>11, <1>12 DEF ListPart, OwnersPart
<1>14. PagesPart(fp, {}) /\ BlocksPart({}, blk)
  BY <1>2 DEF PagesPart, BlocksPart
<1>15. QED
  BY <1>1, <1>10, <1>13, <1>14 DEF SlobInv, SlobState, HeapState

-----------------------------------------------------------------------------
(* What the invariant says in the terms of Slob.                           *)

\* The blocks on the list are the free ones.
LEMMA ListedIs ==
  ASSUME NEW h, NEW L, h.slobfree \in L, Ring(h.next, L)
  PROVE  Slob!Range(Slob!Walk(h)) = L
<1>1. PICK w : w = Slob!Walk(h)
  OBVIOUS
<1>2. Tour(w, h, L)
  BY <1>1, TourIs
<1>3. /\ DOMAIN w = 1 .. Len(w) /\ \A i \in 1 .. Len(w) : w[i] \in L
      /\ \A c \in L : \E i \in 2 .. Len(w) : w[i] = c
  BY <1>2 DEF Tour
<1>4. Slob!Range(w) = {w[i] : i \in DOMAIN w}
  BY DEF Slob!Range
<1>5. QED
  BY <1>1, <1>3, <1>4

\* Max of FiniteSetsExt is the largest.
LEMMA LastIs ==
  ASSUME NEW L \in SUBSET Nat, NEW b \in L, \A d \in L : d <= b
  PROVE  b = Slob!Max(L)
<1>1. PICK m : m = Slob!Max(L)
  OBVIOUS
<1>2. m = CHOOSE t \in L : \A s \in L : t >= s
  BY <1>1 DEF Slob!Max
<1>3. \A s \in L : b >= s
  OBVIOUS
<1>4. m \in L /\ \A s \in L : m >= s
  BY <1>2, <1>3
<1>5. QED
  BY <1>1, <1>4

\* The sets that UnitsAccounted speaks of.
LEMMA OwnedIs ==
  /\ Slob!Small = Small(ToSet(bigblocks), object)
  /\ Slob!SlobPages = Slabs(freePages, ToSet(bigblocks))
<1>1. PICK bs, blk, fp : bs = bigblocks /\ blk = object /\ fp = freePages
  OBVIOUS
<1>2. PICK B : B = ToSet(bs)
  OBVIOUS
<1>3. B = {bs[i] : i \in DOMAIN bs}
  BY <1>2 DEF ToSet
<1>4. Slob!Small = {o \in Objects : blk[o] # None
                                     /\ {i \in DOMAIN bs : bs[i].pages = blk[o].at} = {}}
  BY <1>1 DEF Slob!Small, Slob!Big
<1>5. Slob!Small = Small(B, blk)
  BY <1>3, <1>4 DEF Small, Big
<1>6. Slob!SlobPages = HeapPage \ (fp \cup UNION {Extent(bs[i]) : i \in DOMAIN bs})
  BY <1>1 DEF Slob!SlobPages, HeapPage, Extent
<1>7. {Extent(bs[i]) : i \in DOMAIN bs} = {Extent(b) : b \in B}
  BY <1>3
<1>8. QED
  BY <1>1, <1>2, <1>5, <1>6, <1>7 DEF Slabs

\* The units of blocks, and blocks that have none in common.
Headers(u) == {<<x, u[x]>> : x \in Heads(u)}
Spread(S) == UNION {Slob!Units(s[1], s[2]) : s \in S}
SpreadApart(S) ==
    \A s, r \in S : s # r => Slob!Units(s[1], s[2]) \cap Slob!Units(r[1], r[2]) = {}

\* The blocks of a tiled heap have its units, each of them once.
LEMMA UnitsTiled ==
  ASSUME NEW u, NEW A, Tiled(u, A), NEW S, S = Headers(u)
  PROVE  Spread(S) = A /\ SpreadApart(S)
<1>1. Addrs \subseteq Nat /\ Top \in Nat /\ \A x \in Nat : x < Top <=> x \in Addrs
  BY AddrsAre
<1>2. \A x \in Heads(u) : /\ x \in Addrs /\ x \in Nat /\ u[x] \in Nat /\ u[x] > 0
                          /\ x + u[x] <= Top
  BY <1>1 DEF Heads, Tiled
<1>3. \A x \in Heads(u) : Slob!Units(x, u[x]) = x .. x + u[x] - 1
  BY DEF Slob!Units
<1>4. \A s \in S : \E x \in Heads(u) : s[1] = x /\ s[2] = u[x] /\ s = <<x, u[x]>>
  BY DEF Headers
<1>5. ASSUME NEW y \in A
      PROVE  \E x \in Heads(u) : y \in Slob!Units(x, u[x])
  <2>1. y \in Addrs
    BY DEF Tiled
  <2>2. PICK x \in Addrs : x <= y /\ y < x + u[x]
    BY DEF Tiled
  <2>3. u[x] \in Nat
    BY <2>2 DEF Tiled
  <2>4. x \in Nat /\ y \in Nat
    BY <1>1, <2>1, <2>2
  <2>5. u[x] > 0 /\ y \in x .. x + u[x] - 1
    BY <2>2, <2>3, <2>4
  <2>6. x \in Heads(u)
    BY <2>2, <2>5 DEF Heads
  <2>7. QED
    BY <1>3, <2>5, <2>6
<1>6. ASSUME NEW x \in Heads(u), NEW y \in Slob!Units(x, u[x])
      PROVE  y \in A
  <2>1. y \in Nat /\ x <= y /\ y < x + u[x] /\ y < Top
    BY <1>1, <1>2, <1>3
  <2>2. y \in Addrs
    BY <1>1, <2>1
  <2>3. QED
    BY <1>2, <2>1, <2>2 DEF Tiled
<1>7. ASSUME NEW x \in Heads(u), NEW y \in Heads(u), x # y
      PROVE  Slob!Units(x, u[x]) \cap Slob!Units(y, u[y]) = {}
  <2>1. x + u[x] <= y \/ y + u[y] <= x
    BY <1>2, <1>7, TilesApart
  <2>2. QED
    BY <1>2, <1>3, <2>1
<1>8. ASSUME NEW s \in S, NEW y \in Slob!Units(s[1], s[2])
      PROVE  y \in A
  BY <1>4, <1>6, <1>8
<1>9. ASSUME NEW y \in A
      PROVE  \E s \in S : y \in Slob!Units(s[1], s[2])
  <2>1. PICK x \in Heads(u) : y \in Slob!Units(x, u[x])
    BY <1>5
  <2>2. PICK s : s = <<x, u[x]>>
    OBVIOUS
  <2>3. s \in S /\ s[1] = x /\ s[2] = u[x]
    BY <2>2 DEF Headers
  <2>4. QED
    BY <2>1, <2>3
<1>10. Spread(S) = A
  BY <1>8, <1>9 DEF Spread
<1>11. QED
  <2>1. ASSUME NEW s \in S, NEW r \in S, s # r
        PROVE  Slob!Units(s[1], s[2]) \cap Slob!Units(r[1], r[2]) = {}
    <3>1. PICK x \in Heads(u) : s[1] = x /\ s[2] = u[x] /\ s = <<x, u[x]>>
      BY <1>4
    <3>2. PICK y \in Heads(u) : r[1] = y /\ r[2] = u[y] /\ r = <<y, u[y]>>
      BY <1>4
    <3>3. x # y
      BY <2>1, <3>1, <3>2
    <3>4. QED
      BY <1>7, <3>1, <3>2, <3>3
  <2>2. QED
    BY <1>10, <2>1 DEF SpreadApart

\* The invariant implies HeapSound.
LEMMA SoundFollows ==
  ASSUME SlobInv
  PROVE  Slob!HeapSound
<1>1. PICK h, fp, bs, blk : h = Slob!List /\ fp = freePages /\ bs = bigblocks /\ blk = object
  OBVIOUS
<1>2. PICK B : B = ToSet(bs)
  OBVIOUS
<1>3. PICK L : PagesPart(fp, B) /\ BlocksPart(B, blk) /\ ListPart(h, L, fp, B, blk)
  BY <1>1, <1>2 DEF SlobInv, SlobState, HeapState
<1>4. bs \in Seq(Bigs)
  BY <1>1 DEF SlobInv, SlobState
<1>5. PICK u, nx : u = h.units /\ nx = h.next
  OBVIOUS
<1>6. units = u /\ next_unit = nx /\ slobfree = h.slobfree
  BY <1>1, <1>5 DEF Slob!List
<1>7. PICK A : A = Area(Slabs(fp, B))
  OBVIOUS
<1>8. /\ h \in Lists /\ h.slobfree \in L /\ Tiled(u, A) /\ Ring(nx, L) /\ Spaced(u, L)
      /\ \A b \in L : u[b] > 0
  BY <1>3, <1>5, <1>7 DEF ListPart, HeapInv
<1>9. L \subseteq Addrs /\ 0 \in L /\ L \in SUBSET Nat
  BY <1>8, AddrsAre DEF Ring
<1>10. Slob!Listed = L
  <2>1. Slob!Listed = Slob!Range(Slob!Walk(h))
    BY <1>1 DEF Slob!Listed
  <2>2. h.slobfree \in L /\ Ring(h.next, L)
    BY <1>5, <1>8
  <2>3. QED
    BY <2>1, <2>2, ListedIs
<1>11. Slob!TypeOK
  <2>1. u \in [Addrs -> Nat] /\ nx \in [Addrs -> Addrs] /\ h.slobfree \in Addrs
    BY <1>5, <1>8, ListFields
  <2>2. fp \subseteq HeapPage
    BY <1>3 DEF PagesPart
  <2>3. \A o \in Objects : blk[o] # None => blk[o].at \in Addrs /\ blk[o].size \in Sizes
    <3>1. \A o \in Objects : blk[o] # None => blk[o] \in Blocks
      BY <1>3 DEF BlocksPart
    <3>2. QED
      BY <3>1 DEF Blocks
  <2>4. QED
    BY <1>1, <1>6, <2>1, <2>2, <2>3 DEF Slob!TypeOK, Addrs, HeapPage
<1>12. Slob!ListSorted
  <2>1. ASSUME NEW b \in L
        PROVE  b + u[b] < nx[b] \/ (b = Slob!Max(L) /\ nx[b] = 0)
    <3>1. /\ b \in Nat /\ nx[b] \in L
          /\ \/ b < nx[b]
             \/ nx[b] = 0 /\ \A d \in L : d <= b
      BY <1>8, RingGoesUp
    <3>2. CASE b < nx[b]
      <4>1. PICK c \in L : c = nx[b]
        BY <3>1
      <4>2. b < c
        BY <3>2, <4>1
      <4>3. \A x, y \in L : x < y => x + u[x] < y
        BY <1>8 DEF Spaced
      <4>4. b + u[b] < c
        BY <4>2, <4>3
      <4>5. QED
        BY <4>1, <4>4
    <3>3. CASE nx[b] = 0 /\ \A d \in L : d <= b
      BY <1>9, <3>3, LastIs
    <3>4. QED
      BY <3>1, <3>2, <3>3
  <2>2. QED
    BY <1>6, <1>9, <1>10, <2>1 DEF Slob!ListSorted, Slob!arena
<1>13. /\ HeldBy(h, L) = {Header(blk, o) : o \in Small(B, blk)} \cup {b.bb : b \in B}
       /\ \A o \in Small(B, blk) : u[Header(blk, o)] = SmallUnits(blk[o].size)
       /\ \A b \in B : u[b.bb] = BigUnits
  BY <1>3, <1>5, OwnersAre
<1>14. Slob!Small = Small(B, blk) /\ Slob!SlobPages = Slabs(fp, B)
  BY <1>1, <1>2, OwnedIs
<1>15. Slob!HeadersKept
  <2>1. \A o \in Small(B, blk) : u[blk[o].at - 1] = Slob!SLOB_UNITS(blk[o].size + SLOB_UNIT)
    BY <1>13 DEF Header, SmallUnits
  <2>2. QED
    BY <1>1, <1>6, <1>14, <2>1 DEF Slob!HeadersKept
<1>16. Slob!Held = {<<x, u[x]>> : x \in HeldBy(h, L)}
  <2>1. Slob!Held = {<<Header(blk, o), SmallUnits(blk[o].size)>> : o \in Small(B, blk)}
                        \cup {<<bs[i].bb, BigUnits>> : i \in DOMAIN bs}
    BY <1>1, <1>14 DEF Slob!Held, Header, SmallUnits, BigUnits
  <2>2. {<<bs[i].bb, BigUnits>> : i \in DOMAIN bs} = {<<b.bb, BigUnits>> : b \in B}
    BY <1>2 DEF ToSet
  <2>3. {<<b.bb, BigUnits>> : b \in B} = {<<b.bb, u[b.bb]>> : b \in B}
    BY <1>13
  <2>4. {<<Header(blk, o), SmallUnits(blk[o].size)>> : o \in Small(B, blk)}
           = {<<Header(blk, o), u[Header(blk, o)]>> : o \in Small(B, blk)}
    BY <1>13
  <2>5. QED
    BY <1>13, <2>1, <2>2, <2>3, <2>4
<1>17. Slob!Held \cup Slob!Free = {<<x, u[x]>> : x \in Heads(u)}
  <2>1. Slob!Free = {<<b, u[b]>> : b \in L}
    BY <1>6, <1>10 DEF Slob!Free
  <2>2. Heads(u) = HeldBy(h, L) \cup L
    BY <1>5, <1>8, <1>9 DEF HeldBy, Heads
  <2>3. QED
    BY <1>16, <2>1, <2>2
<1>18. Slob!UnitsAccounted
  <2>1. PICK S : S = Slob!Held \cup Slob!Free
    OBVIOUS
  <2>2. S = Headers(u)
    BY <1>17, <2>1 DEF Headers
  <2>3. Spread(S) = A /\ SpreadApart(S)
    BY <1>8, <2>2, UnitsTiled
  <2>4. A = {Slob!arena} \cup UNION {Slob!Units(Slob!PageAt(p), PageUnits) : p \in Slob!SlobPages}
    BY <1>7, <1>14 DEF Area, PageOf, Slob!arena
  <2>5. QED
    BY <2>1, <2>3, <2>4 DEF Slob!UnitsAccounted, Spread, SpreadApart
<1>19. QED
  BY <1>11, <1>12, <1>15, <1>18 DEF Slob!HeapSound

\* A call keeps GrowsWhenFull.
LEMMA GrowthFollows ==
  ASSUME SlobInv, NEW o \in Objects, Called(o)
  PROVE  Slob!GrowsWhenFull
<1>1. PICK h, fp, bs, blk : h = Slob!List /\ fp = freePages /\ bs = bigblocks /\ blk = object
  OBVIOUS
<1>2. PICK g, fq, cs, new : /\ g = Slob!List' /\ fq = freePages' /\ cs = bigblocks'
                            /\ new = object'
  OBVIOUS
<1>3. Calls(h, fp, bs, blk, o, g, fq, cs, new)
  BY <1>1, <1>2 DEF Called
<1>4. Slob!Small' = Small(ToSet(cs), new)
  <2>1. Slob!Small' = {p \in Objects : new[p] # None
                                       /\ {i \in DOMAIN cs : cs[i].pages = new[p].at} = {}}
    BY <1>2 DEF Slob!Small, Slob!Big
  <2>2. QED
    BY <2>1 DEF Small, Big, ToSet
<1>5. Slob!SlobPages = Slabs(fp, ToSet(bs))
  BY <1>1, OwnedIs
<1>6. Slob!SlobPages' = Slabs(fq, ToSet(cs))
  <2>1. Slob!SlobPages' = HeapPage \ (fq \cup UNION {Extent(cs[i]) : i \in DOMAIN cs})
    BY <1>2 DEF Slob!SlobPages, HeapPage, Extent
  <2>2. {Extent(cs[i]) : i \in DOMAIN cs} = {Extent(b) : b \in ToSet(cs)}
    BY DEF ToSet
  <2>3. QED
    BY <2>1, <2>2 DEF Slabs
<1>7. blk \in [Objects -> Blocks \cup {None}]
  BY <1>1 DEF SlobInv, SlobState, HeapState, BlocksPart
<1>8. ASSUME NEW p \in Objects, new[p] # blk[p]
      PROVE  p = o /\ new # blk
  <2>1. \A x : \A q \in Objects : q # o => WithBlock(blk, o, x)[q] = blk[q]
    BY <1>7 DEF WithBlock
  <2>2. \/ new = blk \/ \E x : new = WithBlock(blk, o, x)
    BY <1>3 DEF Calls, Changes
  <2>3. QED
    BY <1>8, <2>1, <2>2
<1>9. ASSUME NEW p \in Objects, new[p] # blk[p], p \in Small(ToSet(cs), new),
             Slabs(fq, ToSet(cs)) # Slabs(fp, ToSet(bs)), NEW b \in Slob!Listed
      PROVE  units[b] < Slob!SLOB_UNITS(new[p].size + SLOB_UNIT)
  <2>1. p = o /\ new # blk
    BY <1>8, <1>9
  <2>2. cs = bs /\ \E L : /\ HeapInv(h, L, Area(Slabs(fp, ToSet(bs))))
                          /\ fq # fp => ~HasRoom(h, L, SmallUnits(new[o].size))
    BY <1>3, <1>9, <2>1 DEF Calls, Grows
  <2>3. fq # fp
    BY <1>9, <2>2
  <2>4. PICK L : /\ HeapInv(h, L, Area(Slabs(fp, ToSet(bs))))
                 /\ ~HasRoom(h, L, SmallUnits(new[o].size))
    BY <2>2, <2>3
  <2>5. h.slobfree \in L /\ Ring(h.next, L)
    BY <2>4 DEF HeapInv
  <2>6. Slob!Listed = L
    BY <1>1, <2>5, ListedIs DEF Slob!Listed
  <2>7. ~(h.units[b] >= SmallUnits(new[o].size))
    BY <1>9, <2>4, <2>6 DEF HasRoom
  <2>8. h.units[b] \in Nat
    <3>1. b \in Addrs
      BY <1>9, <2>5, <2>6 DEF Ring
    <3>2. h.units \in [Addrs -> Nat]
      BY <2>4 DEF HeapInv, Tiled
    <3>3. QED
      BY <3>1, <3>2
  <2>9. SmallUnits(new[o].size) \in Nat
    <3>1. new[o] # None /\ new \in [Objects -> Blocks \cup {None}]
      BY <1>3, <1>9, <2>1 DEF Calls, SlobState, HeapState, BlocksPart, Small
    <3>2. new[o].size \in Sizes
      BY <3>1 DEF Blocks
    <3>3. QED
      BY <3>2, SmallUnitsAre
  <2>10. h.units[b] < SmallUnits(new[o].size)
    BY <2>7, <2>8, <2>9
  <2>11. h.units = units
    BY <1>1 DEF Slob!List
  <2>12. QED
    BY <2>1, <2>10, <2>11 DEF SmallUnits
<1>10. QED
  BY <1>1, <1>2, <1>4, <1>5, <1>6, <1>9 DEF Slob!GrowsWhenFull

-----------------------------------------------------------------------------
(* Slob implements Heap.                                                   *)

PlaceOf(x) == IF x = None THEN [from |-> 0, size |-> 0]
              ELSE [from |-> x.at * SLOB_UNIT, size |-> x.size]
PlaceBy(blk) == [o \in Objects |-> PlaceOf(blk[o])]

\* The memory ends behind the last page.
LEMMA EndIs == (HeapPages + 1) * Slob!PAGE_SIZE = Top * SLOB_UNIT
<1>1. PICK k \in Nat : k = HeapPages + 1
  BY SlobConstants
<1>2. k * (SLOB_UNIT * PageUnits) = (k * PageUnits) * SLOB_UNIT
  BY <1>1, SlobConstants
<1>3. QED
  BY <1>1, <1>2 DEF Top, Slob!PAGE_SIZE

\* The initial states of Slob are initial states of Heap.
LEMMA PromisedInitially ==
  ASSUME Slob!Init
  PROVE  Slob!Promised!Init
BY DEF Slob!Init, Slob!Promised!Init, Slob!Promised!Nowhere

\* What Heap says in the terms of Slob.
LEMMA PlacesAre ==
  ASSUME NEW blk, blk = object, NEW new, new = object'
  PROVE  /\ Slob!Promised!vars = PlaceBy(blk)
         /\ Slob!Promised!vars' = PlaceBy(new)
BY DEF Slob!Promised!vars, PlaceBy, PlaceOf

NoPlace == [from |-> 0, size |-> 0]
BytesAt(p) == p.from .. p.from + p.size - 1

\* A step that gives an object bytes that are nobody's is a kmalloc of Heap.
LEMMA PromisedMalloc ==
  ASSUME NEW o \in Objects, NEW size \in Sizes, NEW from,
         from \in 0 .. Top * SLOB_UNIT - 1, from + size <= Top * SLOB_UNIT,
         NEW blk, blk = object, NEW new, new = object', PlaceOf(blk[o]) = NoPlace,
         PlaceBy(new) = [PlaceBy(blk) EXCEPT ![o] = [from |-> from, size |-> size]],
         \A q \in Objects : BytesAt(PlaceOf(blk[q])) \cap (from .. from + size - 1) = {}
  PROVE  Slob!Promised!Next
<1>1. Slob!Promised!kmalloc(o, size, from)
  <2>1. \A q \in Objects : Slob!Promised!Bytes(q) = BytesAt(PlaceOf(blk[q]))
    BY DEF Slob!Promised!Bytes, BytesAt, PlaceOf
  <2>2. Slob!Promised!vars = PlaceBy(blk) /\ Slob!Promised!vars' = PlaceBy(new)
    BY PlacesAre
  <2>3. PlaceBy(blk)[o] = PlaceOf(blk[o])
    BY DEF PlaceBy
  <2>4. from + size <= (HeapPages + 1) * Slob!PAGE_SIZE
    BY EndIs
  <2>5. QED
    BY <2>1, <2>2, <2>3, <2>4 DEF Slob!Promised!kmalloc, Slob!Promised!vars, Slob!Promised!Nowhere,
                                  NoPlace
<1>2. from \in 0 .. (HeapPages + 1) * Slob!PAGE_SIZE - 1
  BY EndIs
<1>3. QED
  BY <1>1, <1>2 DEF Slob!Promised!Next

\* A step that takes an object's bytes is a kfree of Heap.
LEMMA PromisedFree ==
  ASSUME NEW o \in Objects, NEW blk, blk = object, NEW new, new = object',
         PlaceOf(blk[o]) # NoPlace,
         PlaceBy(new) = [PlaceBy(blk) EXCEPT ![o] = NoPlace]
  PROVE  Slob!Promised!Next
<1>1. Slob!Promised!vars = PlaceBy(blk) /\ Slob!Promised!vars' = PlaceBy(new)
  BY PlacesAre
<1>2. PlaceBy(blk)[o] = PlaceOf(blk[o])
  BY DEF PlaceBy
<1>3. Slob!Promised!kfree(o)
  BY <1>1, <1>2 DEF Slob!Promised!kfree, Slob!Promised!vars, Slob!Promised!Nowhere, NoPlace
<1>4. QED
  BY <1>3 DEF Slob!Promised!Next

\* The place of an object is where StateApart puts it.
LEMMA PlaceFields ==
  ASSUME NEW x \in Blocks
  PROVE  /\ PlaceOf(x) = [from |-> x.at * SLOB_UNIT, size |-> x.size]
         /\ PlaceOf(x) # NoPlace /\ BytesAt(PlaceOf(x)) = BytesOf(x)
         /\ x.at * SLOB_UNIT \in Nat /\ x.size \in Nat /\ x.size > 0 /\ x.size \in Sizes
<1>1. x # None
  BY NoBlock
<1>2. x.at \in Addrs /\ x.size \in Sizes
  BY DEF Blocks
<1>3. x.at \in Nat /\ x.size \in Nat /\ x.size > 0 /\ SLOB_UNIT \in Nat
  <2>1. Addrs \subseteq Nat /\ Sizes \subseteq Nat \ {0} /\ SLOB_UNIT \in Nat
    BY AddrsAre, SlobConstants
  <2>2. x.size \in Nat \ {0}
    BY <1>2, <2>1
  <2>3. \A n \in Nat \ {0} : n \in Nat /\ n > 0
    OBVIOUS
  <2>4. x.at \in Nat
    BY <1>2, <2>1
  <2>5. QED
    BY <2>1, <2>2, <2>3, <2>4
<1>4. PICK from \in Nat : from = x.at * SLOB_UNIT
  BY <1>3
<1>5. PlaceOf(x) = [from |-> from, size |-> x.size]
  BY <1>1, <1>4 DEF PlaceOf
<1>6. QED
  BY <1>2, <1>3, <1>4, <1>5 DEF NoPlace, BytesAt, BytesOf

\* An object without a block has no bytes.
LEMMA NoBytes == PlaceOf(None) = NoPlace /\ BytesAt(NoPlace) = {}
<1>1. PlaceOf(None) = NoPlace
  BY DEF PlaceOf, NoPlace
<1>2. NoPlace.from = 0 /\ NoPlace.size = 0
  BY DEF NoPlace
<1>3. BytesAt(NoPlace) = 0 .. 0 + 0 - 1
  BY <1>2 DEF BytesAt
<1>4. QED
  BY <1>1, <1>3

\* One object's block changes, and so does one place.
LEMMA PlaceChanged ==
  ASSUME NEW blk \in [Objects -> Blocks \cup {None}], NEW o \in Objects, NEW x,
         NEW new, new = WithBlock(blk, o, x)
  PROVE  PlaceBy(new) = [PlaceBy(blk) EXCEPT ![o] = PlaceOf(x)]
<1>1. \A q \in Objects : new[q] = IF q = o THEN x ELSE blk[q]
  BY DEF WithBlock
<1>2. QED
  BY <1>1 DEF PlaceBy

\* Every step of Slob is a step of Heap, or leaves its state alone.
LEMMA PromisedStep ==
  ASSUME SlobInv, NEW o \in Objects, Called(o)
  PROVE  [Slob!Promised!Next]_(Slob!Promised!vars)
<1>1. PICK fp, bs, blk : fp = freePages /\ bs = bigblocks /\ blk = object
  OBVIOUS
<1>2. PICK g, fq, cs, new : /\ g = Slob!List' /\ fq = freePages' /\ cs = bigblocks'
                            /\ new = object'
  OBVIOUS
<1>3. SlobState(g, fq, cs, new) /\ Changes(blk, o, new)
  BY <1>1, <1>2 DEF Called, Calls
<1>4. blk \in [Objects -> Blocks \cup {None}]
  BY <1>1 DEF SlobInv, SlobState, HeapState, BlocksPart
<1>5. CASE new = blk
  <2>1. Slob!Promised!vars' = Slob!Promised!vars
    BY <1>1, <1>2, <1>5, PlacesAre
  <2>2. QED
    BY <2>1
<1>6. CASE blk[o] = None /\ \E x : x # None /\ new = WithBlock(blk, o, x)
  <2>1. PICK x : x # None /\ new = WithBlock(blk, o, x)
    BY <1>6
  <2>2. new[o] = x /\ \A q \in Objects : q # o => new[q] = blk[q]
    BY <1>4, <2>1 DEF WithBlock
  <2>3. /\ x \in Blocks /\ x.at * SLOB_UNIT + x.size <= Top * SLOB_UNIT
        /\ \A q \in Objects : q # o /\ new[q] # None => BytesOf(new[q]) \cap BytesOf(x) = {}
    <3>1. HeapState(g, fq, ToSet(cs), new)
      BY <1>3 DEF SlobState
    <3>2. new[o] # None
      BY <2>1, <2>2
    <3>3. QED
      BY <2>2, <3>1, <3>2, StateApart
  <2>4. PICK from \in Nat : from = x.at * SLOB_UNIT
    BY <2>3, PlaceFields
  <2>5. PICK size \in Sizes : size = x.size /\ size \in Nat /\ size > 0
    BY <2>3, PlaceFields
  <2>6. PlaceOf(x) = [from |-> from, size |-> size] /\ BytesOf(x) = from .. from + size - 1
    BY <2>3, <2>4, <2>5, PlaceFields DEF BytesOf
  <2>7. from + size <= Top * SLOB_UNIT /\ from \in 0 .. Top * SLOB_UNIT - 1
    <3>1. PICK e \in Nat : e = Top * SLOB_UNIT
      BY AddrsAre, SlobConstants
    <3>2. from + size <= e
      BY <2>3, <2>4, <2>5, <3>1
    <3>3. QED
      BY <2>5, <3>1, <3>2
  <2>8. PlaceOf(blk[o]) = NoPlace
    BY <1>6, NoBytes
  <2>9. PlaceBy(new) = [PlaceBy(blk) EXCEPT ![o] = [from |-> from, size |-> size]]
    BY <1>4, <2>1, <2>6, PlaceChanged
  <2>10. ASSUME NEW q \in Objects
         PROVE  BytesAt(PlaceOf(blk[q])) \cap (from .. from + size - 1) = {}
    <3>1. CASE blk[q] = None
      BY <3>1, NoBytes
    <3>2. CASE blk[q] # None
      <4>1. q # o /\ new[q] = blk[q]
        BY <1>6, <2>2, <3>2
      <4>2. BytesOf(blk[q]) \cap BytesOf(x) = {}
        BY <2>3, <3>2, <4>1
      <4>3. BytesAt(PlaceOf(blk[q])) = BytesOf(blk[q])
        <5>1. blk[q] \in Blocks
          BY <1>4, <3>2
        <5>2. QED
          BY <5>1, PlaceFields
      <4>4. QED
        BY <2>6, <4>2, <4>3
    <3>3. QED
      BY <3>1, <3>2
  <2>11. Slob!Promised!Next
    BY <1>1, <1>2, <2>7, <2>8, <2>9, <2>10, PromisedMalloc
  <2>12. QED
    BY <2>11
<1>7. CASE blk[o] # None /\ new = WithBlock(blk, o, None)
  <2>1. PlaceOf(blk[o]) # NoPlace
    <3>1. blk[o] \in Blocks
      BY <1>4, <1>7
    <3>2. QED
      BY <3>1, PlaceFields
  <2>2. PlaceBy(new) = [PlaceBy(blk) EXCEPT ![o] = NoPlace]
    BY <1>4, <1>7, PlaceChanged, NoBytes
  <2>3. Slob!Promised!Next
    BY <1>1, <1>2, <2>1, <2>2, PromisedFree
  <2>4. QED
    BY <2>3
<1>8. QED
  BY <1>3, <1>5, <1>6, <1>7 DEF Changes

-----------------------------------------------------------------------------
\* What MCPaging says of Slob.
SlobPart == running = "slob" => SlobInv

\* The invariant holds when the heap runs and begins.
LEMMA SlobPartInitial == PagingHeapInit => SlobPart
BY SlobInitial DEF PagingHeapInit, SlobPart

\* Every step keeps it, and does what Heap and GrowsWhenFull allow.
LEMMA SlobPartKept ==
  ASSUME SlobPart, [PagingHeapNext]_pagingheapvars
  PROVE  /\ SlobPart'
         /\ running = "slob" => [Slob!Promised!Next]_(Slob!Promised!vars)
         /\ running = "slob" => Slob!GrowsWhenFull
<1>1. CASE PagingStep
  BY <1>1 DEF PagingStep, SlobPart
<1>2. CASE SlobStep
  <2>1. running = "slob" /\ running' = running /\ Slob!Next
    BY <1>2 DEF SlobStep
  <2>2. SlobInv
    BY <2>1 DEF SlobPart
  <2>3. PICK o \in Objects : Called(o)
    BY <2>1, <2>2, SlobStepIs
  <2>4. SlobInv'
    BY <2>3, CalledKeeps
  <2>5. Slob!GrowsWhenFull
    BY <2>2, <2>3, GrowthFollows
  <2>6. [Slob!Promised!Next]_(Slob!Promised!vars)
    BY <2>2, <2>3, PromisedStep
  <2>7. QED
    BY <2>4, <2>5, <2>6 DEF SlobPart
<1>3. CASE UNCHANGED pagingheapvars
  <2>1. /\ running' = running /\ units' = units /\ next_unit' = next_unit
        /\ slobfree' = slobfree /\ bigblocks' = bigblocks /\ freePages' = freePages
        /\ object' = object
    BY <1>3 DEF pagingheapvars, slobvars
  <2>2. Slob!List' = Slob!List
    BY <2>1 DEF Slob!List
  <2>3. SlobPart'
    BY <2>1, <2>2 DEF SlobPart, SlobInv
  <2>4. Slob!Promised!vars' = Slob!Promised!vars
    BY <2>1, PlacesAre
  <2>5. Slob!GrowsWhenFull
    BY <2>1 DEF Slob!GrowsWhenFull
  <2>6. QED
    BY <2>3, <2>4, <2>5
<1>4. QED
  BY <1>1, <1>2, <1>3 DEF PagingHeapNext

\* Memory that kmalloc returned is nobody else's until it is freed, the free list
\* and the headers describe the whole heap, and it grows only for a request for
\* which no free block is large enough (slob_alloc, slob_free, kmalloc, kfree).
THEOREM HeapStaysKept == PagingHeapSpec => HeapIsKept
<1>1. PagingHeapInit => (running = "slob" => Slob!Promised!Init)
  BY PromisedInitially DEF PagingHeapInit
<1>2. PagingHeapInit => SlobPart
  BY SlobPartInitial
<1>3. SlobPart => (running = "slob" => Slob!HeapSound)
  BY SoundFollows DEF SlobPart
<1>4. SlobPart /\ [PagingHeapNext]_pagingheapvars => SlobPart'
  BY SlobPartKept
<1>5. SlobPart /\ [PagingHeapNext]_pagingheapvars =>
         (running = "slob" => [Slob!Promised!Next]_(Slob!Promised!vars))
  BY SlobPartKept
<1>6. SlobPart /\ [PagingHeapNext]_pagingheapvars =>
         (running = "slob" => Slob!GrowsWhenFull)
  BY SlobPartKept
<1>7. QED
  BY <1>1, <1>2, <1>3, <1>4, <1>5, <1>6, PTL DEF PagingHeapSpec, HeapIsKept

-----------------------------------------------------------------------------
(* Semaphores (sem.c of lab7) and what uses them.                          *)

InQueue(p) == p \in ToSet(wait_queue[sem])

UseInv ==
    /\ SchedInv
    /\ SemInv
    /\ inside \subseteq Procs
    /\ exiting \in [Procs -> BOOLEAN]
    /\ pc \in [Procs -> {"run", "down", "pause"}]
    /\ \A p \in Procs : InQueue(p) => pc[p] = "down"
    /\ \A p \in Procs : pc[p] = "down" => p \notin inside
    /\ \A p \in Procs : pc[p] = "down" /\ ~InQueue(p) =>
                            wakeup_flags[p] = "WT_KSEM"
    /\ PermitsAccounted

\* What the abstract semaphore sees of a step.
FairStep == [Fair!Next]_(Fair!fairvars)

LEMMA HoldersFinite ==
  ASSUME inside \subseteq Procs
  PROVE  IsFiniteSet(Holders) /\ Cardinality(Holders) \in Nat
<1>1. Holders \subseteq Procs
  BY DEF Holders, Granted
<1>2. QED
  BY <1>1, SchedAssumption, FS_Subset, FS_CardinalityType

LEMMA InitUse == Init => UseInv /\ Fair!Init
<1> SUFFICES ASSUME Init PROVE UseInv /\ Fair!Init
  OBVIOUS
<1>1. sem \in Sems /\ Permits \in Nat
  BY UseAssumption
<1>2. SchedInv /\ \A p \in Procs : wait_state[p] = "none"
  BY SchedStarts DEF Init
<1>3. SemInv
  <2>1. [s \in Sems |-> Permits] \in [Sems -> Nat]
    BY <1>1
  <2>2. SemInit([s \in Sems |-> Permits])
    BY DEF Init
  <2>3. QED
    BY <1>2, <2>1, <2>2, SemStarts
<1>4. /\ wait_queue[sem] = <<>>
      /\ value[sem] = Permits
      /\ inside = {}
      /\ exiting = [p \in Procs |-> FALSE]
      /\ pc = [p \in Procs |-> "run"]
  BY <1>1 DEF Init, SemInit
<1>5. Holders = {}
  BY <1>4 DEF Holders, Granted
<1>6. PermitsAccounted
  BY <1>1, <1>4, <1>5, FS_EmptySet DEF PermitsAccounted
<1>7. \A p \in Procs : ~InQueue(p)
  BY <1>4 DEF InQueue, ToSet
<1>8. Fair!Init
  BY <1>4, <1>5 DEF Fair!Init
<1>9. QED
  BY <1>2, <1>3, <1>4, <1>6, <1>7, <1>8 DEF UseInv

-----------------------------------------------------------------------------
\* Steps that neither the semaphore nor its users take part in.
LEMMA QuietStep ==
  ASSUME UseInv, SchedInv', SemInv', UNCHANGED <<semvars, inside>>,
         exiting' \in [Procs -> BOOLEAN],
         pc' \in [Procs -> {"run", "down", "pause"}],
         \A p \in Procs : pc'[p] = "down" <=> pc[p] = "down"
  PROVE  UseInv' /\ FairStep
<1>1. Holders' = Holders
  BY DEF Holders, Granted, semvars
<1>2. PermitsAccounted'
  BY <1>1 DEF UseInv, PermitsAccounted, semvars
<1>3. UseInv'
  BY <1>2 DEF UseInv, InQueue, semvars
<1>4. FairStep
  BY <1>1 DEF FairStep, Fair!fairvars, semvars
<1>5. QED
  BY <1>3, <1>4

\* A running process is in no queue.
LEMMA RunnerNotQueued ==
  ASSUME UseInv, NEW p \in Procs, current = p
  PROVE  ~InQueue(p)
<1>1. wait_state[p] = "none"
  BY DEF UseInv, SchedInv, Everyone
<1>2. sem \in Sems
  BY UseAssumption
<1>3. QED
  BY <1>1, <1>2, QueuedIffWaiting DEF UseInv, InQueue

\* The abstract semaphore counts with the same Cardinality.
LEMMA SameCardinality == \A S : Fair!Cardinality(S) = Cardinality(S)
BY DEF Fair!Cardinality, Cardinality

\* down() and try_down() that take a permit at once.
LEMMA TakeStep ==
  ASSUME UseInv, NEW p \in Procs, At(p, "run"), p \notin inside,
         DownTakes(p, sem), inside' = inside \cup {p}, UNCHANGED <<exiting, pc>>
  PROVE  UseInv' /\ FairStep
<1>1. sem \in Sems /\ Permits \in Nat
  BY UseAssumption
<1>2. /\ SchedInv' /\ SemInv'
      /\ value[sem] > 0
      /\ value' = [value EXCEPT ![sem] = value[sem] - 1]
      /\ UNCHANGED <<wait_queue, wakeup_flags, schedvars>>
  BY <1>1, DownTakesKeeps DEF UseInv
<1>3. value[sem] \in Nat /\ value'[sem] = value[sem] - 1
  BY <1>1, <1>2 DEF UseInv, SemInv, SemTypeOK
<1>4. pc[p] = "run" /\ ~InQueue(p)
  BY RunnerNotQueued DEF At, Running
<1>5. Holders' = Holders \cup {p} /\ p \notin Holders
  BY <1>2, <1>4 DEF Holders, Granted
<1>6. IsFiniteSet(Holders) /\ Cardinality(Holders) \in Nat
  BY HoldersFinite DEF UseInv
<1>7. Cardinality(Holders') = Cardinality(Holders) + 1
  BY <1>5, <1>6, FS_AddElement
<1>8. PermitsAccounted'
  BY <1>1, <1>3, <1>6, <1>7 DEF UseInv, PermitsAccounted
<1>9. UseInv'
  BY <1>2, <1>4, <1>8 DEF UseInv, InQueue
<1>10. wait_queue[sem] = <<>>
  BY <1>1, <1>2 DEF UseInv, SemInv, NobodyWaitsForFree
<1>11. Fair!Acquire(p)
  <2>1. Cardinality(Holders) < Permits
    BY <1>1, <1>2, <1>3, <1>6 DEF UseInv, PermitsAccounted
  <2>2. p \notin Fair!Waiting
    BY <1>10 DEF Fair!Waiting
  <2>3. QED
    BY <1>2, <1>5, <1>10, <2>1, <2>2, SameCardinality DEF Fair!Acquire
<1>12. QED
  BY <1>9, <1>11 DEF FairStep, Fair!Next

LEMMA TryDownStep ==
  ASSUME UseInv, NEW p \in Procs, TryDown(p)
  PROVE  UseInv' /\ FairStep
BY TakeStep DEF TryDown

LEMMA DownStep ==
  ASSUME UseInv, NEW p \in Procs, Down(p)
  PROVE  UseInv' /\ FairStep
<1>1. CASE DownTakes(p, sem) /\ inside' = inside \cup {p} /\ UNCHANGED pc
  BY <1>1, TakeStep DEF Down
<1>2. CASE DownWaits(p, sem) /\ Goto(p, "down") /\ UNCHANGED inside
  <2>1. sem \in Sems /\ Permits \in Nat
    BY UseAssumption
  <2>2. current = p /\ pc[p] = "run" /\ p \notin inside /\ exiting' = exiting
    BY DEF Down, At, Running
  <2>3. /\ SchedInv' /\ SemInv'
        /\ value[sem] = 0
        /\ UNCHANGED value
        /\ wait_queue' = [wait_queue EXCEPT ![sem] = Append(wait_queue[sem], p)]
        /\ ToSet(wait_queue'[sem]) = ToSet(wait_queue[sem]) \cup {p}
        /\ wakeup_flags' = [wakeup_flags EXCEPT ![p] = "WT_INTERRUPTED"]
    BY <1>2, <2>1, <2>2, DownWaitsKeeps DEF UseInv
  <2>4. pc' = [pc EXCEPT ![p] = "down"] /\ inside' = inside
    BY <1>2 DEF Goto
  <2>5. ~InQueue(p)
    BY <2>2, RunnerNotQueued
  <2>6. /\ \A q \in Procs : InQueue(q)' <=> InQueue(q) \/ q = p
        /\ \A q \in Procs : q # p => /\ pc'[q] = pc[q]
                                     /\ wakeup_flags'[q] = wakeup_flags[q]
        /\ pc'[p] = "down"
    BY <2>3, <2>4 DEF InQueue, UseInv, SemInv, SemTypeOK
  <2>7. Holders' = Holders
    BY <2>2, <2>4, <2>6 DEF Holders, Granted, InQueue
  <2>8. PermitsAccounted'
    BY <2>3, <2>7 DEF UseInv, PermitsAccounted
  <2>9. pc' \in [Procs -> {"run", "down", "pause"}]
    BY <2>4 DEF UseInv
  <2>10. UseInv'
    BY <2>2, <2>3, <2>4, <2>6, <2>8, <2>9 DEF UseInv
  <2>11. Fair!Acquire(p)
    <3>1. Cardinality(Holders) = Permits
      BY <2>1, <2>3, HoldersFinite DEF UseInv, PermitsAccounted
    <3>2. p \notin Holders
      BY <2>2 DEF Holders, Granted
    <3>3. p \notin Fair!Waiting
      BY <2>5 DEF Fair!Waiting, InQueue, ToSet
    <3>4. wait_queue'[sem] = Append(wait_queue[sem], p)
      BY <2>1, <2>3 DEF UseInv, SemInv, SemTypeOK
    <3>5. QED
      BY <2>7, <3>1, <3>2, <3>3, <3>4, SameCardinality DEF Fair!Acquire
  <2>12. QED
    BY <2>10, <2>11 DEF FairStep, Fair!Next
<1>3. QED
  BY <1>1, <1>2 DEF Down

\* down() going on: the holder that was granted the semaphore becomes one that
\* is inside, which the abstract semaphore does not see.
LEMMA DownResumesStep ==
  ASSUME UseInv, NEW p \in Procs, DownResumes(p)
  PROVE  UseInv' /\ FairStep
<1>1. /\ current = p /\ pc[p] = "down"
      /\ DownReturns(p, sem)
      /\ pc' = [pc EXCEPT ![p] = "run"]
      /\ inside' = inside \cup {p}
      /\ exiting' = exiting
  BY DEF DownResumes, At, Running, Goto
<1>2. ~InQueue(p)
  BY <1>1, RunnerNotQueued
<1>3. /\ SchedInv' /\ SemInv'
      /\ UNCHANGED <<schedvars, semvars>>
  <2>1. wakeup_flags[p] = "WT_KSEM"
    BY <1>1, <1>2 DEF UseInv
  <2>2. QED
    BY <1>1, <2>1, UseAssumption, DownReturnsKeeps DEF UseInv
<1>4. /\ pc'[p] = "run"
      /\ \A q \in Procs : q # p => pc'[q] = pc[q]
      /\ pc' \in [Procs -> {"run", "down", "pause"}]
  BY <1>1 DEF UseInv
<1>5. Holders' = Holders
  BY <1>1, <1>2, <1>3, <1>4 DEF Holders, Granted, InQueue, semvars
<1>6. PermitsAccounted'
  BY <1>3, <1>5 DEF UseInv, PermitsAccounted, semvars
<1>7. UseInv'
  BY <1>1, <1>2, <1>3, <1>4, <1>6 DEF UseInv, InQueue, semvars
<1>8. FairStep
  BY <1>3, <1>5 DEF FairStep, Fair!fairvars, semvars
<1>9. QED
  BY <1>7, <1>8

LEMMA ReleaseStep ==
  ASSUME UseInv, NEW p \in Procs, Release(p)
  PROVE  UseInv' /\ FairStep
<1>1. sem \in Sems /\ Permits \in Nat
  BY UseAssumption
<1>2. /\ pc[p] = "run" /\ p \in inside
      /\ Up(sem)
      /\ inside' = inside \ {p}
      /\ UNCHANGED <<exiting, pc>>
  BY DEF Release, At, Running
<1>3. value[sem] \in Nat /\ wait_queue[sem] \in Seq(Procs)
  BY <1>1 DEF UseInv, SemInv, SemTypeOK
<1>4. p \in Holders /\ IsFiniteSet(Holders) /\ Cardinality(Holders) \in Nat
  BY <1>2, HoldersFinite DEF Holders, UseInv
<1>5. CASE wait_queue[sem] = <<>>
  <2>1. /\ SchedInv' /\ SemInv'
        /\ value' = [value EXCEPT ![sem] = value[sem] + 1]
        /\ UNCHANGED <<wait_queue, wakeup_flags, schedvars>>
    BY <1>1, <1>2, <1>5, UpCounts DEF UseInv
  <2>2. value'[sem] = value[sem] + 1
    BY <1>1, <2>1 DEF UseInv, SemInv, SemTypeOK
  <2>3. Holders' = Holders \ {p}
    BY <1>2, <2>1 DEF Holders, Granted
  <2>4. Cardinality(Holders') = Cardinality(Holders) - 1
    BY <1>4, <2>3, FS_RemoveElement
  <2>5. PermitsAccounted'
    BY <1>1, <1>3, <1>4, <2>2, <2>4 DEF UseInv, PermitsAccounted
  <2>6. UseInv'
    BY <1>2, <2>1, <2>5 DEF UseInv, InQueue
  <2>7. Fair!Release(p)
    BY <1>4, <1>5, <2>1, <2>3 DEF Fair!Release
  <2>8. QED
    BY <2>6, <2>7 DEF FairStep, Fair!Next
<1>6. CASE wait_queue[sem] # <<>>
  <2> DEFINE q == wait_queue[sem][1]
  <2>1. /\ q \in Procs /\ InQueue(q)
        /\ SchedInv' /\ SemInv'
        /\ UNCHANGED <<value, current>>
        /\ wait_queue' = [wait_queue EXCEPT ![sem] = RemoveAt(wait_queue[sem], 1)]
        /\ ToSet(wait_queue'[sem]) = ToSet(wait_queue[sem]) \ {q}
        /\ wakeup_flags' = [wakeup_flags EXCEPT ![q] = "WT_KSEM"]
    BY <1>1, <1>2, <1>6, UpHandsOver DEF UseInv, InQueue
  <2>2. /\ wait_queue'[sem] = Tail(wait_queue[sem])
        /\ q = Head(wait_queue[sem])
    <3>1. wait_queue'[sem] = RemoveAt(wait_queue[sem], 1)
      BY <1>1, <2>1 DEF UseInv, SemInv, SemTypeOK
    <3>2. QED
      BY <1>3, <1>6, <3>1, RemoveHead
  <2> HIDE DEF q
  <2>3. /\ \A r \in Procs : InQueue(r)' <=> InQueue(r) /\ r # q
        /\ \A r \in Procs : r # q => wakeup_flags'[r] = wakeup_flags[r]
        /\ wakeup_flags'[q] = "WT_KSEM"
    BY <2>1 DEF InQueue, UseInv, SemInv, SemTypeOK
  <2>4. pc[q] = "down" /\ q \notin inside
    BY <2>1 DEF UseInv
  <2>5. Holders' = (Holders \ {p}) \cup {q} /\ q \notin Holders
    BY <1>2, <2>1, <2>3, <2>4 DEF Holders, Granted, InQueue
  <2>6. Cardinality(Holders') = Cardinality(Holders)
    <3>1. /\ IsFiniteSet(Holders \ {p})
          /\ Cardinality(Holders \ {p}) = Cardinality(Holders) - 1
      BY <1>4, FS_RemoveElement
    <3>2. q \notin Holders \ {p}
      BY <2>5
    <3>3. Cardinality((Holders \ {p}) \cup {q}) = Cardinality(Holders \ {p}) + 1
      BY <3>1, <3>2, FS_AddElement
    <3>4. QED
      BY <1>4, <2>5, <3>1, <3>3
  <2>7. PermitsAccounted'
    BY <2>1, <2>6 DEF UseInv, PermitsAccounted
  <2>8. UseInv'
    BY <1>2, <2>1, <2>3, <2>7 DEF UseInv
  <2>9. Fair!Release(p)
    BY <1>4, <1>6, <2>2, <2>5 DEF Fair!Release
  <2>10. QED
    BY <2>8, <2>9 DEF FairStep, Fair!Next
<1>7. QED
  BY <1>5, <1>6

-----------------------------------------------------------------------------
\* schedule(), called by whoever runs and stays runnable.
LEMMA ScheduleStep ==
  ASSUME UseInv, Schedule(state, wait_state), UNCHANGED <<semvars, inside, exiting, pc>>
  PROVE  UseInv' /\ FairStep
<1>1. /\ state \in [Everyone -> States]
      /\ wait_state \in [Everyone -> Waits]
      /\ \A q \in Everyone : state[q] = "SLEEPING" <=> wait_state[q] # "none"
      /\ state[idleproc] = "RUNNABLE"
  BY DEF UseInv, SchedInv, SchedTypeOK, States
<1>2. SchedInv' /\ wait_state' = wait_state
  BY <1>1, ScheduleKeeps DEF UseInv
<1>3. SemInv'
  BY <1>2, OthersKeepSemInv DEF UseInv
<1>4. QED
  BY <1>2, <1>3, QuietStep DEF UseInv

LEMMA PauseStep ==
  ASSUME UseInv, NEW p \in Procs, Pause(p)
  PROVE  UseInv' /\ FairStep
<1>1. /\ current = p /\ pc[p] = "run"
      /\ pc' = [pc EXCEPT ![p] = "pause"]
      /\ Schedule([state EXCEPT ![p] = "SLEEPING"],
                  [wait_state EXCEPT ![p] = "WT_TIMER"])
      /\ UNCHANGED <<semvars, inside, exiting>>
  BY DEF Pause, At, Running, Goto
<1>2. /\ state \in [Everyone -> States]
      /\ wait_state \in [Everyone -> Waits]
      /\ p \in Everyone /\ p # idleproc
      /\ wait_state[p] = "none"
  BY <1>1, SchedAssumption DEF UseInv, SchedInv, SchedTypeOK, States, Everyone
<1> DEFINE st == [state EXCEPT ![p] = "SLEEPING"]
           ws == [wait_state EXCEPT ![p] = "WT_TIMER"]
<1>3. /\ st \in [Everyone -> States] /\ ws \in [Everyone -> Waits]
      /\ \A q \in Everyone : st[q] = "SLEEPING" <=> ws[q] # "none"
      /\ \A q \in Everyone : q # current => st[q] = state[q]
      /\ st[idleproc] = "RUNNABLE"
  BY <1>1, <1>2 DEF UseInv, SchedInv, States, Waits, Everyone
<1>4. \A q \in Everyone : ws[q] = "WT_KSEM" <=> wait_state[q] = "WT_KSEM"
  BY <1>2
<1>5. Schedule(st, ws)
  BY <1>1
<1> HIDE DEF st, ws
<1>6. SchedInv' /\ wait_state' = ws
  BY <1>3, <1>5, ScheduleKeeps DEF UseInv
<1>7. SemInv'
  BY <1>1, <1>4, <1>6, OthersKeepSemInv DEF UseInv, Everyone
<1>8. QED
  BY <1>1, <1>6, <1>7, QuietStep DEF UseInv

\* wakeup_proc of a process that pauses, by do_kill or the timer.
LEMMA WakeStep ==
  ASSUME UseInv, NEW q \in Procs, wait_state[q] = "WT_TIMER", WakeupProc(q),
         time_slice' \in [Procs -> 0 .. MAX_TIME_SLICE],
         need_resched' \in [Everyone -> BOOLEAN],
         UNCHANGED <<current, semvars, inside, pc>>,
         exiting' \in [Procs -> BOOLEAN]
  PROVE  UseInv' /\ FairStep
<1>1. SchedInv' /\ wait_state' = [wait_state EXCEPT ![q] = "none"]
  BY WakeupKeeps DEF UseInv
<1>2. \A r \in Procs : wait_state'[r] = "WT_KSEM" <=> wait_state[r] = "WT_KSEM"
  BY <1>1 DEF UseInv, SchedInv, Everyone
<1>3. SemInv'
  BY <1>1, <1>2, OthersKeepSemInv DEF UseInv
<1>4. QED
  BY <1>1, <1>3, QuietStep DEF UseInv

\* Steps that only touch the time slices and the flags.
LEMMA IdleStep ==
  ASSUME UseInv,
         UNCHANGED <<current, state, wait_state, run_list, panicked, semvars, inside>>,
         time_slice' \in [Procs -> 0 .. MAX_TIME_SLICE],
         need_resched' \in [Everyone -> BOOLEAN],
         exiting' \in [Procs -> BOOLEAN],
         pc' \in [Procs -> {"run", "down", "pause"}],
         \A p \in Procs : pc'[p] = "down" <=> pc[p] = "down"
  PROVE  UseInv' /\ FairStep
<1>1. SchedInv'
  BY DEF UseInv, SchedInv, SchedTypeOK, RunListExact
<1>2. SemInv'
  BY <1>1, OthersKeepSemInv DEF UseInv
<1>3. QED
  BY <1>1, <1>2, QuietStep

LEMMA KillStep ==
  ASSUME UseInv, NEW p \in Procs, NEW q \in Procs, Kill(p, q)
  PROVE  UseInv' /\ FairStep
<1>1. /\ exiting' = [exiting EXCEPT ![q] = TRUE]
      /\ UNCHANGED <<current, need_resched, semvars, inside, pc>>
  BY DEF Kill
<1>2. exiting' \in [Procs -> BOOLEAN] /\ need_resched' \in [Everyone -> BOOLEAN]
  BY <1>1 DEF UseInv, SchedInv, SchedTypeOK
<1>3. CASE WokenByKill(q)
  <2>1. /\ wait_state[q] = "WT_TIMER"
        /\ WakeupProc(q)
        /\ time_slice' = Refilled(Enqueued(q))
    BY <1>3 DEF Kill, WokenByKill
  <2>2. time_slice' \in [Procs -> 0 .. MAX_TIME_SLICE]
    BY <2>1, SlicesKeepType DEF UseInv, SchedInv
  <2>3. QED
    BY <1>1, <1>2, <2>1, <2>2, WakeStep
<1>4. CASE ~WokenByKill(q)
  <2>1. UNCHANGED <<state, wait_state, run_list, time_slice, panicked>>
    BY <1>4 DEF Kill
  <2>2. QED
    BY <1>1, <1>2, <2>1, IdleStep DEF UseInv, SchedInv, SchedTypeOK
<1>5. QED
  BY <1>3, <1>4

LEMMA TimerExpiresStep ==
  ASSUME UseInv, NEW p \in Procs, TimerExpires(p)
  PROVE  UseInv' /\ FairStep
<1>1. Refilled(Enqueued(p)) \in [Procs -> 0 .. MAX_TIME_SLICE]
  BY SlicesKeepType DEF UseInv, SchedInv
<1>2. /\ wait_state[p] = "WT_TIMER" /\ WakeupProc(p)
      /\ ProcTick(Refilled(Enqueued(p)))
      /\ UNCHANGED <<current, semvars, inside, exiting, pc>>
  BY DEF TimerExpires
<1>3. /\ time_slice' \in [Procs -> 0 .. MAX_TIME_SLICE]
      /\ need_resched' \in [Everyone -> BOOLEAN]
  BY <1>1, <1>2, ProcTickKeepsType DEF UseInv, SchedInv
<1>4. QED
  BY <1>2, <1>3, WakeStep DEF UseInv

LEMMA TickStep ==
  ASSUME UseInv, Tick
  PROVE  UseInv' /\ FairStep
<1>1. /\ ProcTick(time_slice)
      /\ UNCHANGED <<current, state, wait_state, run_list, panicked, semvars,
                     inside, exiting, pc>>
  BY DEF Tick
<1>2. /\ time_slice' \in [Procs -> 0 .. MAX_TIME_SLICE]
      /\ need_resched' \in [Everyone -> BOOLEAN]
  BY <1>1, ProcTickKeepsType DEF UseInv, SchedInv, SchedTypeOK
<1>3. QED
  BY <1>1, <1>2, IdleStep DEF UseInv

LEMMA PauseEndsStep ==
  ASSUME UseInv, NEW p \in Procs, PauseEnds(p)
  PROVE  UseInv' /\ FairStep
<1>1. /\ pc[p] = "pause" /\ pc' = [pc EXCEPT ![p] = "run"]
      /\ UNCHANGED <<schedvars, semvars, inside, exiting>>
  BY DEF PauseEnds, At, Goto
<1>2. /\ pc' \in [Procs -> {"run", "down", "pause"}]
      /\ \A q \in Procs : pc'[q] = "down" <=> pc[q] = "down"
  BY <1>1 DEF UseInv
<1>3. QED
  BY <1>1, <1>2, IdleStep DEF UseInv, schedvars, SchedInv, SchedTypeOK

LEMMA NextUse == UseInv /\ [Next]_vars => UseInv' /\ FairStep
<1> SUFFICES ASSUME UseInv, [Next]_vars PROVE UseInv' /\ FairStep
  OBVIOUS
<1>1. CASE IdleSchedules
  BY <1>1, ScheduleStep DEF IdleSchedules
<1>2. CASE Tick
  BY <1>2, TickStep
<1>3. ASSUME NEW p \in Procs,
             \/ Down(p) \/ DownResumes(p) \/ TryDown(p) \/ Release(p)
             \/ Yield(p) \/ Pause(p) \/ PauseEnds(p) \/ TimerExpires(p)
             \/ \E q \in Procs : Kill(p, q)
      PROVE  UseInv' /\ FairStep
  <2>1. CASE Yield(p)
    BY <2>1, ScheduleStep DEF Yield
  <2>2. QED
    BY <1>3, <2>1, DownStep, DownResumesStep, TryDownStep, ReleaseStep, PauseStep,
       PauseEndsStep, TimerExpiresStep, KillStep
<1>4. CASE UNCHANGED vars
  BY <1>4, IdleStep DEF vars, schedvars, UseInv, SchedInv, SchedTypeOK
<1>5. QED
  BY <1>1, <1>2, <1>3, <1>4 DEF Next

-----------------------------------------------------------------------------
\* Every reachable state satisfies the inductive invariant.
THEOREM Invariance == Spec => []UseInv
BY InitUse, NextUse, PTL DEF Spec

\* The run list, the wait queue and the states of all processes agree, nobody
\* waits for a free semaphore, and no assertion of __up, down, wakeup_proc or
\* RR_enqueue fails.
THEOREM QueuesStayExact == Spec => []QueuesExact
<1>1. UseInv => QueuesExact
  BY DEF UseInv, SchedInv, SemInv, QueuesExact, AssertionsHold
<1>2. QED
  BY <1>1, Invariance, PTL

\* Permits are neither lost nor made: value and the holders, those included to
\* whom __up has handed the semaphore, add up to what sem_init put there.
THEOREM PermitsAddUp == Spec => []PermitsAccounted
<1>1. UseInv => PermitsAccounted
  BY DEF UseInv
<1>2. QED
  BY <1>1, Invariance, PTL

\* down, try_down and up are a semaphore that is given first come, first
\* served, and that nobody can snatch from a waiter that has been woken.
THEOREM SemaphoreIsFair == Spec => ImplementsFairSemaphore
<1>1. Init => Fair!Init
  BY InitUse
<1>2. UseInv /\ [Next]_vars => [Fair!Next]_(Fair!fairvars)
  BY NextUse DEF FairStep
<1>3. QED
  BY <1>1, <1>2, Invariance, PTL DEF Spec, ImplementsFairSemaphore, Fair!Spec
=============================================================================
