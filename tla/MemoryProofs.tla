---------------------------- MODULE MemoryProofs ----------------------------
(***************************************************************************)
(* Proofs about the parts of memory management that MCMemory composes.     *)
(*                                                                         *)
(* FirstFit (kern/mm/default_pmm.c of lab5), for any regions of pages: the *)
(* free list stays sound, and first fit on a list of blocks implements     *)
(* PageAllocator.  The two loops of the code, over the regions in          *)
(* default_init_memmap and over the blocks in default_free_pages, are      *)
(* folds; InitInv and MergeInv are their loop invariants.                  *)
(*                                                                         *)
(* Swap (swap_fifo.c, swap.c and do_pgfault of lab3), for any pages and    *)
(* frames and a disk whose writes may fail: swapping is transparent.       *)
(*                                                                         *)
(* Vmm (vmm.c of lab5), for any address space, page size and segments: the *)
(* list of areas stays sorted, the cache agrees with it, user_mem_check is *)
(* exact, and fork copies the list.  MemCheckInv is the invariant of the   *)
(* loop of user_mem_check.                                                 *)
(***************************************************************************)
EXTENDS MCMemory, SequenceLemmas

-----------------------------------------------------------------------------
(* Blocks, and what a request takes from them.                             *)

\* The pages of the blocks that begin at the elements of L and have lengths P.
Span(L, P) == {x \in Nat : \E i \in DOMAIN L : L[i] <= x /\ x < L[i] + P[L[i]]}

\* L links the first pages of blocks of the pages S, in ascending order, with
\* a gap between any two of them.
BlockList(L, P, S) ==
    /\ L \in Seq(S)
    /\ P \in [S -> Nat]
    /\ \A i \in DOMAIN L : P[L[i]] >= 1
    /\ \A i, j \in DOMAIN L : i < j => L[i] + P[L[i]] < L[j]
    /\ Span(L, P) \subseteq S

\* Different positions of a block list hold different pages.
LEMMA BlocksApart ==
  ASSUME NEW S \in SUBSET Nat, NEW L, NEW P, BlockList(L, P, S)
  PROVE  /\ \A i \in DOMAIN L : L[i] \in S /\ L[i] \in Nat /\ P[L[i]] \in Nat
         /\ \A i, j \in DOMAIN L : L[i] = L[j] => i = j
         /\ \A i, j \in DOMAIN L : \A x \in Nat :
               /\ L[i] <= x /\ x < L[i] + P[L[i]]
               /\ L[j] <= x /\ x < L[j] + P[L[j]]
               => i = j
         /\ IsInjective(L)
<1>1. DOMAIN L = 1 .. Len(L) /\ Len(L) \in Nat
  BY DEF BlockList
<1>2. \A i \in DOMAIN L : L[i] \in S /\ L[i] \in Nat /\ P[L[i]] \in Nat
  BY DEF BlockList
<1>3. \A i, j \in DOMAIN L : i < j => L[i] + P[L[i]] < L[j]
  BY DEF BlockList
<1>4. \A i, j \in DOMAIN L : L[i] = L[j] => i = j
  BY <1>1, <1>2, <1>3
<1>5. ASSUME NEW i \in DOMAIN L, NEW j \in DOMAIN L, NEW x \in Nat,
             L[i] <= x, x < L[i] + P[L[i]], L[j] <= x, x < L[j] + P[L[j]]
      PROVE  i = j
  <2>1. ~ i < j
    BY <1>2, <1>3, <1>5
  <2>2. ~ j < i
    BY <1>2, <1>3, <1>5
  <2>3. QED
    BY <1>1, <2>1, <2>2
<1>6. QED
  BY <1>2, <1>4, <1>5 DEF IsInjective

\* A request takes the first pages of a longer block; the rest stays.
Shortened(L, P, i, n, L1, P1) ==
    /\ L1 = [L EXCEPT ![i] = L[i] + n]
    /\ P1 = [P EXCEPT ![L[i] + n] = P[L[i]] - n]

\* L1 and P1 are blocks again, without n pages at a, and begin at heads.
BlocksWithout(S, L, P, a, n, L1, P1, heads) ==
    /\ BlockList(L1, P1, S)
    /\ Span(L1, P1) = Span(L, P) \ (a .. a + n - 1)
    /\ ToSet(L1) = heads

\* A request for less than block i has: what is left of it stays in its place
\* (Take, when the block is longer).
LEMMA TakePart ==
  ASSUME NEW S \in SUBSET Nat, NEW L, NEW P, BlockList(L, P, S),
         NEW i \in DOMAIN L, NEW n \in Nat, n >= 1, n < P[L[i]],
         NEW L1, NEW P1, Shortened(L, P, i, n, L1, P1)
  PROVE  BlocksWithout(S, L, P, L[i], n, L1, P1, (ToSet(L) \cup {L[i] + n}) \ {L[i]})
<1> DEFINE rest == L[i] + n
<1>1. DOMAIN L = 1 .. Len(L) /\ Len(L) \in Nat
  BY DEF BlockList
<1>2. /\ \A j \in DOMAIN L : L[j] \in S /\ L[j] \in Nat /\ P[L[j]] \in Nat /\ P[L[j]] >= 1
      /\ \A j, k \in DOMAIN L : j < k => L[j] + P[L[j]] < L[k]
  BY BlocksApart DEF BlockList
<1>3. rest \in Nat /\ rest \in S
  <2>1. rest \in Span(L, P)
    BY <1>2 DEF Span
  <2>2. QED
    BY <1>2, <2>1 DEF BlockList
<1>4. \A j \in DOMAIN L : j # i => L[j] # rest
  <2>1. SUFFICES ASSUME NEW j \in DOMAIN L, j # i, L[j] = rest PROVE FALSE
    OBVIOUS
  <2>2. L[i] <= rest /\ rest < L[i] + P[L[i]] /\ L[j] <= rest /\ rest < L[j] + P[L[j]]
    BY <1>2, <2>1
  <2>3. QED
    BY <1>3, <2>1, <2>2, BlocksApart
<1>5. /\ L1 \in Seq(S) /\ DOMAIN L1 = DOMAIN L /\ L1[i] = rest
      /\ \A j \in DOMAIN L : j # i => L1[j] = L[j]
  BY <1>1, <1>3 DEF BlockList, Shortened
<1>6. /\ P1 \in [S -> Nat] /\ P1[rest] = P[L[i]] - n
      /\ \A j \in DOMAIN L : j # i => P1[L[j]] = P[L[j]]
  BY <1>2, <1>3, <1>4 DEF BlockList, Shortened
<1>7. ASSUME NEW j \in DOMAIN L1
      PROVE  P1[L1[j]] >= 1
  <2>1. CASE j = i
    BY <1>2, <1>5, <1>6, <2>1
  <2>2. CASE j # i
    BY <1>2, <1>5, <1>6, <2>2
  <2>3. QED
    BY <2>1, <2>2
<1>8. ASSUME NEW j \in DOMAIN L1, NEW k \in DOMAIN L1, j < k
      PROVE  L1[j] + P1[L1[j]] < L1[k]
  <2>1. L[j] + P[L[j]] < L[k]
    BY <1>2, <1>5, <1>8
  <2>2. CASE j = i
    <3>1. L1[j] + P1[L1[j]] = L[j] + P[L[j]]
      BY <1>2, <1>5, <1>6, <2>2
    <3>2. QED
      BY <1>5, <1>8, <2>1, <2>2, <3>1
  <2>3. CASE j # i
    <3>1. L1[j] + P1[L1[j]] = L[j] + P[L[j]]
      BY <1>5, <1>6, <2>3
    <3>2. L1[k] >= L[k]
      BY <1>2, <1>5
    <3>3. L[j] \in Nat /\ P[L[j]] \in Nat /\ L[k] \in Nat /\ L1[k] \in Nat
      BY <1>2, <1>3, <1>5
    <3>4. QED
      BY <2>1, <3>1, <3>2, <3>3
  <2>4. QED
    BY <2>2, <2>3
<1>9. ASSUME NEW x \in Nat
      PROVE  x \in Span(L1, P1) <=> x \in Span(L, P) \ (L[i] .. L[i] + n - 1)
  <2>1. ASSUME NEW j \in DOMAIN L
        PROVE  (L1[j] <= x /\ x < L1[j] + P1[L1[j]])
                  <=> /\ L[j] <= x /\ x < L[j] + P[L[j]]
                      /\ j = i => x \notin L[i] .. L[i] + n - 1
    <3>1. CASE j = i
      BY <1>2, <1>5, <1>6, <3>1
    <3>2. CASE j # i
      BY <1>5, <1>6, <3>2
    <3>3. QED
      BY <3>1, <3>2
  <2>2. ASSUME NEW j \in DOMAIN L, L[j] <= x, x < L[j] + P[L[j]],
               x \in L[i] .. L[i] + n - 1
        PROVE  j = i
    <3>1. L[i] <= x /\ x < L[i] + P[L[i]]
      BY <1>2, <2>2
    <3>2. QED
      BY <2>2, <3>1, BlocksApart
  <2>3. QED
    BY <1>5, <2>1, <2>2 DEF Span
<1>10. Span(L1, P1) = Span(L, P) \ (L[i] .. L[i] + n - 1)
  BY <1>9 DEF Span
<1>11. ToSet(L1) = (ToSet(L) \cup {rest}) \ {L[i]}
  <2>1. \A j \in DOMAIN L : j # i => L[j] # L[i]
    BY BlocksApart
  <2>2. rest # L[i]
    BY <1>2
  <2>3. QED
    BY <1>5, <2>1, <2>2 DEF ToSet
<1>12. QED
  BY <1>5, <1>6, <1>7, <1>8, <1>10, <1>11 DEF BlockList, BlocksWithout

\* A block of the size of the request leaves the list.
LEMMA TakeAll ==
  ASSUME NEW S \in SUBSET Nat, NEW L, NEW P, BlockList(L, P, S),
         NEW i \in DOMAIN L
  PROVE  BlocksWithout(S, L, P, L[i], P[L[i]], RemoveAt(L, i), P, ToSet(L) \ {L[i]})
<1> DEFINE L1 == RemoveAt(L, i)
<1>1. DOMAIN L = 1 .. Len(L) /\ Len(L) \in Nat /\ L \in Seq(S) /\ P \in [S -> Nat]
  BY DEF BlockList
<1>2. /\ \A j \in DOMAIN L : L[j] \in S /\ L[j] \in Nat /\ P[L[j]] \in Nat /\ P[L[j]] >= 1
      /\ \A j, k \in DOMAIN L : j < k => L[j] + P[L[j]] < L[k]
  BY BlocksApart DEF BlockList
<1>3. /\ L1 \in Seq(S) /\ Len(L1) = Len(L) - 1 /\ DOMAIN L1 = 1 .. Len(L) - 1
      /\ \A j \in 1 .. Len(L) - 1 : L1[j] = IF j < i THEN L[j] ELSE L[j + 1]
  <2>1. /\ L1 \in Seq(S) /\ Len(L1) = Len(L) - 1
        /\ \A j \in 1 .. Len(L) - 1 : L1[j] = IF j < i THEN L[j] ELSE L[j + 1]
    BY <1>1, RemoveAtProperties
  <2>2. QED
    BY <1>1, <2>1
<1>4. ToSet(L1) = ToSet(L) \ {L[i]}
  BY <1>1, BlocksApart, RemoveSet
<1> HIDE DEF L1
<1>5. ASSUME NEW j \in DOMAIN L1, NEW k \in DOMAIN L1, j < k
      PROVE  L1[j] + P[L1[j]] < L1[k]
  <2>1. PICK a \in DOMAIN L, b \in DOMAIN L : a < b /\ L1[j] = L[a] /\ L1[k] = L[b]
    <3>1. j + 1 \in DOMAIN L /\ j \in DOMAIN L /\ k \in DOMAIN L /\ k + 1 \in DOMAIN L
      BY <1>1, <1>3
    <3>2. CASE k < i
      BY <1>3, <1>5, <3>1, <3>2
    <3>3. CASE j < i /\ ~ k < i
      <4>1. j < k + 1
        BY <1>3, <1>5
      <4>2. QED
        BY <1>3, <1>5, <3>1, <3>3, <4>1
    <3>4. CASE ~ j < i
      <4>1. ~ k < i /\ j + 1 < k + 1
        BY <1>1, <1>3, <1>5, <3>4
      <4>2. QED
        BY <1>3, <1>5, <3>1, <3>4, <4>1
    <3>5. QED
      BY <3>2, <3>3, <3>4
  <2>2. QED
    BY <1>2, <2>1
<1>6. ASSUME NEW x \in Nat
      PROVE  x \in Span(L1, P) <=> x \in Span(L, P) \ (L[i] .. L[i] + P[L[i]] - 1)
  <2>1. x \in Span(L1, P) <=> \E p \in ToSet(L1) : p <= x /\ x < p + P[p]
    BY DEF Span, ToSet
  <2>2. x \in Span(L, P) <=> \E p \in ToSet(L) : p <= x /\ x < p + P[p]
    BY DEF Span, ToSet
  <2>3. x \in L[i] .. L[i] + P[L[i]] - 1 <=> L[i] <= x /\ x < L[i] + P[L[i]]
    BY <1>2
  <2>4. \A p \in ToSet(L) : p <= x /\ x < p + P[p] /\ L[i] <= x /\ x < L[i] + P[L[i]]
             => p = L[i]
    <3>1. \A j \in DOMAIN L : L[j] <= x /\ x < L[j] + P[L[j]]
                /\ L[i] <= x /\ x < L[i] + P[L[i]] => j = i
      BY BlocksApart
    <3>2. QED
      BY <3>1 DEF ToSet
  <2>5. QED
    BY <1>4, <2>1, <2>2, <2>3, <2>4
<1>7. Span(L1, P) = Span(L, P) \ (L[i] .. L[i] + P[L[i]] - 1)
  BY <1>6 DEF Span
<1>8. \A j \in DOMAIN L1 : P[L1[j]] >= 1
  <2>1. \A j \in DOMAIN L1 : L1[j] \in ToSet(L)
    BY <1>4 DEF ToSet
  <2>2. QED
    BY <1>2, <2>1 DEF ToSet
<1>9. QED
  BY <1>1, <1>3, <1>4, <1>5, <1>7, <1>8 DEF BlockList, BlocksWithout, L1

-----------------------------------------------------------------------------
(* The merging loop of default_free_pages.                                 *)

\* RemoveFirst and ToSet are those of SequencesExt, seen through FirstFit.
LEMMA SameRemoveFirst ==
  ASSUME NEW s, NEW e
  PROVE  FirstFit!RemoveFirst(s, e) = RemoveFirst(s, e)
BY DEF FirstFit!RemoveFirst, RemoveFirst, FirstFit!RemoveAt, RemoveAt,
       FirstFit!SelectInSeq, SelectInSeq, FirstFit!Min, Min

\* The list ascends.
Ascending(l) == \A a, b \in DOMAIN l : a < b => l[a] < l[b]

\* A list that ascends has each element once: taking one off leaves the others
\* in ascending order.
LEMMA RemoveAscending ==
  ASSUME NEW S \in SUBSET Nat, NEW l \in Seq(S), Ascending(l), NEW p \in ToSet(l)
  PROVE  /\ RemoveFirst(l, p) \in Seq(S)
         /\ Ascending(RemoveFirst(l, p))
         /\ ToSet(RemoveFirst(l, p)) = ToSet(l) \ {p}
<1>1. DOMAIN l = 1 .. Len(l) /\ Len(l) \in Nat /\ \A a \in DOMAIN l : l[a] \in Nat
  <2>1. DOMAIN l = 1 .. Len(l) /\ Len(l) \in Nat /\ \A a \in DOMAIN l : l[a] \in S
    OBVIOUS
  <2>2. QED
    BY <2>1
<1>2. PICK k \in DOMAIN l : l[k] = p
  BY DEF ToSet
<1>3. IsInjective(l)
  <2>1. ASSUME NEW a \in DOMAIN l, NEW b \in DOMAIN l, l[a] = l[b]
        PROVE  a = b
    <3>1. ~ a < b /\ ~ b < a
      BY <1>1, <2>1 DEF Ascending
    <3>2. QED
      BY <1>1, <3>1
  <2>2. QED
    BY <2>1 DEF IsInjective
<1> DEFINE l1 == RemoveAt(l, k)
<1>4. RemoveFirst(l, p) = l1
  BY <1>1, <1>2, <1>3, RemoveFirstAt
<1>5. /\ l1 \in Seq(S) /\ DOMAIN l1 = 1 .. Len(l) - 1
      /\ \A a \in 1 .. Len(l) - 1 : l1[a] = IF a < k THEN l[a] ELSE l[a + 1]
  <2>1. /\ l1 \in Seq(S) /\ Len(l1) = Len(l) - 1
        /\ \A a \in 1 .. Len(l) - 1 : l1[a] = IF a < k THEN l[a] ELSE l[a + 1]
    BY <1>1, <1>2, RemoveAtProperties
  <2>2. QED
    BY <1>1, <2>1
<1>6. ToSet(l1) = ToSet(l) \ {p}
  BY <1>1, <1>2, <1>3, RemoveSet
<1> HIDE DEF l1
<1>7. ASSUME NEW a \in DOMAIN l1, NEW b \in DOMAIN l1, a < b
      PROVE  l1[a] < l1[b]
  <2>1. a \in DOMAIN l /\ a + 1 \in DOMAIN l /\ b \in DOMAIN l /\ b + 1 \in DOMAIN l
    BY <1>1, <1>5
  <2>2. a < b + 1 /\ a + 1 < b + 1
    BY <1>5, <1>7
  <2>3. l[a] < l[b] /\ l[a] < l[b + 1] /\ l[a + 1] < l[b + 1]
    BY <1>7, <2>1, <2>2 DEF Ascending
  <2>4. ~ (~ a < k /\ b < k)
    BY <1>1, <1>5, <1>7
  <2>5. QED
    BY <1>5, <2>3, <2>4
<1>8. QED
  BY <1>4, <1>5, <1>6, <1>7 DEF Ascending

\* Blocks at a and at c, of lengths m and k, neither overlap nor touch, and
\* neither overlap.
Apart(a, m, c, k) == a + m < c \/ c + k < a
Disjoint(a, m, c, k) == a + m <= c \/ c + k <= a

\* The variables of the merging loop of default_free_pages.
MergeState(S) == [base : S, list : Seq(S), property : [S -> Nat], flags : SUBSET S]

\* After i turns of the merging loop, for n pages at b freed into the blocks
\* L with lengths P: the blocks met so far and still on the list are apart
\* from the merged block, the ones to come do not overlap it, and the merged
\* block and the list have the pages they had between them.
MergeInv(i, s, L, P, b, n, S) ==
    LET H    == ToSet(s.list)
        size == s.property[s.base]
    IN  /\ s \in MergeState(S)
        /\ Ascending(s.list)
        /\ H \subseteq ToSet(L)
        /\ s.base \notin H
        /\ s.flags = H \cup {s.base}
        /\ size >= 1
        /\ \A h \in H : s.property[h] = P[h]
        /\ \A j \in DOMAIN L : j > i => L[j] \in H
        /\ \A j \in DOMAIN L : L[j] \in H /\ j <= i => Apart(s.base, size, L[j], P[L[j]])
        /\ \A j \in DOMAIN L : L[j] \in H => Disjoint(s.base, size, L[j], P[L[j]])
        /\ \A x \in Nat :
              \/ s.base <= x /\ x < s.base + size
              \/ \E h \in H : h <= x /\ x < h + P[h]
              <=> x \in Span(L, P) \/ (b <= x /\ x < b + n)

\* One turn of the merging loop keeps MergeInv.
LEMMA MergeStep ==
  ASSUME NEW S \in SUBSET Nat, NEW L, NEW P, BlockList(L, P, S), NEW b, NEW n,
         NEW i \in DOMAIN L, NEW s, MergeInv(i - 1, s, L, P, b, n, S)
  PROVE  MergeInv(i, FirstFit!Merge(s, L[i]), L, P, b, n, S)
<1> DEFINE H == ToSet(s.list)
           B == s.base
           size == s.property[s.base]
           p == L[i]
<1>1. DOMAIN L = 1 .. Len(L) /\ Len(L) \in Nat /\ i \in Nat
  BY DEF BlockList
<1>2. /\ \A j \in DOMAIN L : L[j] \in S /\ L[j] \in Nat /\ P[L[j]] \in Nat /\ P[L[j]] >= 1
      /\ \A j, k \in DOMAIN L : j < k => L[j] + P[L[j]] < L[k]
      /\ \A j, k \in DOMAIN L : L[j] = L[k] => j = k
  BY BlocksApart DEF BlockList
<1>3. s \in MergeState(S) /\ B \in Nat /\ B \in S /\ size \in Nat /\ size >= 1
  BY DEF MergeInv, MergeState
<1>4. p \in H /\ p # B /\ s.property[p] = P[p] /\ p \in Nat /\ P[p] \in Nat /\ P[p] >= 1 /\ p \in S
  BY <1>1, <1>2 DEF MergeInv
<1>5. Disjoint(B, size, p, P[p])
  BY <1>4 DEF MergeInv
<1> DEFINE list1 == RemoveFirst(s.list, p)
<1>6. list1 \in Seq(S) /\ Ascending(list1) /\ ToSet(list1) = H \ {p}
  BY <1>3, <1>4, RemoveAscending DEF MergeInv, MergeState
<1>7. \A j \in DOMAIN L : L[j] # p /\ j > i - 1 => j > i
  BY <1>1
<1> HIDE DEF list1
<1>8. CASE B + size = p
  <2> DEFINE t == [s EXCEPT !.property[s.base] = @ + s.property[p],
                            !.flags = @ \ {p}, !.list = list1]
  <2>1. FirstFit!Merge(s, p) = t
    BY <1>8, SameRemoveFirst DEF FirstFit!Merge, list1
  <2>2. /\ t \in MergeState(S)
        /\ t.base = B /\ t.list = list1 /\ t.flags = s.flags \ {p}
        /\ t.property[B] = size + P[p]
        /\ \A h \in S : h # B => t.property[h] = s.property[h]
    <3>1. s.property \in [S -> Nat] /\ s.flags \in SUBSET S
      BY <1>3 DEF MergeState
    <3> DEFINE property1 == [s.property EXCEPT ![B] = size + P[p]]
    <3>2. t = [s EXCEPT !.property = property1, !.flags = s.flags \ {p}, !.list = list1]
      BY <1>4, <3>1
    <3>3. /\ property1 \in [S -> Nat] /\ property1[B] = size + P[p]
          /\ \A h \in S : h # B => property1[h] = s.property[h]
      BY <1>3, <1>4, <3>1
    <3> HIDE DEF t, property1
    <3>4. t = [base |-> B, list |-> list1, property |-> property1, flags |-> s.flags \ {p}]
      BY <1>3, <3>2 DEF MergeState
    <3>5. QED
      BY <1>3, <1>6, <3>1, <3>3, <3>4 DEF MergeState
  <2> HIDE DEF t
  <2>3. ASSUME NEW j \in DOMAIN L, L[j] \in H, j # i
        PROVE  Apart(B, size + P[p], L[j], P[L[j]])
    <3>1. Disjoint(B, size, L[j], P[L[j]])
      BY <2>3 DEF MergeInv
    <3>2. CASE j < i
      <4>1. L[j] + P[L[j]] < p
        BY <1>2, <3>2
      <4>2. j <= i - 1
        BY <1>1, <3>2
      <4>3. Apart(B, size, L[j], P[L[j]])
        BY <2>3, <4>2 DEF MergeInv
      <4>4. QED
        BY <1>2, <1>3, <1>8, <4>1, <4>3 DEF Apart
    <3>3. CASE i < j
      <4>1. p + P[p] < L[j]
        BY <1>2, <3>3
      <4>2. QED
        BY <1>2, <1>3, <1>4, <1>8, <4>1 DEF Apart
    <3>4. QED
      BY <1>1, <2>3, <3>2, <3>3
  <2>4. \A j \in DOMAIN L : L[j] \in H \ {p} => Apart(B, size + P[p], L[j], P[L[j]])
    BY <1>2, <2>3
  <2>5. \A j \in DOMAIN L : L[j] \in H \ {p} => Disjoint(B, size + P[p], L[j], P[L[j]])
    BY <1>2, <1>3, <1>4, <2>4 DEF Apart, Disjoint
  <2>6. ASSUME NEW x \in Nat
        PROVE  \/ B <= x /\ x < B + (size + P[p])
               \/ \E h \in H \ {p} : h <= x /\ x < h + P[h]
               <=> x \in Span(L, P) \/ (b <= x /\ x < b + n)
    <3>1. B <= x /\ x < B + (size + P[p])
            <=> (B <= x /\ x < B + size) \/ (p <= x /\ x < p + P[p])
      BY <1>3, <1>4, <1>8
    <3>2. (\E h \in H : h <= x /\ x < h + P[h])
            <=> (\E h \in H \ {p} : h <= x /\ x < h + P[h]) \/ (p <= x /\ x < p + P[p])
      BY <1>4
    <3>3. QED
      BY <3>1, <3>2 DEF MergeInv
  <2>7. B \notin H \ {p} /\ s.flags \ {p} = (H \ {p}) \cup {B}
    BY <1>4 DEF MergeInv
  <2>8. \A h \in H \ {p} : t.property[h] = P[h]
    <3>1. H \subseteq S
      BY <1>3 DEF MergeState, ToSet
    <3>2. QED
      BY <2>2, <2>7, <3>1 DEF MergeInv
  <2>9. \A j \in DOMAIN L : j > i => L[j] \in H \ {p}
    BY <1>1, <1>2 DEF MergeInv
  <2>10. size + P[p] >= 1 /\ H \ {p} \subseteq ToSet(L)
    BY <1>3, <1>4 DEF MergeInv
  <2>11. QED
    BY <1>6, <2>1, <2>2, <2>4, <2>5, <2>6, <2>7, <2>8, <2>9, <2>10 DEF MergeInv
<1>9. CASE B + size # p /\ p + P[p] = B
  <2> DEFINE t == [s EXCEPT !.property[p] = @ + s.property[s.base],
                            !.flags = @ \ {s.base}, !.base = p, !.list = list1]
  <2>1. FirstFit!Merge(s, p) = t
    BY <1>4, <1>9, SameRemoveFirst DEF FirstFit!Merge, list1
  <2>2. /\ t \in MergeState(S)
        /\ t.base = p /\ t.list = list1 /\ t.flags = s.flags \ {B}
        /\ t.property[p] = P[p] + size
        /\ \A h \in S : h # p => t.property[h] = s.property[h]
    <3>1. s.property \in [S -> Nat] /\ s.flags \in SUBSET S
      BY <1>3 DEF MergeState
    <3> DEFINE property1 == [s.property EXCEPT ![p] = P[p] + size]
    <3>2. t = [s EXCEPT !.property = property1, !.flags = s.flags \ {B}, !.base = p, !.list = list1]
      BY <1>4, <3>1
    <3>3. /\ property1 \in [S -> Nat] /\ property1[p] = P[p] + size
          /\ \A h \in S : h # p => property1[h] = s.property[h]
      BY <1>3, <1>4, <3>1
    <3> HIDE DEF t, property1
    <3>4. t = [base |-> p, list |-> list1, property |-> property1, flags |-> s.flags \ {B}]
      BY <1>3, <3>2 DEF MergeState
    <3>5. QED
      BY <1>4, <1>6, <3>1, <3>3, <3>4 DEF MergeState
  <2> HIDE DEF t
  <2>3. ASSUME NEW j \in DOMAIN L, L[j] \in H, j < i
        PROVE  Apart(p, P[p] + size, L[j], P[L[j]])
    <3>1. L[j] + P[L[j]] < p
      BY <1>2, <2>3
    <3>2. QED
      BY <3>1 DEF Apart
  <2>4. ASSUME NEW j \in DOMAIN L, L[j] \in H, i < j
        PROVE  Disjoint(p, P[p] + size, L[j], P[L[j]])
    <3>1. p + P[p] < L[j]
      BY <1>2, <2>4
    <3>2. Disjoint(B, size, L[j], P[L[j]])
      BY <2>4 DEF MergeInv
    <3>3. QED
      BY <1>2, <1>3, <1>4, <1>9, <3>1, <3>2 DEF Disjoint
  <2>5. /\ \A j \in DOMAIN L : L[j] \in H \ {p} /\ j <= i =>
                Apart(p, P[p] + size, L[j], P[L[j]])
        /\ \A j \in DOMAIN L : L[j] \in H \ {p} =>
                Disjoint(p, P[p] + size, L[j], P[L[j]])
    <3>1. ASSUME NEW j \in DOMAIN L, L[j] \in H \ {p}
          PROVE  /\ j <= i => Apart(p, P[p] + size, L[j], P[L[j]])
                 /\ Disjoint(p, P[p] + size, L[j], P[L[j]])
      <4>1. j < i \/ i < j
        BY <1>1, <3>1
      <4>2. CASE j < i
        <5>1. Apart(p, P[p] + size, L[j], P[L[j]])
          BY <2>3, <3>1, <4>2
        <5>2. QED
          BY <1>2, <1>3, <1>4, <5>1 DEF Apart, Disjoint
      <4>3. CASE i < j
        BY <1>1, <2>4, <3>1, <4>3
      <4>4. QED
        BY <4>1, <4>2, <4>3
    <3>2. QED
      BY <3>1
  <2>6. ASSUME NEW x \in Nat
        PROVE  \/ p <= x /\ x < p + (P[p] + size)
               \/ \E h \in H \ {p} : h <= x /\ x < h + P[h]
               <=> x \in Span(L, P) \/ (b <= x /\ x < b + n)
    <3>1. p <= x /\ x < p + (P[p] + size)
            <=> (B <= x /\ x < B + size) \/ (p <= x /\ x < p + P[p])
      BY <1>3, <1>4, <1>9
    <3>2. (\E h \in H : h <= x /\ x < h + P[h])
            <=> (\E h \in H \ {p} : h <= x /\ x < h + P[h]) \/ (p <= x /\ x < p + P[p])
      BY <1>4
    <3>3. QED
      BY <3>1, <3>2 DEF MergeInv
  <2>7. p \notin H \ {p} /\ s.flags \ {B} = (H \ {p}) \cup {p}
    BY <1>4 DEF MergeInv
  <2>8. \A h \in H \ {p} : t.property[h] = P[h]
    <3>1. H \subseteq S
      BY <1>3 DEF MergeState, ToSet
    <3>2. QED
      BY <2>2, <2>7, <3>1 DEF MergeInv
  <2>9. \A j \in DOMAIN L : j > i => L[j] \in H \ {p}
    BY <1>1, <1>2 DEF MergeInv
  <2>10. P[p] + size >= 1 /\ H \ {p} \subseteq ToSet(L)
    BY <1>3, <1>4 DEF MergeInv
  <2>11. QED
    BY <1>6, <2>1, <2>2, <2>5, <2>6, <2>7, <2>8, <2>9, <2>10 DEF MergeInv
<1>10. CASE B + size # p /\ p + P[p] # B
  <2>1. FirstFit!Merge(s, p) = s
    BY <1>4, <1>10 DEF FirstFit!Merge
  <2>2. Apart(B, size, p, P[p])
    BY <1>3, <1>4, <1>5, <1>10 DEF Apart, Disjoint
  <2>3. \A j \in DOMAIN L : j <= i => j = i \/ j <= i - 1
    BY <1>1
  <2>4. \A j \in DOMAIN L : L[j] \in H /\ j <= i => Apart(B, size, L[j], P[L[j]])
    BY <2>2, <2>3 DEF MergeInv
  <2>5. \A j \in DOMAIN L : j > i => L[j] \in H
    BY <1>1 DEF MergeInv
  <2>6. QED
    BY <2>1, <2>4, <2>5 DEF MergeInv
<1>11. QED
  BY <1>8, <1>9, <1>10

\* RemoveFirst leaves a sequence of the same elements.
LEMMA RemoveFirstType ==
  ASSUME NEW S, NEW l \in Seq(S), NEW e
  PROVE  RemoveFirst(l, e) \in Seq(S)
<1>1. CASE \E i \in 1 .. Len(l) : l[i] = e
  <2> DEFINE I == {i \in 1 .. Len(l) : l[i] = e}
  <2>1. I \in SUBSET Nat /\ I # {}
    BY <1>1
  <2>2. Min(I) \in I
    <3> HIDE DEF I
    <3>1. QED
      BY <2>1, MinInSet
  <2>3. RemoveFirst(l, e) = RemoveAt(l, Min(I))
    BY <1>1 DEF RemoveFirst, SelectInSeq
  <2>4. QED
    BY <2>2, <2>3, RemoveAtProperties
<1>2. CASE ~ \E i \in 1 .. Len(l) : l[i] = e
  BY <1>2 DEF RemoveFirst
<1>3. QED
  BY <1>1, <1>2

\* A turn of the merging loop keeps the types of its variables.
LEMMA MergeType ==
  ASSUME NEW S \in SUBSET Nat, NEW s \in MergeState(S), NEW p \in S
  PROVE  FirstFit!Merge(s, p) \in MergeState(S)
<1> DEFINE list1 == RemoveFirst(s.list, p)
           up    == [s.property EXCEPT ![s.base] = s.property[s.base] + s.property[p]]
           down  == [s.property EXCEPT ![p] = s.property[p] + s.property[s.base]]
<1>1. /\ s.base \in S /\ s.property \in [S -> Nat] /\ s.flags \in SUBSET S
      /\ s.list \in Seq(S)
  BY DEF MergeState
<1>2. list1 \in Seq(S)
  BY <1>1, RemoveFirstType
<1>3. up \in [S -> Nat] /\ down \in [S -> Nat]
  <2>1. s.property[s.base] + s.property[p] \in Nat /\ s.property[p] + s.property[s.base] \in Nat
    <3>1. s.property[s.base] \in Nat /\ s.property[p] \in Nat
      BY <1>1
    <3>2. QED
      BY <3>1
  <2>2. QED
    BY <1>1, <2>1
<1>4. FirstFit!Merge(s, p)
         \in {[s EXCEPT !.property = up, !.flags = s.flags \ {p}, !.list = list1],
              [s EXCEPT !.property = down, !.flags = s.flags \ {s.base}, !.base = p,
                        !.list = list1],
              s}
  BY SameRemoveFirst DEF FirstFit!Merge
<1> HIDE DEF list1, up, down
<1>5. /\ [s EXCEPT !.property = up, !.flags = s.flags \ {p}, !.list = list1] \in MergeState(S)
      /\ [s EXCEPT !.property = down, !.flags = s.flags \ {s.base}, !.base = p,
                   !.list = list1] \in MergeState(S)
  BY <1>1, <1>2, <1>3 DEF MergeState
<1>6. QED
  BY <1>4, <1>5

\* The merging loop, turn by turn.
LEMMA MergeFold ==
  ASSUME NEW S \in SUBSET Nat, NEW L \in Seq(S), NEW start \in MergeState(S)
  PROVE  \E g \in [0 .. Len(L) -> MergeState(S)] :
            /\ g[0] = start
            /\ g[Len(L)] = FirstFit!FoldLeft(FirstFit!Merge, start, L)
            /\ \A i \in 1 .. Len(L) : g[i] = FirstFit!Merge(g[i - 1], L[i])
<1> DEFINE N == Len(L)
           F == [i \in 1 .. N |-> [s \in MergeState(S) |-> FirstFit!Merge(s, L[i])]]
           iter == CHOOSE it : it = [s \in SUBSET (1 .. N) |->
                      IF s = {} THEN start
                      ELSE FirstFit!Merge(it[s \ {Max(s)}], L[Max(s)])]
<1>1. N \in Nat /\ DOMAIN L = 1 .. N /\ \A i \in 1 .. N : L[i] \in S
  OBVIOUS
<1>2. F \in [1 .. N -> [MergeState(S) -> MergeState(S)]]
  BY <1>1, MergeType
<1>3. FirstFit!FoldLeft(FirstFit!Merge, start, L) = iter[1 .. N]
  BY <1>1 DEF FirstFit!FoldLeft, FirstFit!MapThenFoldSet, FirstFit!Max, Max
<1>4. iter = [s \in SUBSET (1 .. N) |->
                 IF s = {} THEN start ELSE FirstFit!Merge(iter[s \ {Max(s)}], L[Max(s)])]
  <2>1. PICK it \in [SUBSET (1 .. N) -> MergeState(S)] : IsFold(it, N, start, F)
    <3> HIDE DEF F, N
    <3>1. QED
      BY <1>1, <1>2, FoldExists
  <2>2. ASSUME NEW s \in SUBSET (1 .. N), s # {}
        PROVE  F[Max(s)][it[s \ {Max(s)}]] = FirstFit!Merge(it[s \ {Max(s)}], L[Max(s)])
    <3>1. Max(s) \in 1 .. N
      BY <1>1, <2>2, MaxInSet
    <3>2. it[s \ {Max(s)}] \in MergeState(S)
      OBVIOUS
    <3> HIDE DEF N
    <3>3. QED
      BY <3>1, <3>2
  <2>3. it = [s \in SUBSET (1 .. N) |->
                 IF s = {} THEN start ELSE FirstFit!Merge(it[s \ {Max(s)}], L[Max(s)])]
    <3> HIDE DEF F, N
    <3>1. QED
      BY <2>1, <2>2 DEF IsFold
  <2>4. QED
    <3> HIDE DEF N
    <3>1. QED
      BY <2>3
<1>5. iter[{}] = start
  <2> HIDE DEF iter, N
  <2>1. QED
    BY <1>4
<1>6. ASSUME NEW s \in SUBSET (1 .. N), s # {}, iter[s \ {Max(s)}] \in MergeState(S)
      PROVE  iter[s] = F[Max(s)][iter[s \ {Max(s)}]]
  <2>1. Max(s) \in 1 .. N
    BY <1>1, <1>6, MaxInSet
  <2>2. iter[s] = FirstFit!Merge(iter[s \ {Max(s)}], L[Max(s)])
    <3> HIDE DEF iter, N
    <3>1. QED
      BY <1>4, <1>6
  <2> HIDE DEF iter, N
  <2>3. QED
    BY <1>6, <2>1, <2>2
<1>7. PICK g \in [0 .. N -> MergeState(S)] :
         IsRun(g, iter, N, start, F)
  <2>1. FoldsWithin(iter, N, MergeState(S), start, F)
    <3> HIDE DEF iter, F, N
    <3>1. QED
      BY <1>5, <1>6 DEF FoldsWithin
  <2> HIDE DEF iter, F, N
  <2>2. QED
    BY <1>1, <1>2, <2>1, FoldPrefixes
<1>8. ASSUME NEW i \in 1 .. N
      PROVE  g[i] = FirstFit!Merge(g[i - 1], L[i])
  <2>1. g[i - 1] \in MergeState(S)
    <3>1. i - 1 \in 0 .. N
      BY <1>1
    <3> HIDE DEF N
    <3>2. QED
      BY <1>7, <3>1
  <2> HIDE DEF N, iter
  <2>2. QED
    BY <1>7, <2>1 DEF IsRun
<1>9. QED
  <2> HIDE DEF iter, F
  <2>1. QED
    BY <1>3, <1>7, <1>8 DEF IsRun

\* InsertAt is that of SequencesExt, seen through FirstFit.
LEMMA SameInsertAt ==
  ASSUME NEW s, NEW i, NEW e
  PROVE  FirstFit!InsertAt(s, i, e) = InsertAt(s, i, e)
BY DEF FirstFit!InsertAt, InsertAt

\* Freeing starts with the freed pages as a block beside those of the list.
Freed(L, P, b, n) == [base |-> b, list |-> L, property |-> [P EXCEPT ![b] = n],
                      flags |-> ToSet(L) \cup {b}]

\* MergeInv holds before the loop, for pages that were not free.
LEMMA MergeStarts ==
  ASSUME NEW S \in SUBSET Nat, NEW L, NEW P, BlockList(L, P, S),
         NEW b \in S, NEW n \in Nat, n >= 1,
         \A x \in b .. b + n - 1 : x \in S /\ x \notin Span(L, P)
  PROVE  MergeInv(0, Freed(L, P, b, n), L, P, b, n, S)
<1> DEFINE property1 == [P EXCEPT ![b] = n]
           s == [base |-> b, list |-> L, property |-> property1,
                 flags |-> ToSet(L) \cup {b}]
<1>1. DOMAIN L = 1 .. Len(L) /\ Len(L) \in Nat /\ L \in Seq(S) /\ P \in [S -> Nat] /\ b \in Nat
  BY DEF BlockList
<1>2. /\ \A j \in DOMAIN L : L[j] \in S /\ L[j] \in Nat /\ P[L[j]] \in Nat /\ P[L[j]] >= 1
      /\ \A j, k \in DOMAIN L : j < k => L[j] + P[L[j]] < L[k]
  BY BlocksApart DEF BlockList
<1>3. \A j \in DOMAIN L : \A x \in Nat :
         L[j] <= x /\ x < L[j] + P[L[j]] => ~ (b <= x /\ x < b + n)
  <2>1. ASSUME NEW j \in DOMAIN L, NEW x \in Nat, L[j] <= x, x < L[j] + P[L[j]],
               b <= x, x < b + n
        PROVE  FALSE
    <3>1. x \in Span(L, P)
      BY <2>1 DEF Span
    <3>2. x \in b .. b + n - 1
      BY <1>1, <2>1
    <3>3. QED
      BY <3>1, <3>2
  <2>2. QED
    BY <2>1
<1>4. \A j \in DOMAIN L : L[j] # b
  <2>1. b <= b /\ b < b + n
    BY <1>1
  <2>2. QED
    BY <1>1, <1>2, <1>3, <2>1
<1>5. /\ property1 \in [S -> Nat] /\ property1[b] = n
      /\ \A h \in ToSet(L) : property1[h] = P[h]
  BY <1>1, <1>2, <1>4 DEF ToSet
<1>6. ASSUME NEW j \in DOMAIN L
      PROVE  Disjoint(b, n, L[j], P[L[j]])
  <2>1. CASE b <= L[j]
    <3>1. ~ L[j] < b + n
      BY <1>2, <1>3, <2>1
    <3>2. QED
      BY <1>1, <1>2, <3>1 DEF Disjoint
  <2>2. CASE L[j] <= b
    <3>1. ~ b < L[j] + P[L[j]]
      BY <1>1, <1>2, <1>3, <2>2
    <3>2. QED
      BY <1>1, <1>2, <3>1 DEF Disjoint
  <2>3. QED
    BY <1>1, <1>2, <2>1, <2>2
<1>7. Ascending(L)
  BY <1>2 DEF Ascending
<1>8. b \notin ToSet(L) /\ ToSet(L) \subseteq S
  BY <1>2, <1>4 DEF ToSet
<1> HIDE DEF property1
<1>9. /\ s \in MergeState(S) /\ s.base = b /\ s.list = L /\ s.property = property1
      /\ s.flags = ToSet(L) \cup {b}
  BY <1>1, <1>5, <1>8 DEF MergeState
<1>10. ASSUME NEW x \in Nat
       PROVE  \/ b <= x /\ x < b + n
              \/ \E h \in ToSet(L) : h <= x /\ x < h + P[h]
              <=> x \in Span(L, P) \/ (b <= x /\ x < b + n)
  BY DEF Span, ToSet
<1>11. \A j \in DOMAIN L : (j > 0 => L[j] \in ToSet(L)) /\ ~ j <= 0
  BY <1>1 DEF ToSet
<1> HIDE DEF s
<1>12. QED
  <2>1. MergeInv(0, s, L, P, b, n, S)
    BY <1>5, <1>6, <1>7, <1>8, <1>9, <1>10, <1>11 DEF MergeInv
  <2>2. QED
    BY <2>1 DEF s, property1, Freed

\* L1 and P1 are blocks again, with n pages at b, and begin at heads.
BlocksWith(S, L, P, b, n, L1, P1, heads) ==
    /\ BlockList(L1, P1, S)
    /\ Span(L1, P1) = Span(L, P) \cup (b .. b + n - 1)
    /\ ToSet(L1) = heads

\* When the loop has ended, the block goes where the list stays sorted.
LEMMA PlaceMerged ==
  ASSUME NEW S \in SUBSET Nat, NEW L, NEW P, BlockList(L, P, S),
         NEW b \in S, NEW n \in Nat, n >= 1, b .. b + n - 1 \subseteq S,
         NEW m, MergeInv(Len(L), m, L, P, b, n, S)
  PROVE  BlocksWith(S, L, P, b, n,
                    FirstFit!InsertAt(m.list, FirstFit!PlaceFor(m), m.base),
                    m.property, m.flags)
<1> DEFINE H == ToSet(m.list)
           B == m.base
           size == m.property[m.base]
           l == m.list
           I == {i \in DOMAIN l : B + size <= l[i]} \cup {Len(l) + 1}
           k == Min(I)
           L1 == InsertAt(l, k, B)
<1>1. /\ m \in MergeState(S) /\ B \in Nat /\ B \in S /\ size \in Nat /\ size >= 1
      /\ l \in Seq(S) /\ DOMAIN l = 1 .. Len(l) /\ Len(l) \in Nat /\ m.property \in [S -> Nat]
      /\ \A i \in DOMAIN l : l[i] \in S /\ l[i] \in Nat
  <2>1. m \in MergeState(S) /\ size >= 1
    BY DEF MergeInv
  <2>2. B \in S /\ l \in Seq(S) /\ m.property \in [S -> Nat]
    BY <2>1 DEF MergeState
  <2>3. DOMAIN l = 1 .. Len(l) /\ Len(l) \in Nat /\ \A i \in DOMAIN l : l[i] \in S
    BY <2>2
  <2>4. QED
    BY <2>1, <2>2, <2>3
<1>2. DOMAIN L = 1 .. Len(L) /\ Len(L) \in Nat
  BY DEF BlockList
<1>3. /\ \A j \in DOMAIN L : L[j] \in S /\ L[j] \in Nat /\ P[L[j]] \in Nat /\ P[L[j]] >= 1
      /\ \A j, i \in DOMAIN L : j < i => L[j] + P[L[j]] < L[i]
  BY BlocksApart DEF BlockList
<1>4. ASSUME NEW i \in DOMAIN l
      PROVE  /\ m.property[l[i]] = P[l[i]] /\ P[l[i]] \in Nat /\ P[l[i]] >= 1
             /\ l[i] # B
             /\ Apart(B, size, l[i], P[l[i]])
  <2>1. l[i] \in H
    BY DEF ToSet
  <2>2. PICK j \in DOMAIN L : L[j] = l[i]
    BY <2>1 DEF MergeInv, ToSet
  <2>3. j <= Len(L)
    BY <1>2
  <2>4. Apart(B, size, l[i], P[l[i]])
    BY <2>1, <2>2, <2>3 DEF MergeInv
  <2>5. QED
    BY <1>3, <2>1, <2>2, <2>4 DEF MergeInv
<1>5. ASSUME NEW i \in DOMAIN l, NEW j \in DOMAIN l, i < j
      PROVE  l[i] + P[l[i]] < l[j]
  <2>1. l[i] < l[j]
    BY <1>5 DEF MergeInv, Ascending
  <2>2. ASSUME NEW h \in DOMAIN l
        PROVE  \E a \in DOMAIN L : L[a] = l[h]
    <3>1. l[h] \in H
      BY DEF ToSet
    <3>2. QED
      BY <3>1 DEF MergeInv, ToSet
  <2>3. PICK a \in DOMAIN L, c \in DOMAIN L : L[a] = l[i] /\ L[c] = l[j]
    <3> HIDE DEF l
    <3>1. QED
      BY <2>2
  <2>4. a < c
    <3>1. ~ c < a
      <4>1. l[i] \in Nat /\ l[j] \in Nat /\ P[L[c]] \in Nat
        BY <1>1, <1>3
      <4>2. c < a => l[j] + P[L[c]] < l[i]
        BY <1>3, <2>3
      <4>3. QED
        BY <2>1, <4>1, <4>2
    <3>2. a # c
      BY <1>1, <2>1, <2>3
    <3>3. QED
      BY <1>2, <3>1, <3>2
  <2>5. QED
    BY <1>3, <2>3, <2>4
<1>6. /\ k \in 1 .. Len(l) + 1 /\ k \in Nat
      /\ \A i \in DOMAIN l : B + size <= l[i] => k <= i
      /\ k \in DOMAIN l => B + size <= l[k]
  <2>1. I \in SUBSET Nat /\ I # {} /\ I \subseteq 1 .. Len(l) + 1
    BY <1>1
  <2>2. k \in I /\ \A i \in I : k <= i
    <3> HIDE DEF I
    <3>1. QED
      BY <2>1, MinInSet
  <2> HIDE DEF k
  <2>3. QED
    BY <1>1, <2>1, <2>2
<1> HIDE DEF k, I
<1>7. \A i \in DOMAIN l : i < k => l[i] + P[l[i]] < B
  <2>1. ASSUME NEW i \in DOMAIN l, i < k
        PROVE  l[i] + P[l[i]] < B
    <3>1. ~ B + size <= l[i]
      BY <1>1, <1>6, <2>1
    <3>2. QED
      BY <1>1, <1>4, <3>1 DEF Apart
  <2>2. QED
    BY <2>1
<1>8. \A i \in DOMAIN l : k <= i => B + size < l[i]
  <2>1. ASSUME NEW i \in DOMAIN l, k <= i
        PROVE  B + size < l[i]
    <3>1. k \in DOMAIN l /\ B + size <= l[k]
      BY <1>1, <1>6, <2>1
    <3>2. l[k] <= l[i]
      <4>1. k = i \/ k < i
        BY <1>1, <1>6, <2>1
      <4>2. CASE k < i
        <5>1. l[k] + P[l[k]] < l[i]
          BY <1>5, <3>1, <4>2
        <5>2. l[k] \in Nat /\ P[l[k]] \in Nat /\ l[i] \in Nat
          BY <1>1, <1>4, <3>1
        <5>3. QED
          BY <5>1, <5>2
      <4>3. CASE k = i
        <5>1. l[i] \in Nat
          BY <1>1
        <5>2. QED
          BY <4>3, <5>1
      <4>4. QED
        BY <4>1, <4>2, <4>3
    <3>3. ~ l[i] + P[l[i]] < B
      <4>1. l[k] \in Nat /\ l[i] \in Nat /\ P[l[i]] \in Nat
        BY <1>1, <1>4, <3>1
      <4>2. B \in Nat /\ size \in Nat /\ B + size <= l[k] /\ l[k] <= l[i]
        BY <1>1, <3>1, <3>2
      <4> HIDE DEF B, size, l
      <4>3. QED
        BY <4>1, <4>2
    <3>4. QED
      BY <1>4, <3>3 DEF Apart
  <2>2. QED
    BY <2>1
<1>9. /\ L1 \in Seq(S) /\ Len(L1) = Len(l) + 1 /\ DOMAIN L1 = 1 .. Len(l) + 1
      /\ \A j \in 1 .. Len(l) + 1 :
            L1[j] = IF j < k THEN l[j] ELSE IF j = k THEN B ELSE l[j - 1]
  <2>1. /\ L1 \in Seq(S) /\ Len(L1) = Len(l) + 1
        /\ \A j \in 1 .. Len(l) + 1 :
            L1[j] = IF j < k THEN l[j] ELSE IF j = k THEN B ELSE l[j - 1]
    <3>1. l \in Seq(S) /\ k \in 1 .. Len(l) + 1 /\ B \in S
      BY <1>1, <1>6
    <3> HIDE DEF l, B
    <3>2. QED
      BY <3>1, InsertAtProperties
  <2>2. QED
    BY <2>1
<1> HIDE DEF L1
<1>10. \A j \in DOMAIN L1 : /\ j < k => j \in DOMAIN l /\ L1[j] = l[j]
                            /\ j = k => L1[j] = B
                            /\ k < j => j - 1 \in DOMAIN l /\ k <= j - 1 /\ L1[j] = l[j - 1]
  <2>1. ASSUME NEW j \in 1 .. Len(l) + 1
        PROVE  /\ j < k => j \in DOMAIN l
               /\ k < j => j - 1 \in DOMAIN l /\ k <= j - 1
               /\ j < k => j # k
               /\ k < j => j # k /\ ~ j < k
    BY <1>1, <1>6
  <2>2. QED
    BY <1>9, <2>1
<1>11. ASSUME NEW i \in DOMAIN L1, NEW j \in DOMAIN L1, i < j
       PROVE  L1[i] + m.property[L1[i]] < L1[j]
  <2>1. i \in Nat /\ j \in Nat
    BY <1>9
  <2>2. CASE j < k
    <3>1. i < k
      BY <1>6, <1>11, <2>1, <2>2
    <3>2. QED
      BY <1>4, <1>5, <1>10, <1>11, <2>2, <3>1
  <2>3. CASE j = k
    BY <1>4, <1>7, <1>10, <1>11, <2>3
  <2>4. CASE k < j /\ i < k
    <3>1. i \in DOMAIN l /\ j - 1 \in DOMAIN l /\ i < j - 1
      BY <1>6, <1>10, <2>1, <2>4
    <3>2. QED
      BY <1>4, <1>5, <1>10, <2>4, <3>1
  <2>5. CASE i = k
    <3>1. j - 1 \in DOMAIN l /\ k <= j - 1 /\ L1[j] = l[j - 1]
      BY <1>10, <1>11, <2>5
    <3>2. QED
      BY <1>8, <1>10, <2>5, <3>1
  <2>6. CASE k < i
    <3>1. i - 1 \in DOMAIN l /\ j - 1 \in DOMAIN l /\ i - 1 < j - 1 /\ k < j
      BY <1>6, <1>10, <1>11, <2>1, <2>6
    <3>2. QED
      BY <1>4, <1>5, <1>10, <2>6, <3>1
  <2>7. QED
    BY <1>6, <2>1, <2>2, <2>3, <2>4, <2>5, <2>6
<1>12. ToSet(L1) = H \cup {B}
  <2>1. ToSet(L1) \subseteq H \cup {B}
    <3>1. ASSUME NEW j \in DOMAIN L1
          PROVE  L1[j] \in H \cup {B}
      <4>1. j < k \/ j = k \/ k < j
        BY <1>6, <1>9
      <4>2. QED
        BY <1>10, <4>1 DEF ToSet
    <3>2. QED
      BY <3>1 DEF ToSet
  <2>2. ASSUME NEW i \in DOMAIN l
        PROVE  l[i] \in ToSet(L1)
    <3>1. CASE i < k
      <4>1. i \in DOMAIN L1
        BY <1>1, <1>9
      <4>2. QED
        BY <1>10, <3>1, <4>1 DEF ToSet
    <3>2. CASE k <= i
      <4>1. i + 1 \in DOMAIN L1 /\ k < i + 1 /\ (i + 1) - 1 = i
        <5>1. i \in Nat /\ i <= Len(l) /\ Len(l) \in Nat /\ k \in Nat
          BY <1>1, <1>6
        <5>2. DOMAIN L1 = 1 .. Len(l) + 1
          BY <1>9
        <5> HIDE DEF l
        <5>3. QED
          BY <3>2, <5>1, <5>2
      <4>2. L1[i + 1] = l[i]
        BY <1>10, <4>1
      <4>3. QED
        BY <4>1, <4>2 DEF ToSet
    <3>3. QED
      BY <1>1, <1>6, <3>1, <3>2
  <2>3. B \in ToSet(L1)
    <3>1. k \in DOMAIN L1
      BY <1>6, <1>9
    <3>2. QED
      BY <1>10, <3>1 DEF ToSet
  <2>4. QED
    BY <2>1, <2>2, <2>3 DEF ToSet
<1>13. \A p \in H \cup {B} : m.property[p] >= 1 /\ p \in S
  BY <1>1, <1>4 DEF ToSet
<1>14. ASSUME NEW x \in Nat
       PROVE  x \in Span(L1, m.property) <=> x \in Span(L, P) \/ x \in b .. b + n - 1
  <2>1. x \in Span(L1, m.property) <=> \E p \in ToSet(L1) : p <= x /\ x < p + m.property[p]
    BY DEF Span, ToSet
  <2>2. x \in Span(L1, m.property)
          <=> (B <= x /\ x < B + size) \/ \E p \in H : p <= x /\ x < p + P[p]
    <3>1. \A p \in H : m.property[p] = P[p]
      BY <1>4 DEF ToSet
    <3> HIDE DEF H
    <3>2. QED
      BY <1>12, <2>1, <3>1
  <2>3. x \in b .. b + n - 1 <=> b <= x /\ x < b + n
    OBVIOUS
  <2>4. QED
    BY <2>2, <2>3 DEF MergeInv
<1>15. Span(L1, m.property) = Span(L, P) \cup (b .. b + n - 1)
  <2>1. b .. b + n - 1 \subseteq Nat /\ Span(L, P) \subseteq Nat /\ Span(L1, m.property) \subseteq Nat
    BY DEF Span
  <2>2. QED
    BY <1>14, <2>1
<1>16. Span(L1, m.property) \subseteq S
  BY <1>15 DEF BlockList
<1>17. \A j \in DOMAIN L1 : m.property[L1[j]] >= 1
  BY <1>12, <1>13 DEF ToSet
<1>18. BlockList(L1, m.property, S)
  BY <1>1, <1>9, <1>11, <1>16, <1>17 DEF BlockList
<1>19. FirstFit!PlaceFor(m) = k
  BY <1>1 DEF FirstFit!PlaceFor, FirstFit!Min, Min, k, I
<1>20. L1 = FirstFit!InsertAt(m.list, FirstFit!PlaceFor(m), m.base)
  BY <1>19, SameInsertAt DEF L1
<1>21. ToSet(L1) = m.flags
  BY <1>12 DEF MergeInv
<1>22. QED
  BY <1>15, <1>18, <1>20, <1>21 DEF BlocksWith

-----------------------------------------------------------------------------
(* The invariant of the free list and the pages it stands for.             *)

\* The inductive invariant of default_pmm.c: the blocks of free_list are the
\* pages no caller holds, nr_free counts them and PG_property marks the blocks.
PmmInv ==
    /\ BlockList(free_list, property, FirstFit!Pages)
    /\ Span(free_list, property) = FirstFit!Pages \ held
    /\ nr_free = Cardinality(FirstFit!Pages \ held)
    /\ PageProperty = ToSet(free_list)
    /\ page \in FirstFit!Pages \cup {NULL}
    /\ held \subseteq FirstFit!Pages

\* There are finitely many pages, and their numbers are naturals.
LEMMA PagesFinite ==
  /\ FirstFit!Pages \in SUBSET Nat
  /\ IsFiniteSet(FirstFit!Pages)
  /\ \A S \in SUBSET FirstFit!Pages : IsFiniteSet(S) /\ Cardinality(S) \in Nat
<1> DEFINE R == Regions
<1>1. /\ R \in Seq(Nat \X (Nat \ {0})) /\ DOMAIN R = 1 .. Len(R) /\ Len(R) \in Nat
      /\ \A i \in DOMAIN R : R[i][1] \in Nat /\ R[i][2] \in Nat
      /\ \A i, j \in DOMAIN R : i < j => R[i][1] + R[i][2] < R[j][1]
  <2>1. R \in Seq(Nat \X (Nat \ {0})) /\
           \A i, j \in DOMAIN R : i < j => R[i][1] + R[i][2] < R[j][1]
    BY MemoryAssumption DEF FirstFit!RegionsAscend
  <2>2. \A i \in DOMAIN R : R[i] \in Nat \X (Nat \ {0})
    BY <2>1
  <2>3. QED
    BY <2>1, <2>2
<1>2. \A x : x \in FirstFit!Pages <=>
               \E i \in DOMAIN R : x \in Nat /\ R[i][1] <= x /\ x < R[i][1] + R[i][2]
  <2>1. \A i \in DOMAIN R : \A x : x \in FirstFit!Run(R[i][1], R[i][2]) <=>
            x \in Nat /\ R[i][1] <= x /\ x < R[i][1] + R[i][2]
    BY <1>1 DEF FirstFit!Run
  <2>2. QED
    BY <2>1 DEF FirstFit!Pages
<1> HIDE DEF R
<1>3. FirstFit!Pages \in SUBSET Nat
  BY <1>2
<1>4. IsFiniteSet(FirstFit!Pages)
  <2>1. CASE Len(R) = 0
    <3>1. FirstFit!Pages = {}
      BY <1>1, <1>2, <2>1
    <3>2. QED
      BY <3>1, FS_EmptySet
  <2>2. CASE Len(R) # 0
    <3> DEFINE top == R[Len(R)][1] + R[Len(R)][2]
    <3>1. Len(R) \in DOMAIN R /\ top \in Nat
      BY <1>1, <2>2
    <3>2. ASSUME NEW x \in FirstFit!Pages
          PROVE  x <= top
      <4>1. PICK i \in DOMAIN R : x \in Nat /\ R[i][1] <= x /\ x < R[i][1] + R[i][2]
        BY <1>2
      <4>2. CASE i = Len(R)
        BY <1>1, <4>1, <4>2
      <4>3. CASE i < Len(R)
        <5>1. R[i][1] + R[i][2] < R[Len(R)][1]
          BY <1>1, <3>1, <4>3
        <5>2. QED
          BY <1>1, <3>1, <4>1, <5>1
      <4>4. QED
        BY <1>1, <4>2, <4>3
    <3> HIDE DEF top
    <3>3. QED
      BY <1>3, <3>1, <3>2, FS_BoundedSetOfNaturals
  <2>3. QED
    BY <2>1, <2>2
<1>5. QED
  BY <1>3, <1>4, FS_Subset, FS_CardinalityType

\* The union of Blocks, in FirstFit, is the pages of the block list.
LEMMA BlocksAreSpan ==
  ASSUME NEW S \in SUBSET Nat, BlockList(free_list, property, S)
  PROVE  UNION FirstFit!Blocks = Span(free_list, property)
<1>1. \A i \in DOMAIN free_list :
         free_list[i] \in Nat /\ property[free_list[i]] \in Nat
  BY BlocksApart
<1>2. \A p \in ToSet(free_list) : \A x :
         x \in FirstFit!Run(p, property[p]) <=> x \in Nat /\ p <= x /\ x < p + property[p]
  BY <1>1 DEF FirstFit!Run, ToSet
<1>3. FirstFit!ToSet(free_list) = ToSet(free_list)
  BY DEF FirstFit!ToSet, ToSet
<1>4. \A x : x \in UNION FirstFit!Blocks <=>
               \E p \in ToSet(free_list) : x \in Nat /\ p <= x /\ x < p + property[p]
  BY <1>2, <1>3 DEF FirstFit!Blocks
<1>5. \A x : x \in Span(free_list, property) <=>
               \E p \in ToSet(free_list) : x \in Nat /\ p <= x /\ x < p + property[p]
  BY DEF Span, ToSet
<1>6. QED
  BY <1>4, <1>5

\* n pages in a row that are free are in one block.
LEMMA RunInBlock ==
  ASSUME NEW S \in SUBSET Nat, NEW L, NEW P, BlockList(L, P, S),
         NEW b \in Nat, NEW n \in Nat, n >= 1, b .. b + n - 1 \subseteq Span(L, P)
  PROVE  \E i \in DOMAIN L : L[i] <= b /\ b + n <= L[i] + P[L[i]] /\ P[L[i]] >= n
<1>1. /\ \A j \in DOMAIN L : L[j] \in Nat /\ P[L[j]] \in Nat /\ P[L[j]] >= 1
      /\ \A j, k \in DOMAIN L : j < k => L[j] + P[L[j]] < L[k]
      /\ DOMAIN L = 1 .. Len(L) /\ Len(L) \in Nat
  BY BlocksApart DEF BlockList
<1>2. b \in b .. b + n - 1
  OBVIOUS
<1>3. PICK i \in DOMAIN L : L[i] <= b /\ b < L[i] + P[L[i]]
  BY <1>2 DEF Span
<1> DEFINE e == L[i] + P[L[i]]
<1>4. b + n <= e
  <2>1. SUFFICES ASSUME e < b + n PROVE FALSE
    BY <1>1
  <2>2. e \in b .. b + n - 1
    BY <1>1, <1>3, <2>1
  <2>3. PICK k \in DOMAIN L : L[k] <= e /\ e < L[k] + P[L[k]]
    BY <2>2 DEF Span
  <2>4. ~ i < k
    BY <1>1, <2>3
  <2>5. ~ k < i
    <3>1. k < i => L[k] + P[L[k]] < L[i]
      BY <1>1
    <3>2. L[k] \in Nat /\ P[L[k]] \in Nat /\ L[i] \in Nat /\ P[L[i]] \in Nat
      BY <1>1
    <3>3. QED
      BY <2>3, <3>1, <3>2
  <2>6. k # i
    BY <1>1, <2>3
  <2>7. QED
    BY <1>1, <2>4, <2>5, <2>6
<1>5. P[L[i]] >= n
  BY <1>1, <1>3, <1>4
<1>6. QED
  BY <1>3, <1>4, <1>5

\* Cardinalities of runs added to and taken from a set of pages.
LEMMA CountRun ==
  ASSUME NEW S \in SUBSET FirstFit!Pages, NEW b \in Nat, NEW n \in Nat
  PROVE  /\ b .. b + n - 1 \subseteq S =>
               Cardinality(S \ (b .. b + n - 1)) = Cardinality(S) - n /\ n <= Cardinality(S)
         /\ (b .. b + n - 1) \cap S = {} =>
               Cardinality(S \cup (b .. b + n - 1)) = Cardinality(S) + n
<1> DEFINE T == b .. b + n - 1
<1>1. IsFiniteSet(S) /\ Cardinality(S) \in Nat
  BY PagesFinite
<1>2. IsFiniteSet(T) /\ Cardinality(T) = n
  <2>1. b \in Int /\ b + n - 1 \in Int /\ (IF b > b + n - 1 THEN 0 ELSE b + n - 1 - b + 1) = n
    OBVIOUS
  <2>2. QED
    BY <2>1, FS_Interval
<1> HIDE DEF T
<1>3. Cardinality(S \ T) = Cardinality(S) - Cardinality(S \cap T)
  BY <1>1, FS_Difference
<1>4. Cardinality(S \cup T) = Cardinality(S) + Cardinality(T) - Cardinality(S \cap T)
  BY <1>1, <1>2, FS_Union
<1>5. T \subseteq S => S \cap T = T
  OBVIOUS
<1>6. T \subseteq S => n <= Cardinality(S)
  BY <1>1, <1>2, FS_Subset
<1>7. T \cap S = {} => Cardinality(S \cap T) = 0
  <2>1. Cardinality({}) = 0
    BY FS_EmptySet
  <2>2. S \cap T = T \cap S
    OBVIOUS
  <2>3. QED
    BY <2>1, <2>2
<1>8. T \cap S = {} => Cardinality(S \cup T) = Cardinality(S) + n
  BY <1>1, <1>2, <1>4, <1>7
<1>9. QED
  BY <1>2, <1>3, <1>5, <1>6, <1>8 DEF T

\* The first block that fits begins with the lowest run of n free pages, and
\* if no block fits there is no such run.
LEMMA FirstFitIsLowest ==
  ASSUME PmmInv, NEW n \in Nat, n >= 1
  PROVE  /\ \A i \in FirstFit!Fits(n) :
               (\A k \in FirstFit!Fits(n) : i <= k) =>
                  /\ free_list[i] \in FirstFit!Abstract!Fits(n)
                  /\ \A b \in FirstFit!Abstract!Fits(n) : free_list[i] <= b
         /\ FirstFit!Fits(n) = {} => FirstFit!Abstract!Fits(n) = {}
         /\ nr_free < n => FirstFit!Abstract!Fits(n) = {}
<1> DEFINE L == free_list
           P == property
           A == FirstFit!Abstract!Fits(n)
           sp == Span(L, P)
<1>1. BlockList(L, P, FirstFit!Pages) /\ FirstFit!Pages \in SUBSET Nat
  BY PagesFinite DEF PmmInv
<1>2. /\ \A j \in DOMAIN L : L[j] \in Nat /\ P[L[j]] \in Nat /\ P[L[j]] >= 1
      /\ \A j, k \in DOMAIN L : j < k => L[j] + P[L[j]] < L[k]
      /\ DOMAIN L = 1 .. Len(L) /\ Len(L) \in Nat
  BY <1>1, BlocksApart DEF BlockList
<1>3. A = {b \in sp : b .. b + n - 1 \subseteq sp}
  BY <1>1, BlocksAreSpan DEF FirstFit!Abstract!Fits, FirstFit!Abstract!Run
<1>4. sp \subseteq Nat
  BY DEF Span
<1>5. FirstFit!Fits(n) = {i \in DOMAIN L : P[L[i]] >= n}
  BY DEF FirstFit!Fits
<1>6. ASSUME NEW b \in A
      PROVE  \E j \in FirstFit!Fits(n) : L[j] <= b
  <2>1. b \in Nat /\ b .. b + n - 1 \subseteq sp
    BY <1>3, <1>4
  <2>2. PICK j \in DOMAIN L : L[j] <= b /\ b + n <= L[j] + P[L[j]] /\ P[L[j]] >= n
    BY <1>1, <2>1, RunInBlock
  <2>3. QED
    BY <1>5, <2>2
<1>7. ASSUME NEW i \in FirstFit!Fits(n), \A k \in FirstFit!Fits(n) : i <= k
      PROVE  L[i] \in A /\ \A b \in A : L[i] <= b
  <2>1. i \in DOMAIN L /\ P[L[i]] >= n /\ L[i] \in Nat /\ P[L[i]] \in Nat
    BY <1>2, <1>5
  <2>2. \A x \in L[i] .. L[i] + n - 1 : x \in Nat /\ L[i] <= x /\ x < L[i] + P[L[i]]
    BY <2>1
  <2>3. L[i] .. L[i] + n - 1 \subseteq sp
    BY <2>1, <2>2 DEF Span
  <2>4. L[i] \in L[i] .. L[i] + n - 1
    BY <2>1
  <2>5. ASSUME NEW b \in A
        PROVE  L[i] <= b
    <3>1. PICK j \in FirstFit!Fits(n) : L[j] <= b
      BY <1>6
    <3>2. i <= j /\ j \in DOMAIN L
      BY <1>5, <1>7, <3>1
    <3>3. i = j \/ i < j
      BY <1>2, <2>1, <3>2
    <3>4. L[i] <= L[j]
      BY <1>2, <2>1, <3>2, <3>3
    <3>5. b \in Nat /\ L[j] \in Nat
      BY <1>2, <1>3, <1>4, <3>2
    <3> HIDE DEF L
    <3>6. QED
      BY <2>1, <3>1, <3>4, <3>5
  <2>6. QED
    BY <1>3, <2>3, <2>4, <2>5
<1>8. ASSUME nr_free < n
      PROVE  A = {}
  <2>1. SUFFICES ASSUME NEW b \in A PROVE FALSE
    OBVIOUS
  <2>2. b \in Nat /\ b .. b + n - 1 \subseteq sp
    BY <1>3, <1>4
  <2>3. sp \in SUBSET FirstFit!Pages /\ nr_free = Cardinality(sp)
    BY DEF PmmInv
  <2>4. n <= Cardinality(sp)
    BY <2>2, <2>3, CountRun
  <2>5. Cardinality(sp) \in Nat
    BY <2>3, PagesFinite
  <2>6. QED
    BY <1>8, <2>3, <2>4, <2>5
<1>9. QED
  BY <1>6, <1>7, <1>8

\* Under PmmInv, the abstract set of free pages is that of the block list,
LEMMA BlocksNow == PmmInv => UNION FirstFit!Blocks = Span(free_list, property)
BY PagesFinite, BlocksAreSpan DEF PmmInv

\* and so it is in the next state.
LEMMA BlocksThen == PmmInv' => (UNION FirstFit!Blocks = Span(free_list, property))'
BY BlocksNow, PTL

\* default_alloc_pages keeps PmmInv and does what PageAllocator promises.
LEMMA PmmAlloc ==
  ASSUME PmmInv, NEW n \in Nat, n >= 1, FirstFit!AllocPages(n)
  PROVE  PmmInv' /\ FirstFit!Abstract!AllocPages(n)
<1> DEFINE L == free_list
           P == property
           S == FirstFit!Pages
<1>1. /\ BlockList(L, P, S) /\ S \in SUBSET Nat
      /\ Span(L, P) = S \ held /\ nr_free = Cardinality(S \ held)
      /\ PageProperty = ToSet(L) /\ held \subseteq S
      /\ UNION FirstFit!Blocks = Span(L, P)
  BY PagesFinite, BlocksAreSpan DEF PmmInv
<1>2. CASE /\ n > nr_free \/ FirstFit!Fits(n) = {}
           /\ page' = NULL
           /\ UNCHANGED <<free_list, property, PageProperty, nr_free, held>>
  <2>1. PmmInv'
    BY <1>2 DEF PmmInv
  <2>2. UNION FirstFit!Blocks' = UNION FirstFit!Blocks
    BY <1>2 DEF FirstFit!Blocks
  <2>3. nr_free \in Nat
    BY <1>1, PagesFinite
  <2>4. FirstFit!Abstract!Fits(n) = {}
    BY <1>2, <2>3, FirstFitIsLowest
  <2>5. QED
    BY <1>2, <2>1, <2>2, <2>4 DEF FirstFit!Abstract!AllocPages
<1>3. CASE ~ (/\ n > nr_free \/ FirstFit!Fits(n) = {}
              /\ page' = NULL
              /\ UNCHANGED <<free_list, property, PageProperty, nr_free, held>>)
  <2> DEFINE F == FirstFit!Fits(n)
             i == FirstFit!Min(F)
  <2>1. /\ n <= nr_free /\ F # {}
        /\ FirstFit!Take(i, n)
        /\ page' = L[i]
        /\ held' = held \cup FirstFit!Run(L[i], n)
        /\ nr_free' = nr_free - n
    BY <1>3 DEF FirstFit!AllocPages
  <2>2. i \in F /\ \A k \in F : i <= k
    <3>1. F \in SUBSET Nat
      BY <1>1 DEF FirstFit!Fits, BlockList
    <3>2. FirstFit!Min(F) = Min(F)
      BY DEF FirstFit!Min, Min
    <3> HIDE DEF F
    <3>3. QED
      BY <2>1, <3>1, <3>2, MinInSet
  <2>3. i \in DOMAIN L /\ P[L[i]] >= n
    <3> HIDE DEF i
    <3>1. QED
      BY <2>2 DEF FirstFit!Fits
  <2>4. /\ L[i] \in FirstFit!Abstract!Fits(n)
        /\ \A b \in FirstFit!Abstract!Fits(n) : L[i] <= b
    BY <2>2, FirstFitIsLowest
  <2> HIDE DEF i, F
  <2>5. /\ L[i] \in S /\ L[i] \in Nat /\ P[L[i]] \in Nat
    BY <1>1, <2>3, BlocksApart
  <2> DEFINE run == L[i] .. L[i] + n - 1
  <2>6. /\ BlockList(free_list', property', S)
        /\ Span(free_list', property') = Span(L, P) \ run
        /\ PageProperty' = ToSet(free_list')
    <3>1. CASE P[L[i]] > n
      <4>1. /\ free_list' = [L EXCEPT ![i] = L[i] + n]
            /\ property' = [P EXCEPT ![L[i] + n] = P[L[i]] - n]
            /\ PageProperty' = (PageProperty \cup {L[i] + n}) \ {L[i]}
        BY <2>1, <3>1 DEF FirstFit!Take, FirstFit!ReplaceAt
      <4>2. n < P[L[i]]
        BY <2>5, <3>1
      <4>3. QED
        <5>1. BlockList(L, P, S) /\ S \in SUBSET Nat /\ i \in DOMAIN L /\ n \in Nat /\ n >= 1
          BY <1>1, <2>3
        <5>2. Shortened(L, P, i, n, free_list', property')
          BY <4>1 DEF Shortened
        <5> HIDE DEF L, P, S
        <5>3. BlocksWithout(S, L, P, L[i], n, free_list', property',
                            (ToSet(L) \cup {L[i] + n}) \ {L[i]})
          BY <4>2, <5>1, <5>2, TakePart
        <5>4. QED
          BY <1>1, <4>1, <5>3 DEF BlocksWithout
    <3>2. CASE ~ P[L[i]] > n
      <4>1. P[L[i]] = n
        BY <2>3, <2>5, <3>2
      <4>2. /\ free_list' = RemoveAt(L, i) /\ property' = P
            /\ PageProperty' = PageProperty \ {L[i]}
        BY <2>1, <3>2 DEF FirstFit!Take, FirstFit!RemoveAt, RemoveAt
      <4>3. QED
        <5>1. BlocksWithout(S, L, P, L[i], P[L[i]], RemoveAt(L, i), P, ToSet(L) \ {L[i]})
          BY <1>1, <2>3, TakeAll
        <5>2. QED
          BY <1>1, <4>1, <4>2, <5>1 DEF BlocksWithout
    <3>3. QED
      BY <3>1, <3>2
  <2>7. run \subseteq Span(L, P)
    BY <1>1, <2>4 DEF FirstFit!Abstract!Fits, FirstFit!Abstract!Run
  <2>8. FirstFit!Run(L[i], n) = run
    BY DEF FirstFit!Run
  <2>9. S \ held' = (S \ held) \ run /\ held' \subseteq S
    BY <1>1, <2>1, <2>7, <2>8
  <2>10. nr_free' = Cardinality(S \ held')
    <3>1. Cardinality((S \ held) \ run) = Cardinality(S \ held) - n
      BY <1>1, <2>5, <2>7, CountRun
    <3>2. QED
      BY <1>1, <2>1, <2>9, <3>1
  <2>11. PmmInv'
    BY <1>1, <2>1, <2>5, <2>6, <2>9, <2>10 DEF PmmInv
  <2>12. UNION FirstFit!Blocks' = Span(free_list', property')
    BY <2>11, BlocksThen
  <2>13. FirstFit!Abstract!AllocPages(n)
    <3>1. page' = FirstFit!Abstract!Min(FirstFit!Abstract!Fits(n))
      <4>1. FirstFit!Abstract!Fits(n) \subseteq Nat
        BY <1>1 DEF FirstFit!Abstract!Fits, Span
      <4>2. \A b \in FirstFit!Abstract!Fits(n) :
               (\A c \in FirstFit!Abstract!Fits(n) : b <= c) => b = L[i]
        BY <2>4, <2>5, <4>1
      <4>3. QED
        BY <2>1, <2>4, <4>2 DEF FirstFit!Abstract!Min
    <3>2. UNION FirstFit!Blocks' = (UNION FirstFit!Blocks) \ FirstFit!Abstract!Run(page', n)
      <4>1. FirstFit!Abstract!Run(page', n) = run
        BY <2>1 DEF FirstFit!Abstract!Run
      <4> HIDE DEF run
      <4>2. QED
        BY <1>1, <2>6, <2>12, <4>1
    <3>3. QED
      BY <2>4, <3>1, <3>2 DEF FirstFit!Abstract!AllocPages
  <2>14. QED
    BY <2>11, <2>13
<1>4. QED
  BY <1>2, <1>3

\* The loop that merges, and the insertion after it.
LEMMA MergeAll ==
  ASSUME NEW S \in SUBSET Nat, NEW L, NEW P, BlockList(L, P, S),
         NEW b \in S, NEW n \in Nat, n >= 1,
         \A x \in b .. b + n - 1 : x \in S /\ x \notin Span(L, P),
         NEW m, m = FirstFit!FoldLeft(FirstFit!Merge, Freed(L, P, b, n), L)
  PROVE  BlocksWith(S, L, P, b, n,
                    FirstFit!InsertAt(m.list, FirstFit!PlaceFor(m), m.base),
                    m.property, m.flags)
<1> DEFINE N == Len(L)
<1>1. L \in Seq(S) /\ N \in Nat /\ DOMAIN L = 1 .. N
  BY DEF BlockList
<1>2. MergeInv(0, Freed(L, P, b, n), L, P, b, n, S)
  BY MergeStarts
<1>3. Freed(L, P, b, n) \in MergeState(S)
  BY <1>2 DEF MergeInv
<1>4. PICK g \in [0 .. N -> MergeState(S)] :
         /\ g[0] = Freed(L, P, b, n)
         /\ g[N] = FirstFit!FoldLeft(FirstFit!Merge, Freed(L, P, b, n), L)
         /\ \A i \in 1 .. N : g[i] = FirstFit!Merge(g[i - 1], L[i])
  BY <1>1, <1>3, MergeFold
<1> DEFINE T == {i \in 0 .. N : MergeInv(i, g[i], L, P, b, n, S)}
<1>5. 0 \in T
  BY <1>1, <1>2, <1>4
<1>6. ASSUME NEW i \in 0 .. N, i < N, i \in T
      PROVE  i + 1 \in T
  <2>1. i + 1 \in DOMAIN L /\ (i + 1) - 1 = i /\ i + 1 \in 0 .. N /\ i + 1 \in 1 .. N
    BY <1>1, <1>6
  <2>2. MergeInv((i + 1) - 1, g[i], L, P, b, n, S)
    BY <1>6, <2>1
  <2>3. MergeInv(i + 1, FirstFit!Merge(g[i], L[i + 1]), L, P, b, n, S)
    BY <2>1, <2>2, MergeStep
  <2>4. g[i + 1] = FirstFit!Merge(g[i], L[i + 1])
    BY <1>4, <2>1
  <2>5. QED
    BY <2>1, <2>3, <2>4
<1>7. MergeInv(N, m, L, P, b, n, S)
  <2>1. N \in T
    <3> HIDE DEF T
    <3>1. 0 .. N \subseteq T
      BY <1>1, <1>5, <1>6, IntervalInduction
    <3>2. QED
      BY <1>1, <3>1
  <2>2. QED
    BY <1>4, <2>1
<1>8. b .. b + n - 1 \subseteq S
  OBVIOUS
<1>9. QED
  BY <1>7, <1>8, PlaceMerged

\* default_free_pages keeps PmmInv and does what PageAllocator promises.
LEMMA PmmFree ==
  ASSUME PmmInv, NEW n \in Nat, n >= 1, NEW b \in held, FirstFit!FreePages(b, n)
  PROVE  PmmInv' /\ FirstFit!Abstract!FreePages(b, n)
<1> DEFINE L == free_list
           P == property
           S == FirstFit!Pages
           run == b .. b + n - 1
           m == FirstFit!FoldLeft(FirstFit!Merge, Freed(L, P, b, n), L)
<1>1. /\ BlockList(L, P, S) /\ S \in SUBSET Nat
      /\ Span(L, P) = S \ held /\ nr_free = Cardinality(S \ held)
      /\ PageProperty = ToSet(L) /\ held \subseteq S
      /\ UNION FirstFit!Blocks = Span(L, P)
      /\ page \in S \cup {NULL}
  BY PagesFinite, BlocksNow DEF PmmInv
<1>2. FirstFit!Run(b, n) = run /\ run \subseteq held /\ b \in S
  BY <1>1 DEF FirstFit!FreePages, FirstFit!Run
<1>3. \A x \in run : x \in S /\ x \notin Span(L, P)
  BY <1>1, <1>2
<1>4. [base |-> b, list |-> L, property |-> [P EXCEPT ![b] = n],
       flags |-> PageProperty \cup {b}] = Freed(L, P, b, n)
  BY <1>1 DEF Freed
<1>5. /\ free_list' = FirstFit!InsertAt(m.list, FirstFit!PlaceFor(m), m.base)
      /\ property' = m.property
      /\ PageProperty' = m.flags
      /\ nr_free' = nr_free + n /\ held' = held \ run /\ page' = page
  BY <1>2, <1>4 DEF FirstFit!FreePages
<1>6. BlocksWith(S, L, P, b, n, free_list', property', PageProperty')
  <2>1. BlocksWith(S, L, P, b, n,
                   FirstFit!InsertAt(m.list, FirstFit!PlaceFor(m), m.base),
                   m.property, m.flags)
    <3> DEFINE m0 == m
    <3>1. m0 = FirstFit!FoldLeft(FirstFit!Merge, Freed(L, P, b, n), L)
      OBVIOUS
    <3> HIDE DEF m0, L, P, S
    <3>2. BlocksWith(S, L, P, b, n,
                     FirstFit!InsertAt(m0.list, FirstFit!PlaceFor(m0), m0.base),
                     m0.property, m0.flags)
      BY <1>1, <1>2, <1>3, <3>1, MergeAll
    <3>3. QED
      BY <3>1, <3>2
  <2> HIDE DEF m
  <2>2. QED
    BY <1>5, <2>1
<1> HIDE DEF m
<1>7. S \ held' = (S \ held) \cup run /\ held' \subseteq S
  BY <1>1, <1>2, <1>5
<1>8. nr_free' = Cardinality(S \ held')
  <2>1. b \in Nat /\ S \ held \in SUBSET S /\ run \cap (S \ held) = {}
    BY <1>1, <1>2
  <2>2. Cardinality((S \ held) \cup run) = Cardinality(S \ held) + n
    BY <2>1, CountRun
  <2>3. QED
    BY <1>1, <1>5, <1>7, <2>2
<1>9. PmmInv'
  BY <1>1, <1>5, <1>6, <1>7, <1>8 DEF PmmInv, BlocksWith
<1>10. (UNION FirstFit!Blocks)' = Span(free_list', property')
  BY <1>9, BlocksThen
<1>11. FirstFit!Abstract!FreePages(b, n)
  <2>1. FirstFit!Abstract!Run(b, n) = run
    BY DEF FirstFit!Abstract!Run
  <2>2. run \subseteq S \ UNION FirstFit!Blocks
    BY <1>1, <1>3
  <2>3. (UNION FirstFit!Blocks)' = (UNION FirstFit!Blocks) \cup run
    BY <1>1, <1>6, <1>10 DEF BlocksWith
  <2> HIDE DEF run
  <2>4. QED
    BY <1>5, <2>1, <2>2, <2>3 DEF FirstFit!Abstract!FreePages
<1>12. QED
  BY <1>9, <1>11

-----------------------------------------------------------------------------
(* The initial list.                                                       *)

\* The variables default_init_memmap works on,
InitState(S) == [list : Seq(S), property : [S -> Nat], nr_free : Nat]

\* After i regions: the list has their first pages, with their lengths.
InitInv(i, s, S) ==
    /\ s \in InitState(S)
    /\ Len(s.list) = i
    /\ \A j \in 1 .. i : /\ s.list[j] = Regions[j][1]
                         /\ s.property[Regions[j][1]] = Regions[j][2]
    /\ s.nr_free = Cardinality({x \in FirstFit!Pages :
                        \E j \in 1 .. i : Regions[j][1] <= x /\ x < Regions[j][1] + Regions[j][2]})

\* and what default_init leaves in them.
InitBase == [list |-> <<>>, property |-> [p \in FirstFit!Pages |-> 0], nr_free |-> 0]

\* What MemoryAssumption says of the regions.
LEMMA RegionFacts ==
  /\ DOMAIN Regions = 1 .. Len(Regions) /\ Len(Regions) \in Nat
  /\ \A i \in DOMAIN Regions : /\ Regions[i][1] \in Nat /\ Regions[i][2] \in Nat
                               /\ Regions[i][2] >= 1
                               /\ Regions[i][1] \in FirstFit!Pages
  /\ \A i, j \in DOMAIN Regions : i < j => Regions[i][1] + Regions[i][2] < Regions[j][1]
  /\ \A i \in DOMAIN Regions : \A x \in Nat :
        Regions[i][1] <= x /\ x < Regions[i][1] + Regions[i][2] => x \in FirstFit!Pages
  /\ \A x \in FirstFit!Pages : \E i \in DOMAIN Regions :
        Regions[i][1] <= x /\ x < Regions[i][1] + Regions[i][2]
<1>1. Regions \in Seq(Nat \X (Nat \ {0})) /\
         \A i, j \in DOMAIN Regions : i < j => Regions[i][1] + Regions[i][2] < Regions[j][1]
  BY MemoryAssumption DEF FirstFit!RegionsAscend
<1>2. \A i \in DOMAIN Regions : Regions[i] \in Nat \X (Nat \ {0})
  BY <1>1
<1>3. /\ DOMAIN Regions = 1 .. Len(Regions) /\ Len(Regions) \in Nat
      /\ \A i \in DOMAIN Regions : /\ Regions[i][1] \in Nat /\ Regions[i][2] \in Nat
                                   /\ Regions[i][2] >= 1
  BY <1>1, <1>2
<1>4. \A i \in DOMAIN Regions : \A x : x \in FirstFit!Run(Regions[i][1], Regions[i][2]) <=>
            x \in Nat /\ Regions[i][1] <= x /\ x < Regions[i][1] + Regions[i][2]
  BY <1>3 DEF FirstFit!Run
<1>5. \A x : x \in FirstFit!Pages <=> \E i \in DOMAIN Regions :
            x \in Nat /\ Regions[i][1] <= x /\ x < Regions[i][1] + Regions[i][2]
  BY <1>4 DEF FirstFit!Pages
<1>6. \A i \in DOMAIN Regions : Regions[i][1] \in FirstFit!Pages
  <2>1. ASSUME NEW i \in DOMAIN Regions
        PROVE  Regions[i][1] \in FirstFit!Pages
    <3>1. /\ Regions[i][1] \in Nat /\ Regions[i][1] <= Regions[i][1]
          /\ Regions[i][1] < Regions[i][1] + Regions[i][2]
      BY <1>3
    <3>2. QED
      BY <1>5, <3>1
  <2>2. QED
    BY <2>1
<1>7. QED
  BY <1>1, <1>3, <1>5, <1>6

\* The fields after default_init_memmap of a region.
LEMMA InitMemmapType ==
  ASSUME NEW S, NEW s \in InitState(S), NEW region, region[1] \in S, region[2] \in Nat
  PROVE  /\ FirstFit!InitMemmap(s, region) \in InitState(S)
         /\ FirstFit!InitMemmap(s, region).list = Append(s.list, region[1])
         /\ FirstFit!InitMemmap(s, region).property
               = [s.property EXCEPT ![region[1]] = region[2]]
         /\ FirstFit!InitMemmap(s, region).nr_free = s.nr_free + region[2]
BY DEF FirstFit!InitMemmap, InitState

\* init_memmap of each region in turn.
LEMMA InitFold ==
  \E g \in [0 .. Len(Regions) -> InitState(FirstFit!Pages)] :
     /\ g[0] = InitBase
     /\ g[Len(Regions)] = FirstFit!FoldLeft(FirstFit!InitMemmap, InitBase, Regions)
     /\ \A i \in 1 .. Len(Regions) : g[i] = FirstFit!InitMemmap(g[i - 1], Regions[i])
<1> DEFINE N == Len(Regions)
           X == InitState(FirstFit!Pages)
           F == [i \in 1 .. N |-> [s \in X |-> FirstFit!InitMemmap(s, Regions[i])]]
           iter == CHOOSE it : it = [s \in SUBSET (1 .. N) |->
                      IF s = {} THEN InitBase
                      ELSE FirstFit!InitMemmap(it[s \ {Max(s)}], Regions[Max(s)])]
<1>1. N \in Nat /\ DOMAIN Regions = 1 .. N
      /\ \A i \in 1 .. N : Regions[i][1] \in FirstFit!Pages /\ Regions[i][2] \in Nat
  BY RegionFacts
<1>2. F \in [1 .. N -> [X -> X]]
  <2>1. \A i \in 1 .. N : \A s \in X : FirstFit!InitMemmap(s, Regions[i]) \in X
    BY <1>1, InitMemmapType
  <2> HIDE DEF N, X
  <2>2. QED
    BY <2>1
<1>3. InitBase \in X
  BY DEF InitBase, InitState
<1> HIDE DEF X
<1>4. FirstFit!FoldLeft(FirstFit!InitMemmap, InitBase, Regions) = iter[1 .. N]
  BY <1>1 DEF FirstFit!FoldLeft, FirstFit!MapThenFoldSet, FirstFit!Max, Max
<1> HIDE DEF N
<1>5. iter = [s \in SUBSET (1 .. N) |->
                 IF s = {} THEN InitBase
                 ELSE FirstFit!InitMemmap(iter[s \ {Max(s)}], Regions[Max(s)])]
  <2>1. PICK it \in [SUBSET (1 .. N) -> X] : IsFold(it, N, InitBase, F)
    <3> HIDE DEF F
    <3>1. QED
      BY <1>1, <1>2, <1>3, FoldExists
  <2>2. ASSUME NEW s \in SUBSET (1 .. N), s # {}
        PROVE  F[Max(s)][it[s \ {Max(s)}]]
                  = FirstFit!InitMemmap(it[s \ {Max(s)}], Regions[Max(s)])
    <3>1. Max(s) \in 1 .. N
      BY <1>1, <2>2, MaxInSet
    <3>2. it[s \ {Max(s)}] \in X
      OBVIOUS
    <3>3. QED
      BY <3>1, <3>2
  <2>3. it = [s \in SUBSET (1 .. N) |->
                 IF s = {} THEN InitBase
                 ELSE FirstFit!InitMemmap(it[s \ {Max(s)}], Regions[Max(s)])]
    <3> HIDE DEF F
    <3>1. QED
      BY <2>1, <2>2 DEF IsFold
  <2>4. QED
    BY <2>3
<1>6. FoldsWithin(iter, N, X, InitBase, F)
  <2>1. iter[{}] = InitBase
    <3> HIDE DEF iter
    <3>1. QED
      BY <1>5
  <2>2. ASSUME NEW s \in SUBSET (1 .. N), s # {}, iter[s \ {Max(s)}] \in X
        PROVE  iter[s] = F[Max(s)][iter[s \ {Max(s)}]]
    <3>1. Max(s) \in 1 .. N
      BY <1>1, <2>2, MaxInSet
    <3> HIDE DEF iter
    <3>2. iter[s] = FirstFit!InitMemmap(iter[s \ {Max(s)}], Regions[Max(s)])
      BY <1>5, <2>2
    <3>3. QED
      BY <2>2, <3>1, <3>2
  <2> HIDE DEF iter, F
  <2>3. QED
    BY <2>1, <2>2 DEF FoldsWithin
<1>7. PICK g \in [0 .. N -> X] : IsRun(g, iter, N, InitBase, F)
  <2> HIDE DEF iter, F
  <2>1. QED
    BY <1>1, <1>2, <1>3, <1>6, FoldPrefixes
<1>8. ASSUME NEW i \in 1 .. N
      PROVE  g[i] = FirstFit!InitMemmap(g[i - 1], Regions[i])
  <2>1. i - 1 \in 0 .. N
    BY <1>1
  <2>2. g[i - 1] \in X
    BY <1>7, <2>1
  <2> HIDE DEF iter
  <2>3. QED
    BY <1>7, <2>2 DEF IsRun
<1>9. QED
  <2> HIDE DEF iter, F
  <2>1. QED
    BY <1>4, <1>7, <1>8 DEF IsRun, N, X

\* default_init_memmap of the next region keeps InitInv.
LEMMA InitStep ==
  ASSUME NEW i \in 0 .. Len(Regions), i < Len(Regions), NEW s,
         InitInv(i, s, FirstFit!Pages)
  PROVE  InitInv(i + 1, FirstFit!InitMemmap(s, Regions[i + 1]), FirstFit!Pages)
<1> DEFINE S == FirstFit!Pages
           r == Regions[i + 1]
           t == FirstFit!InitMemmap(s, r)
           Within(j, x) == Regions[j][1] <= x /\ x < Regions[j][1] + Regions[j][2]
           Done == {x \in S : \E j \in 1 .. i : Within(j, x)}
<1>1. i \in Nat /\ i + 1 \in DOMAIN Regions /\ \A j \in 1 .. i : j \in DOMAIN Regions /\ j < i + 1
  BY RegionFacts
<1>2. /\ r[1] \in S /\ r[2] \in Nat /\ r[1] \in Nat /\ S \in SUBSET Nat
      /\ \A j \in 1 .. i : Regions[j][1] \in Nat /\ Regions[j][2] \in Nat
                           /\ Regions[j][1] \in S /\ Regions[j][1] + Regions[j][2] < r[1]
  BY <1>1, RegionFacts, PagesFinite
<1>3. /\ s \in InitState(S) /\ s.list \in Seq(S) /\ s.property \in [S -> Nat]
      /\ Len(s.list) = i /\ s.nr_free = Cardinality(Done)
  BY DEF InitInv, InitState
<1>4. /\ t \in InitState(S) /\ t.list = Append(s.list, r[1])
      /\ t.property = [s.property EXCEPT ![r[1]] = r[2]]
      /\ t.nr_free = s.nr_free + r[2]
  <2> HIDE DEF S, r
  <2>1. QED
    BY <1>2, <1>3, InitMemmapType
<1> HIDE DEF t
<1>5. Len(t.list) = i + 1
  BY <1>2, <1>3, <1>4
<1>6. ASSUME NEW j \in 1 .. i + 1
      PROVE  t.list[j] = Regions[j][1] /\ t.property[Regions[j][1]] = Regions[j][2]
  <2>1. CASE j = i + 1
    BY <1>2, <1>3, <1>4, <2>1
  <2>2. CASE j # i + 1
    <3>1. j \in 1 .. i
      BY <1>1, <2>2
    <3>2. Regions[j][1] # r[1]
      BY <1>2, <3>1
    <3>3. s.list[j] = Regions[j][1] /\ s.property[Regions[j][1]] = Regions[j][2]
      BY <3>1 DEF InitInv
    <3>4. t.list[j] = s.list[j]
      BY <1>2, <1>3, <1>4, <3>1
    <3>5. QED
      BY <1>2, <1>3, <1>4, <3>1, <3>2, <3>3, <3>4
  <2>3. QED
    BY <2>1, <2>2
<1>7. {x \in S : \E j \in 1 .. i + 1 : Within(j, x)} = Done \cup (r[1] .. r[1] + r[2] - 1)
  <2>1. \A x \in Nat : Within(i + 1, x) <=> x \in r[1] .. r[1] + r[2] - 1
    BY <1>2
  <2>2. \A x \in Nat : Within(i + 1, x) => x \in S
    BY <1>1, RegionFacts
  <2>3. \A x \in S : (\E j \in 1 .. i + 1 : Within(j, x))
                       <=> (\E j \in 1 .. i : Within(j, x)) \/ Within(i + 1, x)
    <3> HIDE DEF Within
    <3>1. 1 .. i + 1 = 1 .. i \cup {i + 1}
      BY <1>1
    <3>2. QED
      BY <3>1
  <2>4. r[1] .. r[1] + r[2] - 1 \subseteq Nat
    BY <1>2
  <2> HIDE DEF Within, r, S
  <2>5. QED
    BY <1>2, <2>1, <2>2, <2>3, <2>4
<1>8. Done \in SUBSET S /\ (r[1] .. r[1] + r[2] - 1) \cap Done = {}
  <2>1. ASSUME NEW x \in r[1] .. r[1] + r[2] - 1, x \in Done
        PROVE  FALSE
    <3>1. PICK j \in 1 .. i : Within(j, x)
      BY <2>1
    <3>2. x \in Nat /\ r[1] <= x
      BY <1>2, <2>1
    <3>3. x < Regions[j][1] + Regions[j][2]
      BY <3>1
    <3>4. /\ Regions[j][1] + Regions[j][2] < r[1]
          /\ Regions[j][1] + Regions[j][2] \in Nat
          /\ r[1] \in Nat
      BY <1>2, <3>1
    <3> HIDE DEF r
    <3>5. QED
      BY <3>2, <3>3, <3>4
  <2>2. QED
    BY <2>1
<1>9. t.nr_free = Cardinality({x \in S : \E j \in 1 .. i + 1 : Within(j, x)})
  <2> HIDE DEF Done
  <2>1. Cardinality(Done \cup (r[1] .. r[1] + r[2] - 1)) = Cardinality(Done) + r[2]
    BY <1>2, <1>8, CountRun
  <2>2. QED
    BY <1>3, <1>4, <1>7, <2>1
<1>10. QED
  BY <1>4, <1>5, <1>6, <1>9 DEF InitInv, t

-----------------------------------------------------------------------------
(* The theorems.                                                           *)

\* The state page_init leaves satisfies PmmInv and is the initial state of
\* PageAllocator.
LEMMA PmmInit ==
  ASSUME FirstFit!Init
  PROVE  PmmInv /\ FirstFit!Abstract!Init
<1> DEFINE S == FirstFit!Pages
           N == Len(Regions)
           s == FirstFit!FoldLeft(FirstFit!InitMemmap, InitBase, Regions)
           Within(j, x) == Regions[j][1] <= x /\ x < Regions[j][1] + Regions[j][2]
<1>1. N \in Nat /\ S \in SUBSET Nat
  BY RegionFacts, PagesFinite
<1>2. PICK g \in [0 .. N -> InitState(S)] :
         /\ g[0] = InitBase
         /\ g[N] = FirstFit!FoldLeft(FirstFit!InitMemmap, InitBase, Regions)
         /\ \A i \in 1 .. N : g[i] = FirstFit!InitMemmap(g[i - 1], Regions[i])
  BY InitFold
<1> DEFINE T == {i \in 0 .. N : InitInv(i, g[i], S)}
<1>3. 0 \in T
  <2>1. InitBase \in InitState(S) /\ Len(InitBase.list) = 0 /\ InitBase.nr_free = 0
    BY DEF InitBase, InitState
  <2>2. {x \in S : \E j \in 1 .. 0 : Within(j, x)} = {}
    OBVIOUS
  <2>3. InitInv(0, InitBase, S)
    BY <2>1, <2>2, FS_EmptySet DEF InitInv
  <2>4. QED
    BY <1>1, <1>2, <2>3
<1>4. ASSUME NEW i \in 0 .. N, i < N, i \in T
      PROVE  i + 1 \in T
  <2>1. i + 1 \in 1 .. N /\ i + 1 \in 0 .. N /\ (i + 1) - 1 = i
    BY <1>1, <1>4
  <2>2. InitInv(i + 1, FirstFit!InitMemmap(g[i], Regions[i + 1]), S)
    BY <1>4, InitStep
  <2>3. g[i + 1] = FirstFit!InitMemmap(g[i], Regions[i + 1])
    BY <1>2, <2>1
  <2>4. QED
    BY <2>1, <2>2, <2>3
<1>5. InitInv(N, s, S)
  <2>1. N \in T
    <3> HIDE DEF T, N
    <3>1. 0 .. N \subseteq T
      BY <1>1, <1>3, <1>4, IntervalInduction
    <3>2. QED
      BY <1>1, <3>1
  <2>2. QED
    BY <1>2, <2>1
<1>6. /\ free_list = s.list /\ property = s.property /\ PageProperty = ToSet(s.list)
      /\ nr_free = s.nr_free /\ page = NULL /\ held = {}
  <2>1. FirstFit!ToSet(s.list) = ToSet(s.list)
    BY DEF FirstFit!ToSet, ToSet
  <2>2. QED
    BY <2>1 DEF FirstFit!Init, InitBase
<1> HIDE DEF s
<1>7. /\ free_list \in Seq(S) /\ property \in [S -> Nat] /\ Len(free_list) = N
      /\ DOMAIN free_list = DOMAIN Regions
      /\ \A j \in DOMAIN Regions : /\ free_list[j] = Regions[j][1]
                                   /\ property[free_list[j]] = Regions[j][2]
  <2>1. s \in InitState(S) /\ Len(s.list) = N
    BY <1>5 DEF InitInv
  <2>2. s.list \in Seq(S) /\ s.property \in [S -> Nat]
    BY <2>1 DEF InitState
  <2>3. DOMAIN s.list = 1 .. N /\ DOMAIN Regions = 1 .. N
    BY <1>1, <2>1, <2>2
  <2>4. QED
    BY <1>5, <1>6, <2>1, <2>2, <2>3 DEF InitInv
<1>8. \A x \in S : \E j \in DOMAIN Regions : Within(j, x)
  BY RegionFacts
<1>9. nr_free = Cardinality(S)
  <2>1. DOMAIN Regions = 1 .. N
    BY RegionFacts
  <2>2. {x \in S : \E j \in 1 .. N : Within(j, x)} = S
    <3> HIDE DEF Within, S
    <3>1. QED
      BY <1>8, <2>1
  <2>3. QED
    BY <1>5, <1>6, <2>2 DEF InitInv
<1>10. \A x \in Nat : \A j \in DOMAIN Regions : Within(j, x) => x \in S
  BY RegionFacts
<1>11. Span(free_list, property) = S
  <2>1. \A x \in Nat : x \in Span(free_list, property)
              <=> \E j \in DOMAIN Regions : Within(j, x)
    BY <1>7 DEF Span
  <2>2. Span(free_list, property) \subseteq Nat
    BY DEF Span
  <2> HIDE DEF Within, S
  <2>3. QED
    BY <1>1, <1>8, <1>10, <2>1, <2>2
<1>12. BlockList(free_list, property, S)
  <2>1. ASSUME NEW j \in DOMAIN free_list
        PROVE  property[free_list[j]] >= 1
    <3>1. j \in DOMAIN Regions /\ property[free_list[j]] = Regions[j][2]
      BY <1>7
    <3>2. Regions[j][2] >= 1
      BY <3>1, RegionFacts
    <3>3. QED
      BY <3>1, <3>2
  <2>2. ASSUME NEW j \in DOMAIN free_list, NEW k \in DOMAIN free_list, j < k
        PROVE  free_list[j] + property[free_list[j]] < free_list[k]
    <3>1. /\ j \in DOMAIN Regions /\ property[free_list[j]] = Regions[j][2]
          /\ free_list[j] = Regions[j][1]
          /\ k \in DOMAIN Regions /\ free_list[k] = Regions[k][1]
      BY <1>7
    <3>2. Regions[j][1] + Regions[j][2] < Regions[k][1]
      BY <2>2, <3>1, RegionFacts
    <3>3. QED
      BY <3>1, <3>2
  <2>3. QED
    BY <1>7, <1>11, <2>1, <2>2 DEF BlockList
<1>13. S \ held = S
  BY <1>6
<1>14. PmmInv
  BY <1>6, <1>9, <1>11, <1>12, <1>13 DEF PmmInv
<1>15. QED
  BY <1>6, <1>11, <1>14, BlocksNow DEF FirstFit!Abstract!Init

\* Every step of default_pmm.c keeps PmmInv and is one of PageAllocator.
LEMMA PmmNext ==
  ASSUME PmmInv, [FirstFit!Next]_(FirstFit!vars)
  PROVE  PmmInv' /\ [FirstFit!Abstract!Next]_(FirstFit!Abstract!vars)
<1> DEFINE top == Cardinality(FirstFit!Pages) + 1
<1>1. top \in Nat /\ held \subseteq FirstFit!Pages
  BY PagesFinite DEF PmmInv
<1>2. CASE UNCHANGED FirstFit!vars
  BY <1>2 DEF PmmInv, FirstFit!vars, FirstFit!Abstract!vars, FirstFit!Blocks
<1>3. ASSUME NEW n \in 1 .. top, FirstFit!AllocPages(n)
      PROVE  PmmInv' /\ FirstFit!Abstract!AllocPages(n)
  <2>1. n \in Nat /\ n >= 1
    BY <1>1
  <2>2. QED
    BY <1>3, <2>1, PmmAlloc
<1>4. ASSUME NEW n \in 1 .. top, NEW b \in held, FirstFit!FreePages(b, n)
      PROVE  PmmInv' /\ FirstFit!Abstract!FreePages(b, n)
  <2>1. n \in Nat /\ n >= 1
    BY <1>1
  <2>2. QED
    BY <1>4, <2>1, PmmFree
<1>5. CASE FirstFit!Next
  <2>1. PICK n \in 1 .. top : FirstFit!AllocPages(n) \/ \E b \in held : FirstFit!FreePages(b, n)
    BY <1>5 DEF FirstFit!Next, FirstFit!Cardinality, Cardinality
  <2>2. n \in 1 .. FirstFit!Abstract!Cardinality(FirstFit!Pages) + 1
    BY DEF FirstFit!Abstract!Cardinality, Cardinality
  <2>3. CASE FirstFit!AllocPages(n)
    BY <1>3, <2>2, <2>3 DEF FirstFit!Abstract!Next
  <2>4. CASE \E b \in held : FirstFit!FreePages(b, n)
    BY <1>1, <1>4, <2>2, <2>4 DEF FirstFit!Abstract!Next
  <2>5. QED
    BY <2>1, <2>3, <2>4
<1>6. QED
  BY <1>2, <1>5

\* PmmInv, for the behaviours of MCMemory in which FirstFit runs.
PmmPart == part = "pmm" => PmmInv

\* PmmInv is an invariant.
LEMMA PmmInvariance == Spec => []PmmPart
<1>1. Init => PmmPart
  BY PmmInit DEF Init, PmmPart
<1>2. PmmPart /\ [Next]_vars => PmmPart'
  <2>1. SUFFICES ASSUME PmmPart, [Next]_vars, part' = "pmm" PROVE PmmInv'
    BY DEF PmmPart
  <2>2. part = "pmm" /\ [FirstFit!Next]_(FirstFit!vars)
    BY <2>1 DEF Next, PmmStep, VmmStep, SwapStep, vars, pmmvars,
                FirstFit!vars
  <2>3. QED
    BY <2>1, <2>2, PmmNext DEF PmmPart
<1>3. QED
  BY <1>1, <1>2, PTL DEF Spec

\* The block list of default_pmm.c, for whatever regions: it ascends, blocks
\* neither overlap nor touch, PG_property marks their first pages, every page
\* is in a block or with a caller, and nr_free counts the former.
THEOREM FreeListStaysSound == Spec => []FreeListSound
<1>1. PmmInv => FirstFit!FreeListSound
  <2> SUFFICES ASSUME PmmInv PROVE FirstFit!FreeListSound
    OBVIOUS
  <2>1. FirstFit!TypeOK
    <3>1. nr_free \in Nat
      BY PagesFinite DEF PmmInv
    <3>2. free_list \in Seq(FirstFit!Pages) /\ property \in [FirstFit!Pages -> Nat]
      BY DEF PmmInv, BlockList
    <3>3. PageProperty \subseteq FirstFit!Pages
      BY <3>2 DEF PmmInv, ToSet
    <3>4. QED
      BY <3>1, <3>2, <3>3 DEF PmmInv, FirstFit!TypeOK
  <2>2. FirstFit!Coalesced
    <3>1. \A i, j \in DOMAIN free_list :
             i < j => free_list[i] + property[free_list[i]] < free_list[j]
      BY DEF PmmInv, BlockList
    <3>2. QED
      BY <3>1 DEF FirstFit!Coalesced
  <2>3. FirstFit!NothingLost
    <3>1. UNION FirstFit!Blocks = Span(free_list, property)
      BY BlocksNow
    <3>2. FirstFit!Cardinality(FirstFit!Pages \ held) = Cardinality(FirstFit!Pages \ held)
      BY DEF FirstFit!Cardinality, Cardinality
    <3>3. QED
      BY <3>1, <3>2 DEF PmmInv, FirstFit!NothingLost
  <2>4. FirstFit!FlagsMarkBlocks
    BY DEF PmmInv, FirstFit!FlagsMarkBlocks, FirstFit!ToSet, ToSet
  <2>5. QED
    BY <2>1, <2>2, <2>3, <2>4 DEF FirstFit!FreeListSound
<1>2. PmmPart => FreeListSound
  BY <1>1 DEF PmmPart, FreeListSound
<1>3. QED
  BY <1>2, PmmInvariance, PTL

\* First fit on a list of blocks does what the users of pmm.h are promised:
\* the lowest run of free pages that is long enough, and failure only when
\* there is none.
THEOREM FirstFitAllocates == Spec => ImplementsAllocator
<1>1. Init => (part = "pmm" => FirstFit!Abstract!Init)
  BY PmmInit DEF Init
<1>2. PmmPart /\ [Next]_vars
         => [part = "pmm" => [FirstFit!Abstract!Next]_(FirstFit!Abstract!vars)]_vars
  <2>1. SUFFICES ASSUME PmmPart, Next, part = "pmm"
                 PROVE  [FirstFit!Abstract!Next]_(FirstFit!Abstract!vars)
    OBVIOUS
  <2>2. PmmInv /\ [FirstFit!Next]_(FirstFit!vars)
    BY <2>1 DEF PmmPart, Next, PmmStep, VmmStep, SwapStep
  <2>3. QED
    BY <2>2, PmmNext
<1>3. QED
  BY <1>1, <1>2, PmmInvariance, PTL DEF Spec, ImplementsAllocator

-----------------------------------------------------------------------------
(* Swapping.                                                               *)

\* The inductive invariant of swapping: the types, a FIFO list of exactly the
\* frames in use, page table and pra_vaddr inverse to each other on them, a TLB
\* that agrees with the page table, and a page that is faulted in is not there.
SwapInv ==
    /\ Swap!TypeOK
    /\ IsInjective(pra_list)
    /\ ToSet(pra_list) = Two \ free
    /\ \A f \in Two \ free : pra_vaddr[f] \in Three /\ pte[pra_vaddr[f]] = f
    /\ \A a \in Three : pte[a] \in Two => pte[a] \notin free /\ pra_vaddr[pte[a]] = a
    /\ \A a \in Three : tlb[a] # NULL => tlb[a] = pte[a]
    /\ faulting # NULL => pte[faulting] \notin Two

\* The operators on sequences that Swap uses are those of SequencesExt.
LEMMA SwapSequences ==
  /\ \A s, e : Swap!RemoveFirst(s, e) = RemoveFirst(s, e)
  /\ \A s : Swap!ToSet(s) = ToSet(s) /\ Swap!IsInjective(s) = IsInjective(s)
  /\ \A s : Swap!Last(s) = s[Len(s)]
  /\ \A s : Swap!Reverse(s) = [i \in 1 .. Len(s) |-> s[(Len(s) - i) + 1]]
<1>1. ASSUME NEW s, NEW e
      PROVE  Swap!RemoveFirst(s, e) = RemoveFirst(s, e)
  BY DEF Swap!RemoveFirst, RemoveFirst, Swap!RemoveAt, RemoveAt,
         Swap!SelectInSeq, SelectInSeq, Swap!Min, Min
<1>2. ASSUME NEW s
      PROVE  /\ Swap!ToSet(s) = ToSet(s) /\ Swap!IsInjective(s) = IsInjective(s)
             /\ Swap!Last(s) = s[Len(s)]
             /\ Swap!Reverse(s) = [i \in 1 .. Len(s) |-> s[(Len(s) - i) + 1]]
  BY DEF Swap!ToSet, ToSet, Swap!IsInjective, IsInjective, Swap!Last, Swap!Reverse
<1>3. QED
  BY <1>1, <1>2

\* What SwapAssumption says.
LEMMA SwapConstants ==
  Two # {} /\ NULL \notin Two \cup Three \cup Values /\ "swapped" \notin Two \cup {NULL}
BY MemoryAssumption DEF Swap!SwapAssumption

\* When no frame is free the victim is the last frame of the list, it is in
\* use, and the assertions of swap_out hold of it.
LEMMA VictimFound ==
  ASSUME SwapInv, free = {}
  PROVE  /\ Len(pra_list) \in Nat /\ Len(pra_list) >= 1
         /\ Swap!Victim(pra_list) = pra_list[Len(pra_list)]
         /\ Swap!Victim(pra_list) \in Two
         /\ pra_vaddr[Swap!Victim(pra_list)] \in Three
         /\ pte[pra_vaddr[Swap!Victim(pra_list)]] = Swap!Victim(pra_list)
         /\ Swap!Unlinked(pra_list, Swap!Victim(pra_list))
               = RemoveAt(pra_list, Len(pra_list))
         /\ Swap!MaySwapOut
<1> DEFINE n == Len(pra_list)
<1>1. pra_list \in Seq(Two) /\ n \in Nat /\ DOMAIN pra_list = 1 .. n
  BY DEF SwapInv, Swap!TypeOK
<1>2. n >= 1
  <2>1. PICK f : f \in ToSet(pra_list)
    BY SwapConstants DEF SwapInv
  <2>2. QED
    BY <1>1, <2>1 DEF ToSet
<1>3. Swap!Victim(pra_list) = pra_list[n]
  BY SwapSequences DEF Swap!Victim
<1>4. pra_list[n] \in Two /\ pra_list[n] \in Two \ free
  BY <1>1, <1>2 DEF SwapInv
<1>5. pra_vaddr[pra_list[n]] \in Three /\ pte[pra_vaddr[pra_list[n]]] = pra_list[n]
  BY <1>4 DEF SwapInv
<1>6. Swap!Unlinked(pra_list, pra_list[n]) = RemoveAt(pra_list, n)
  <2>1. IsInjective(pra_list) /\ n \in 1 .. Len(pra_list)
    BY <1>1, <1>2 DEF SwapInv
  <2>2. RemoveFirst(pra_list, pra_list[n]) = RemoveAt(pra_list, n)
    BY <1>1, <2>1, RemoveFirstAt
  <2>3. QED
    BY <2>2, SwapSequences DEF Swap!Unlinked
<1>7. pra_list # <<>>
  BY <1>1, <1>2
<1>8. QED
  BY <1>1, <1>2, <1>3, <1>4, <1>5, <1>6, <1>7 DEF Swap!MaySwapOut, Swap!Present

\* Swapping starts in a state that satisfies it.
LEMMA SwapInit ==
  ASSUME Swap!Init
  PROVE  SwapInv
<1>1. /\ pte = [a \in Three |-> NULL] /\ tlb = [a \in Three |-> NULL] /\ free = Two
      /\ content \in [Two -> Values] /\ pra_vaddr = [f \in Two |-> NULL]
      /\ pra_list = <<>> /\ disk \in [Three -> Values] /\ faulting = NULL
  BY DEF Swap!Init
<1>2. pra_list \in Seq(Two) /\ ToSet(pra_list) = {} /\ IsInjective(pra_list)
  BY <1>1 DEF ToSet, IsInjective
<1>3. Swap!TypeOK
  BY <1>1, <1>2 DEF Swap!TypeOK
<1>4. QED
  BY <1>1, <1>2, <1>3, SwapConstants DEF SwapInv

\* A store, an eviction from the TLB and a fault leave the list alone.
LEMMA AccessKeeps ==
  ASSUME SwapInv, NEW a \in Three,
         (\E v \in Values : Swap!Store(a, v)) \/ Swap!Evict(a) \/ Swap!Fault(a)
  PROVE  SwapInv' /\ UNCHANGED <<pra_list, pra_vaddr>>
<1>1. /\ pte \in [Three -> Two \cup {NULL, "swapped"}] /\ tlb \in [Three -> Two \cup {NULL}]
      /\ content \in [Two -> Values] /\ faulting \in Three \cup {NULL}
  BY DEF SwapInv, Swap!TypeOK
<1>2. CASE \E v \in Values : Swap!Store(a, v)
  <2>1. PICK v \in Values : Swap!Store(a, v)
    BY <1>2
  <2>2. Swap!Translation(a) = pte[a] /\ pte[a] \in Two
    BY <1>1, <2>1, SwapConstants DEF SwapInv, Swap!Store, Swap!Translation, Swap!Present
  <2>3. content' \in [Two -> Values] /\ tlb' = [tlb EXCEPT ![a] = pte[a]]
    BY <1>1, <2>1, <2>2 DEF Swap!Store
  <2>4. UNCHANGED <<pte, free, pra_vaddr, pra_list, disk, faulting>>
    BY <2>1 DEF Swap!Store
  <2>5. Swap!TypeOK'
    BY <1>1, <2>2, <2>3, <2>4 DEF SwapInv, Swap!TypeOK
  <2>6. \A b \in Three : tlb'[b] # NULL => tlb'[b] = pte[b]
    BY <1>1, <2>3 DEF SwapInv
  <2>7. QED
    BY <2>4, <2>5, <2>6 DEF SwapInv, ToSet, IsInjective
<1>3. CASE Swap!Evict(a)
  <2>1. /\ tlb' = [tlb EXCEPT ![a] = NULL]
        /\ UNCHANGED <<pte, free, content, pra_vaddr, pra_list, disk, faulting>>
    BY <1>3 DEF Swap!Evict
  <2>2. Swap!TypeOK'
    BY <1>1, <2>1 DEF SwapInv, Swap!TypeOK
  <2>3. \A b \in Three : tlb'[b] # NULL => tlb'[b] = pte[b]
    BY <1>1, <2>1 DEF SwapInv
  <2>4. QED
    BY <2>1, <2>2, <2>3 DEF SwapInv, ToSet, IsInjective
<1>4. CASE Swap!Fault(a)
  <2>1. /\ faulting' = a /\ Swap!Translation(a) = NULL
        /\ UNCHANGED <<pte, tlb, free, content, pra_vaddr, pra_list, disk>>
    BY <1>4 DEF Swap!Fault
  <2>2. Swap!TypeOK'
    BY <1>1, <2>1 DEF SwapInv, Swap!TypeOK
  <2>3. pte[a] \notin Two
    BY <2>1, SwapConstants DEF Swap!Translation, Swap!Present
  <2>4. QED
    BY <2>1, <2>2, <2>3 DEF SwapInv, ToSet, IsInjective
<1>5. QED
  BY <1>2, <1>3, <1>4

\* swap_out takes the victim off the list, and its page out of memory.
LEMMA SwapOutKeeps ==
  ASSUME SwapInv, Swap!SwapOut
  PROVE  SwapInv'
<1> DEFINE f == Swap!Victim(pra_list)
           a == pra_vaddr[f]
           n == Len(pra_list)
<1>1. free = {} /\ faulting # NULL /\ faulting' = faulting
  BY DEF Swap!SwapOut, Swap!NeedsFrame
<1>2. /\ n \in Nat /\ n >= 1 /\ f = pra_list[n] /\ f \in Two /\ a \in Three /\ pte[a] = f
      /\ Swap!Unlinked(pra_list, f) = RemoveAt(pra_list, n)
  BY <1>1, VictimFound
<1>3. /\ pra_list' = RemoveAt(pra_list, n) /\ disk' = [disk EXCEPT ![a] = content[f]]
      /\ pte' = [pte EXCEPT ![a] = "swapped"] /\ free' = {f}
      /\ tlb' = [tlb EXCEPT ![a] = NULL] /\ UNCHANGED <<content, pra_vaddr, faulting>>
  BY <1>1, <1>2 DEF Swap!SwapOut, Swap!Slot, Swap!tlb_invalidate
<1>4. /\ pte \in [Three -> Two \cup {NULL, "swapped"}] /\ tlb \in [Three -> Two \cup {NULL}]
      /\ content \in [Two -> Values] /\ faulting \in Three \cup {NULL}
      /\ disk \in [Three -> Values] /\ pra_list \in Seq(Two) /\ IsInjective(pra_list)
      /\ ToSet(pra_list) = Two \ free
  BY DEF SwapInv, Swap!TypeOK
<1> HIDE DEF f, a, n
<1>5. /\ pra_list' \in Seq(Two) /\ IsInjective(pra_list') /\ ToSet(pra_list') = Two \ free'
  <2>1. n \in 1 .. Len(pra_list)
    BY <1>2 DEF n
  <2>2. /\ RemoveAt(pra_list, n) \in Seq(Two) /\ IsInjective(RemoveAt(pra_list, n))
        /\ ToSet(RemoveAt(pra_list, n)) = ToSet(pra_list) \ {pra_list[n]}
    BY <1>4, <2>1, RemoveSet
  <2>3. QED
    BY <1>1, <1>2, <1>3, <1>4, <2>2
<1>6. Swap!TypeOK'
  BY <1>2, <1>3, <1>4, <1>5 DEF SwapInv, Swap!TypeOK
<1>7. \A g \in Two \ free' : pra_vaddr'[g] \in Three /\ pte'[pra_vaddr'[g]] = g
  BY <1>1, <1>2, <1>3, <1>4 DEF SwapInv
<1>8. \A b \in Three : pte'[b] \in Two => pte'[b] \notin free' /\ pra_vaddr'[pte'[b]] = b
  BY <1>1, <1>2, <1>3, <1>4, SwapConstants DEF SwapInv, a
<1>9. \A b \in Three : tlb'[b] # NULL => tlb'[b] = pte'[b]
  BY <1>3, <1>4 DEF SwapInv
<1>10. pte'[faulting'] \notin Two
  BY <1>1, <1>3, <1>4, SwapConstants DEF SwapInv
<1>11. QED
  BY <1>5, <1>6, <1>7, <1>8, <1>9, <1>10 DEF SwapInv

\* A victim the disk refuses goes to the other end of the list.
LEMMA SwapOutFailsKeeps ==
  ASSUME SwapInv, Swap!SwapOutFails
  PROVE  SwapInv'
<1> DEFINE f == Swap!Victim(pra_list)
           n == Len(pra_list)
           rest == RemoveAt(pra_list, n)
<1>1. free = {} /\ UNCHANGED <<pte, tlb, free, content, pra_vaddr, disk, faulting>>
  BY DEF Swap!SwapOutFails, Swap!NeedsFrame
<1>2. /\ n \in Nat /\ n >= 1 /\ f = pra_list[n] /\ f \in Two
      /\ Swap!Unlinked(pra_list, f) = rest
  BY <1>1, VictimFound
<1>3. pra_list' = <<f>> \o rest
  BY <1>2 DEF Swap!SwapOutFails, Swap!_fifo_map_swappable
<1>4. pra_list \in Seq(Two) /\ IsInjective(pra_list) /\ ToSet(pra_list) = Two \ free
  BY DEF SwapInv, Swap!TypeOK
<1> HIDE DEF f
<1>5. /\ rest \in Seq(Two) /\ IsInjective(rest) /\ ToSet(rest) = ToSet(pra_list) \ {f}
  <2>1. n \in 1 .. Len(pra_list)
    BY <1>2
  <2>2. QED
    BY <1>2, <1>4, <2>1, RemoveSet
<1> HIDE DEF rest, n
<1>6. /\ pra_list' \in Seq(Two) /\ IsInjective(pra_list')
      /\ ToSet(pra_list') = ToSet(rest) \cup {f}
  <2>1. f \notin ToSet(rest)
    BY <1>5
  <2>2. QED
    BY <1>2, <1>3, <1>5, <2>1, ConsSet
<1>7. ToSet(pra_list') = Two \ free'
  BY <1>1, <1>2, <1>4, <1>5, <1>6
<1>8. Swap!TypeOK'
  BY <1>1, <1>6 DEF SwapInv, Swap!TypeOK
<1>9. QED
  BY <1>1, <1>6, <1>7, <1>8 DEF SwapInv

\* The page that comes in gets a free frame, which joins the list.
LEMMA PageInKeeps ==
  ASSUME SwapInv, Swap!PageIn
  PROVE  SwapInv'
<1>1. PICK f \in free, v \in Values :
        /\ free' = free \ {f} /\ content' = [content EXCEPT ![f] = v]
        /\ pte' = [pte EXCEPT ![faulting] = f] /\ tlb' = [tlb EXCEPT ![faulting] = NULL]
        /\ pra_list' = <<f>> \o pra_list /\ pra_vaddr' = [pra_vaddr EXCEPT ![f] = faulting]
  BY DEF Swap!PageIn, Swap!tlb_invalidate, Swap!_fifo_map_swappable
<1>2. faulting # NULL /\ faulting' = NULL /\ disk' = disk
  BY DEF Swap!PageIn
<1>3. /\ pte \in [Three -> Two \cup {NULL, "swapped"}] /\ tlb \in [Three -> Two \cup {NULL}]
      /\ content \in [Two -> Values] /\ faulting \in Three /\ free \subseteq Two
      /\ pra_vaddr \in [Two -> Three \cup {NULL}]
      /\ disk \in [Three -> Values] /\ pra_list \in Seq(Two) /\ IsInjective(pra_list)
      /\ ToSet(pra_list) = Two \ free /\ f \in Two
  BY <1>2 DEF SwapInv, Swap!TypeOK
<1>4. /\ pra_list' \in Seq(Two) /\ IsInjective(pra_list') /\ ToSet(pra_list') = Two \ free'
  <2>1. f \notin ToSet(pra_list)
    BY <1>3
  <2>2. /\ <<f>> \o pra_list \in Seq(Two) /\ IsInjective(<<f>> \o pra_list)
        /\ ToSet(<<f>> \o pra_list) = ToSet(pra_list) \cup {f}
    BY <1>3, <2>1, ConsSet
  <2>3. QED
    BY <1>1, <1>3, <2>2
<1>5. Swap!TypeOK'
  BY <1>1, <1>2, <1>3, <1>4 DEF SwapInv, Swap!TypeOK
<1>6. pte[faulting] \notin Two
  BY <1>2 DEF SwapInv
<1>7. \A g \in Two \ free' : pra_vaddr'[g] \in Three /\ pte'[pra_vaddr'[g]] = g
  <2>1. ASSUME NEW g \in Two \ free'
        PROVE  pra_vaddr'[g] \in Three /\ pte'[pra_vaddr'[g]] = g
    <3>1. CASE g = f
      BY <1>1, <1>3, <3>1
    <3>2. CASE g # f
      <4>1. g \in Two \ free /\ pra_vaddr'[g] = pra_vaddr[g]
        BY <1>1, <1>3, <2>1, <3>2
      <4>2. pra_vaddr[g] \in Three /\ pte[pra_vaddr[g]] = g
        BY <4>1 DEF SwapInv
      <4>3. pra_vaddr[g] # faulting
        BY <1>6, <4>1, <4>2
      <4>4. QED
        BY <1>1, <1>3, <4>1, <4>2, <4>3
    <3>3. QED
      BY <3>1, <3>2
  <2>2. QED
    BY <2>1
<1>8. \A b \in Three : pte'[b] \in Two => pte'[b] \notin free' /\ pra_vaddr'[pte'[b]] = b
  <2>1. ASSUME NEW b \in Three, pte'[b] \in Two
        PROVE  pte'[b] \notin free' /\ pra_vaddr'[pte'[b]] = b
    <3>1. CASE b = faulting
      BY <1>1, <1>3, <3>1
    <3>2. CASE b # faulting
      <4>1. pte'[b] = pte[b]
        BY <1>1, <1>3, <3>2
      <4>2. pte[b] \notin free /\ pra_vaddr[pte[b]] = b
        BY <2>1, <4>1 DEF SwapInv
      <4>3. QED
        BY <1>1, <1>3, <2>1, <4>1, <4>2
    <3>3. QED
      BY <3>1, <3>2
  <2>2. QED
    BY <2>1
<1>9. \A b \in Three : tlb'[b] # NULL => tlb'[b] = pte'[b]
  BY <1>1, <1>3 DEF SwapInv
<1>10. QED
  BY <1>2, <1>4, <1>5, <1>7, <1>8, <1>9 DEF SwapInv

\* Every step of swapping keeps SwapInv.
LEMMA SwapNext ==
  ASSUME SwapInv, [Swap!Next]_(Swap!vars)
  PROVE  SwapInv'
<1>1. CASE UNCHANGED Swap!vars
  BY <1>1 DEF SwapInv, Swap!vars, Swap!TypeOK, ToSet, IsInjective
<1>2. CASE Swap!Next
  BY <1>2, AccessKeeps, SwapOutKeeps, SwapOutFailsKeeps, PageInKeeps DEF Swap!Next
<1>3. QED
  BY <1>1, <1>2

\* What the invariant is for.
LEMMA SwapInvSound == SwapInv => Swap!SwapSound
<1> SUFFICES ASSUME SwapInv PROVE Swap!SwapSound
  OBVIOUS
<1>1. Swap!NeedsFrame => Swap!MaySwapOut
  BY VictimFound DEF Swap!NeedsFrame
<1>2. Swap!ListExact
  BY <1>1, SwapSequences DEF SwapInv, Swap!ListExact, Swap!Present
<1>3. Swap!TlbAgrees
  BY DEF SwapInv, Swap!TlbAgrees
<1>4. QED
  BY <1>2, <1>3 DEF Swap!SwapSound, SwapInv

\* The queue of pages is the list of frames backwards.
LEMMA QueueIs ==
  ASSUME NEW L \in Seq(Two), NEW V
  PROVE  /\ [i \in DOMAIN L |-> V[Swap!Reverse(L)[i]]]
               = [i \in 1 .. Len(L) |-> V[L[(Len(L) - i) + 1]]]
         /\ Len(L) \in Nat
<1>1. DOMAIN L = 1 .. Len(L) /\ Len(L) \in Nat
  OBVIOUS
<1>2. Swap!Reverse(L) = [i \in 1 .. Len(L) |-> L[(Len(L) - i) + 1]]
  BY SwapSequences
<1>3. QED
  BY <1>1, <1>2

\* The head of a queue leaves it, or goes to its end.
LEMMA QueueEnds ==
  ASSUME NEW n \in Nat, n >= 1, NEW S, NEW q \in [1 .. n -> S]
  PROVE  /\ Tail(q) = [i \in 1 .. n - 1 |-> q[i + 1]]
         /\ Head(q) = q[1]
         /\ Append(Tail(q), Head(q)) = [i \in 1 .. n |-> IF i < n THEN q[i + 1] ELSE q[1]]
<1>1. q \in Seq(S) /\ Len(q) = n
  OBVIOUS
<1>2. q # <<>>
  BY <1>1
<1>3. /\ Tail(q) \in Seq(S) /\ Len(Tail(q)) = n - 1 /\ Head(q) = q[1] /\ q[1] \in S
      /\ \A j \in 1 .. n - 1 : Tail(q)[j] = q[j + 1]
  BY <1>1, <1>2
<1>4. /\ Append(Tail(q), Head(q)) \in Seq(S) /\ Len(Append(Tail(q), Head(q))) = (n - 1) + 1
      /\ \A j \in 1 .. (n - 1) + 1 : Append(Tail(q), Head(q))[j]
                                        = IF j <= n - 1 THEN Tail(q)[j] ELSE Head(q)
  BY <1>3, AppendElements
<1>5. Tail(q) = [i \in 1 .. n - 1 |-> q[i + 1]]
  <2>1. Tail(q) = [i \in 1 .. n - 1 |-> Tail(q)[i]]
    BY <1>3, SequenceIs
  <2>2. QED
    BY <1>3, <2>1
<1>6. ASSUME NEW j \in 1 .. n
      PROVE  Append(Tail(q), Head(q))[j] = IF j < n THEN q[j + 1] ELSE q[1]
  <2>1. j \in 1 .. (n - 1) + 1 /\ (j <= n - 1 <=> j < n)
    OBVIOUS
  <2>2. Append(Tail(q), Head(q))[j] = IF j <= n - 1 THEN Tail(q)[j] ELSE Head(q)
    BY <1>4, <2>1
  <2>3. j < n => j \in 1 .. n - 1
    OBVIOUS
  <2>4. QED
    BY <1>3, <2>1, <2>2, <2>3
<1>7. Append(Tail(q), Head(q)) = [i \in 1 .. n |-> Append(Tail(q), Head(q))[i]]
  <2>1. n = Len(Append(Tail(q), Head(q)))
    BY <1>4
  <2>2. QED
    BY <1>4, <2>1, SequenceIs
<1>8. QED
  BY <1>3, <1>5, <1>6, <1>7

\* Every step is one a queue may make.
LEMMA QueueStep ==
  ASSUME SwapInv, [Swap!Next]_(Swap!vars)
  PROVE  Swap!QueueMoves
<1> DEFINE L == pra_list
           n == Len(L)
           q == [i \in 1 .. n |-> pra_vaddr[L[(n - i) + 1]]]
<1>1. /\ L \in Seq(Two) /\ n \in Nat /\ DOMAIN L = 1 .. n /\ IsInjective(L)
      /\ ToSet(L) = Two \ free /\ free \subseteq Two
      /\ pra_vaddr \in [Two -> Three \cup {NULL}]
      /\ pte \in [Three -> Two \cup {NULL, "swapped"}] /\ faulting \in Three \cup {NULL}
  BY DEF SwapInv, Swap!TypeOK
<1>2. Swap!Queue = q
  BY <1>1, QueueIs DEF Swap!Queue
<1>3. q \in [1 .. n -> Three \cup {NULL}]
  BY <1>1
<1>4. /\ L' \in Seq(Two) /\ Len(L') \in Nat
      /\ Swap!Queue' = [i \in 1 .. Len(L') |-> pra_vaddr'[L'[(Len(L') - i) + 1]]]
  <2>1. L' \in Seq(Two)
    BY SwapNext DEF SwapInv, Swap!TypeOK
  <2>2. QED
    BY <2>1, QueueIs DEF Swap!Queue
<1>5. CASE UNCHANGED <<pra_list, pra_vaddr>>
  BY <1>2, <1>4, <1>5 DEF Swap!QueueMoves
<1>6. CASE Swap!SwapOut
  <2>1. free = {} /\ pra_vaddr' = pra_vaddr
    BY <1>6 DEF Swap!SwapOut, Swap!NeedsFrame
  <2>2. /\ n >= 1 /\ pra_vaddr[L[n]] \in Three
        /\ pra_list' = RemoveAt(L, n) /\ pte' = [pte EXCEPT ![pra_vaddr[L[n]]] = "swapped"]
    BY <1>6, <2>1, VictimFound DEF Swap!SwapOut
  <2>3. n \in 1 .. n
    BY <1>1, <2>2
  <2>4. /\ Len(L') = n - 1
        /\ \A j \in 1 .. n - 1 : L'[j] = IF j < n THEN L[j] ELSE L[j + 1]
    BY <1>1, <2>2, <2>3, RemoveAtProperties
  <2>5. Tail(q) = [i \in 1 .. n - 1 |-> q[i + 1]] /\ Head(q) = q[1]
    <3> HIDE DEF q
    <3>1. QED
      BY <1>1, <1>3, <2>2, QueueEnds
  <2>6. ASSUME NEW i \in 1 .. n - 1
        PROVE  pra_vaddr'[L'[((n - 1) - i) + 1]] = q[i + 1]
    <3>1. ((n - 1) - i) + 1 \in 1 .. n - 1 /\ ((n - 1) - i) + 1 = (n - (i + 1)) + 1
          /\ i + 1 \in 1 .. n /\ ((n - 1) - i) + 1 < n
      BY <1>1
    <3>2. QED
      BY <2>1, <2>4, <3>1
  <2>7. Swap!Queue' = Tail(q)
    BY <1>4, <2>4, <2>5, <2>6
  <2>8. pte'[Head(q)] = "swapped"
    <3>1. q[1] = pra_vaddr[L[n]]
      BY <1>1, <2>2
    <3>2. QED
      BY <1>1, <2>2, <2>5, <3>1
  <2> HIDE DEF q
  <2>9. QED
    BY <1>2, <2>1, <2>7, <2>8 DEF Swap!QueueMoves
<1>7. CASE Swap!SwapOutFails
  <2>1. free = {} /\ pra_vaddr' = pra_vaddr
    BY <1>7 DEF Swap!SwapOutFails, Swap!NeedsFrame
  <2>2. /\ n >= 1 /\ pra_list' = <<L[n]>> \o RemoveAt(L, n)
    BY <1>7, <2>1, VictimFound DEF Swap!SwapOutFails, Swap!_fifo_map_swappable
  <2>3. n \in 1 .. n /\ L[n] \in Two
    BY <1>1, <2>2
  <2>4. /\ RemoveAt(L, n) \in Seq(Two) /\ Len(RemoveAt(L, n)) = n - 1
        /\ \A j \in 1 .. n - 1 : RemoveAt(L, n)[j] = IF j < n THEN L[j] ELSE L[j + 1]
    BY <1>1, <2>3, RemoveAtProperties
  <2>5. /\ Len(L') = (n - 1) + 1
        /\ \A j \in 1 .. (n - 1) + 1 : L'[j] = IF j = 1 THEN L[n] ELSE RemoveAt(L, n)[j - 1]
    <3> DEFINE rest == RemoveAt(L, n)
    <3>1. rest \in Seq(Two) /\ Len(rest) = n - 1 /\ L[n] \in Two /\ L' = <<L[n]>> \o rest
      BY <2>2, <2>3, <2>4
    <3> HIDE DEF rest
    <3>2. /\ Len(<<L[n]>> \o rest) = Len(rest) + 1
          /\ \A j \in 1 .. Len(rest) + 1 :
                (<<L[n]>> \o rest)[j] = IF j = 1 THEN L[n] ELSE rest[j - 1]
      BY <3>1, ConsProperties
    <3>3. QED
      BY <3>1, <3>2 DEF rest
  <2>6. /\ Len(L') = n
        /\ \A j \in 1 .. n : L'[j] = IF j = 1 THEN L[n] ELSE L[j - 1]
    BY <1>1, <2>4, <2>5
  <2>7. Append(Tail(q), Head(q)) = [i \in 1 .. n |-> IF i < n THEN q[i + 1] ELSE q[1]]
    <3> HIDE DEF q
    <3>1. QED
      BY <1>1, <1>3, <2>2, QueueEnds
  <2>8. ASSUME NEW i \in 1 .. n
        PROVE  pra_vaddr'[L'[(n - i) + 1]] = IF i < n THEN q[i + 1] ELSE q[1]
    <3>1. CASE i = n
      <4>1. (n - i) + 1 = 1 /\ 1 \in 1 .. n /\ ~ i < n /\ (n - 1) + 1 = n
        BY <1>1, <3>1
      <4>2. QED
        BY <2>1, <2>6, <4>1
    <3>2. CASE i < n
      <4> DEFINE j == (n - i) + 1
      <4>1. j \in 1 .. n /\ j # 1 /\ i + 1 \in 1 .. n /\ j - 1 = (n - (i + 1)) + 1
        BY <1>1, <3>2
      <4>2. q[i + 1] = pra_vaddr[L[j - 1]]
        BY <4>1
      <4> HIDE DEF j, q
      <4>3. L'[j] = L[j - 1]
        BY <2>6, <4>1
      <4>4. pra_vaddr'[L'[j]] = q[i + 1]
        BY <2>1, <4>2, <4>3
      <4>5. (IF i < n THEN q[i + 1] ELSE q[1]) = q[i + 1]
        BY <3>2
      <4>6. QED
        BY <4>4, <4>5 DEF j
    <3>3. i = n \/ i < n
      <4>1. n \in Nat
        BY <1>1
      <4> HIDE DEF n
      <4>2. QED
        BY <4>1
    <3> HIDE DEF q, n, L
    <3>4. QED
      BY <3>1, <3>2, <3>3
  <2>9. Swap!Queue' = Append(Tail(q), Head(q))
    BY <1>4, <2>6, <2>7, <2>8
  <2> HIDE DEF q
  <2>10. QED
    BY <1>2, <2>1, <2>9 DEF Swap!QueueMoves
<1>8. CASE Swap!PageIn
  <2>1. PICK f \in free : pra_list' = <<f>> \o L /\ pra_vaddr' = [pra_vaddr EXCEPT ![f] = faulting]
    BY <1>8 DEF Swap!PageIn, Swap!_fifo_map_swappable
  <2>2. faulting # NULL /\ f \in Two /\ \A j \in 1 .. n : L[j] \in Two /\ L[j] # f
    <3>1. \A j \in 1 .. n : L[j] \in ToSet(L)
      BY <1>1 DEF ToSet
    <3>2. QED
      BY <1>1, <1>8, <2>1, <3>1 DEF Swap!PageIn
  <2>3. /\ Len(L') = n + 1
        /\ \A j \in 1 .. n + 1 : L'[j] = IF j = 1 THEN f ELSE L[j - 1]
    <3>1. /\ Len(<<f>> \o L) = Len(L) + 1
          /\ \A j \in 1 .. Len(L) + 1 : (<<f>> \o L)[j] = IF j = 1 THEN f ELSE L[j - 1]
      BY <1>1, <2>2, ConsProperties
    <3>2. QED
      BY <2>1, <3>1
  <2>4. Append(q, faulting) = [i \in 1 .. n + 1 |-> IF i <= n THEN q[i] ELSE faulting]
    <3>1. q \in Seq(Three \cup {NULL}) /\ Len(q) = n /\ n \in Nat
      BY <1>1, <1>3
    <3>2. faulting \in Three \cup {NULL}
      BY <1>1
    <3> HIDE DEF q, n
    <3>3. /\ Append(q, faulting) \in Seq(Three \cup {NULL})
          /\ Len(Append(q, faulting)) = n + 1
          /\ \A j \in 1 .. n + 1 : Append(q, faulting)[j] = IF j <= n THEN q[j] ELSE faulting
      BY <3>1, <3>2, AppendElements
    <3>4. Append(q, faulting) = [i \in 1 .. n + 1 |-> Append(q, faulting)[i]]
      BY <3>1, <3>3, SequenceIs
    <3>5. QED
      BY <3>3, <3>4
  <2>5. ASSUME NEW i \in 1 .. n + 1
        PROVE  pra_vaddr'[L'[((n + 1) - i) + 1]] = IF i <= n THEN q[i] ELSE faulting
    <3>1. CASE i = n + 1
      <4>1. ((n + 1) - i) + 1 = 1 /\ 1 \in 1 .. n + 1 /\ ~ i <= n
        BY <1>1, <3>1
      <4>2. pra_vaddr'[f] = faulting
        BY <1>1, <2>1, <2>2
      <4>3. QED
        BY <2>3, <4>1, <4>2
    <3>2. CASE i <= n
      <4>1. ((n + 1) - i) + 1 \in 1 .. n + 1 /\ ((n + 1) - i) + 1 # 1 /\ i \in 1 .. n
            /\ (((n + 1) - i) + 1) - 1 = (n - i) + 1 /\ (n - i) + 1 \in 1 .. n
        BY <1>1, <3>2
      <4>2. L'[((n + 1) - i) + 1] = L[(n - i) + 1]
        BY <2>3, <4>1
      <4>3. pra_vaddr'[L[(n - i) + 1]] = pra_vaddr[L[(n - i) + 1]]
        BY <1>1, <2>1, <2>2, <4>1
      <4>4. QED
        BY <3>2, <4>1, <4>2, <4>3
    <3>3. QED
      BY <1>1, <3>1, <3>2
  <2>6. Swap!Queue' = Append(q, faulting)
    BY <1>4, <2>3, <2>4, <2>5
  <2> HIDE DEF q
  <2>7. QED
    BY <1>2, <2>2, <2>6 DEF Swap!QueueMoves
<1>9. QED
  <2>1. CASE UNCHANGED Swap!vars
    BY <1>5, <2>1 DEF Swap!vars
  <2>2. CASE Swap!Next
    BY <1>5, <1>6, <1>7, <1>8, <2>2, AccessKeeps DEF Swap!Next
  <2>3. QED
    BY <2>1, <2>2

\* Where a page is found: the TLB agrees with the page table.
LEMMA TranslationIs ==
  ASSUME SwapInv, NEW a \in Three
  PROVE  /\ pte[a] \in Two => Swap!Translation(a) = pte[a] /\ Swap!Translation(a) # NULL
         /\ pte[a] \notin Two => Swap!Translation(a) = NULL
         /\ pte[a] \in Two => Swap!Visible(a) = content[pte[a]]
         /\ pte[a] = "swapped" => Swap!Visible(a) = disk[a]
         /\ pte[a] = NULL => Swap!Visible(a) = NULL
         /\ pte[a] \in Two \/ pte[a] = "swapped" \/ pte[a] = NULL
<1>1. /\ pte \in [Three -> Two \cup {NULL, "swapped"}] /\ tlb \in [Three -> Two \cup {NULL}]
      /\ tlb[a] # NULL => tlb[a] = pte[a]
  BY DEF SwapInv, Swap!TypeOK
<1>2. /\ pte[a] \in Two => Swap!Translation(a) = pte[a] /\ Swap!Translation(a) # NULL
      /\ pte[a] \notin Two => Swap!Translation(a) = NULL
  BY <1>1, SwapConstants DEF Swap!Translation, Swap!Present
<1>3. QED
  BY <1>1, <1>2, SwapConstants DEF Swap!Visible, Swap!Slot

\* What the program sees in a page is in its frame or on the disk, and so it
\* is in the next state.
VisibleThere ==
    \A a \in Three : /\ pte[a] \in Two => Swap!Visible(a) = content[pte[a]]
                     /\ pte[a] = "swapped" => Swap!Visible(a) = disk[a]
                     /\ pte[a] = NULL => Swap!Visible(a) = NULL

\* In the next state too.
LEMMA TranslationThen == SwapInv' => VisibleThere'
<1>1. SwapInv => VisibleThere
  BY TranslationIs DEF VisibleThere
<1>2. QED
  BY <1>1, PTL

\* What a page holds changes by stores to it alone.
LEMMA PagesKept ==
  ASSUME SwapInv, [Swap!Next]_(Swap!vars)
  PROVE  Swap!OnlyStoresChangePages
<1>1. SUFFICES ASSUME NEW a \in Three, Swap!Visible(a) # NULL,
                      Swap!Visible(a)' # Swap!Visible(a)
               PROVE  \E v \in Values : Swap!Store(a, v)
  BY DEF Swap!OnlyStoresChangePages
<1>2. /\ pte \in [Three -> Two \cup {NULL, "swapped"}] /\ tlb \in [Three -> Two \cup {NULL}]
      /\ content \in [Two -> Values] /\ disk \in [Three -> Values] /\ free \subseteq Two
      /\ faulting \in Three \cup {NULL}
      /\ \A b \in Three : pte[b] \in Two => pte[b] \notin free /\ pra_vaddr[pte[b]] = b
  BY DEF SwapInv, Swap!TypeOK
<1>3. /\ pte'[a] \in Two => Swap!Visible(a)' = content'[pte'[a]]
      /\ pte'[a] = "swapped" => Swap!Visible(a)' = disk'[a]
      /\ pte'[a] = NULL => Swap!Visible(a)' = NULL
  BY SwapNext, TranslationThen DEF VisibleThere
<1>4. /\ pte[a] \in Two \/ pte[a] = "swapped"
      /\ pte[a] \in Two => Swap!Visible(a) = content[pte[a]]
      /\ pte[a] = "swapped" => Swap!Visible(a) = disk[a]
  BY <1>1, TranslationIs
\* A step that touches neither the page table, the disk nor the page's frame.
<1>5. ~ (/\ pte' = pte /\ disk' = disk
         /\ pte[a] \in Two => content'[pte[a]] = content[pte[a]])
  BY <1>1, <1>3, <1>4
<1>6. CASE UNCHANGED Swap!vars
  BY <1>5, <1>6 DEF Swap!vars
<1>7. CASE \E b \in Three : Swap!Evict(b) \/ Swap!Fault(b)
  BY <1>5, <1>7 DEF Swap!Evict, Swap!Fault
<1>8. CASE Swap!SwapOutFails
  BY <1>5, <1>8 DEF Swap!SwapOutFails
<1>9. ASSUME NEW b \in Three, NEW v \in Values, Swap!Store(b, v)
      PROVE  \E w \in Values : Swap!Store(a, w)
  <2>1. CASE b = a
    BY <1>9, <2>1
  <2>2. CASE b # a
    <3>1. /\ Swap!Translation(b) = pte[b] /\ pte[b] \in Two
          /\ content' = [content EXCEPT ![pte[b]] = v] /\ pte' = pte /\ disk' = disk
      BY <1>9, TranslationIs DEF Swap!Store
    <3>2. pte[a] \in Two => pte[a] # pte[b]
      BY <1>2, <2>2, <3>1
    <3>3. QED
      BY <1>2, <1>5, <3>1, <3>2
  <2>3. QED
    BY <2>1, <2>2
<1>10. CASE Swap!SwapOut
  <2> DEFINE f == Swap!Victim(pra_list)
             b == pra_vaddr[f]
  <2>1. free = {}
    BY <1>10 DEF Swap!SwapOut, Swap!NeedsFrame
  <2>2. f \in Two /\ b \in Three /\ pte[b] = f
    BY <2>1, VictimFound
  <2>3. /\ disk' = [disk EXCEPT ![b] = content[f]] /\ pte' = [pte EXCEPT ![b] = "swapped"]
        /\ content' = content
    BY <1>10 DEF Swap!SwapOut, Swap!Slot
  <2> HIDE DEF f, b
  <2>4. CASE a = b
    BY <1>1, <1>2, <1>3, <1>4, <2>2, <2>3, <2>4
  <2>5. CASE a # b
    BY <1>1, <1>2, <1>3, <1>4, <2>3, <2>5
  <2>6. QED
    BY <2>4, <2>5
<1>11. CASE Swap!PageIn
  <2>1. PICK f \in free, v \in Values :
          /\ Swap!Arrives(faulting, f, v) /\ content' = [content EXCEPT ![f] = v]
          /\ pte' = [pte EXCEPT ![faulting] = f]
    BY <1>11 DEF Swap!PageIn
  <2>2. faulting \in Three /\ disk' = disk /\ f \in Two
    BY <1>2, <1>11 DEF Swap!PageIn
  <2>3. CASE a = faulting
    <3>1. pte[a] \notin Two
      BY <1>2, <2>2, <2>3, SwapConstants DEF SwapInv
    <3>2. pte[a] = "swapped"
      BY <1>4, <3>1
    <3>3. v = disk[a]
      BY <2>1, <2>3, <3>2, SwapConstants DEF Swap!Arrives, Swap!Slot
    <3>4. pte'[a] = f /\ content'[f] = v
      BY <1>2, <2>1, <2>2, <2>3
    <3>5. QED
      BY <1>1, <1>3, <1>4, <2>2, <3>2, <3>3, <3>4
  <2>4. CASE a # faulting
    <3>1. pte'[a] = pte[a]
      BY <1>2, <2>1, <2>2, <2>4
    <3>2. pte[a] \in Two => content'[pte[a]] = content[pte[a]]
      BY <1>2, <2>1, <2>2
    <3>3. QED
      BY <1>1, <1>3, <1>4, <2>2, <3>1, <3>2
  <2>5. QED
    BY <2>3, <2>4
<1>12. QED
  <2>1. CASE Swap!Next
    BY <1>7, <1>8, <1>9, <1>10, <1>11, <2>1 DEF Swap!Next
  <2>2. QED
    BY <1>6, <2>1

\* SwapInv, for the behaviours of MCMemory in which Swap runs.
SwapPart == part = "swap" => SwapInv

\* SwapInv is an invariant.
LEMMA SwapInvariance == Spec => []SwapPart
<1>1. Init => SwapPart
  BY SwapInit DEF Init, SwapPart
<1>2. SwapPart /\ [Next]_vars => SwapPart'
  <2>1. SUFFICES ASSUME SwapPart, [Next]_vars, part' = "swap" PROVE SwapInv'
    BY DEF SwapPart
  <2>2. part = "swap" /\ [Swap!Next]_(Swap!vars)
    BY <2>1 DEF Next, PmmStep, VmmStep, SwapStep, vars, swapvars,
                Swap!vars
  <2>3. QED
    BY <2>1, <2>2, SwapNext DEF SwapPart
<1>3. QED
  BY <1>1, <1>2, PTL DEF Spec

\* Whatever pages, frames and disk there are, a page that was swapped out comes
\* back as it was: the list, the page table, pra_vaddr and the TLB agree in every
\* reachable state, victims leave in the order they came in, and no step but a
\* store to a page changes what the program sees in it.
THEOREM PagesSurviveSwapping == Spec => SwapIsTransparent
<1>1. SwapPart => (part = "swap" => Swap!SwapSound)
  BY SwapInvSound DEF SwapPart
<1>2. SwapPart /\ [Next]_vars => [part = "swap" => Swap!QueueMoves]_vars
  <2>1. SUFFICES ASSUME SwapPart, Next, part = "swap" PROVE Swap!QueueMoves
    OBVIOUS
  <2>2. SwapInv /\ Swap!Next
    BY <2>1 DEF SwapPart, Next, PmmStep, VmmStep, SwapStep
  <2>3. QED
    BY <2>2, QueueStep
<1>3. SwapPart /\ [Next]_vars => [part = "swap" => Swap!OnlyStoresChangePages]_vars
  <2>1. SUFFICES ASSUME SwapPart, Next, part = "swap" PROVE Swap!OnlyStoresChangePages
    OBVIOUS
  <2>2. SwapInv /\ Swap!Next
    BY <2>1 DEF SwapPart, Next, PmmStep, VmmStep, SwapStep
  <2>3. QED
    BY <2>2, PagesKept
<1>4. QED
  BY <1>1, <1>2, <1>3, SwapInvariance, PTL DEF Spec, SwapIsTransparent

-----------------------------------------------------------------------------
(* Areas of a process (Vmm).                                               *)

\* Areas in the order of their addresses, whole pages of user space each.
AreasSorted(list) ==
    /\ \A i, j \in DOMAIN list : i < j => list[i].vm_end <= list[j].vm_start
    /\ \A i \in DOMAIN list : /\ Vmm!USER_ACCESS(list[i].vm_start, list[i].vm_end)
                              /\ list[i].vm_start % PGSIZE = 0
                              /\ list[i].vm_end % PGSIZE = 0

\* The mm_structs that the kernel builds.
Mm == {m \in [mmap_list : Seq(Vmm!Area), mmap_cache : Vmm!Area \cup {NULL},
              map_count : Nat, loading : BOOLEAN] :
         /\ m.map_count = Len(m.mmap_list)
         /\ AreasSorted(m.mmap_list)
         /\ m.mmap_cache \in ToSet(m.mmap_list) \cup {NULL}}

\* The inductive invariant of vmm.c.
VmmInv == /\ mms \in [Two -> Mm \cup {NULL}]
          /\ halted \in BOOLEAN

\* What the constants of Vmm are.
LEMMA VmmConstants ==
  /\ PGSIZE \in Nat /\ PGSIZE > 0 /\ AddrSpace \in Nat /\ AddrSpace > 0
  /\ USERBASE \in Nat /\ USERBASE > 0 /\ USERTOP \in Nat /\ USERTOP < AddrSpace
  /\ USTACKSIZE \in Nat /\ USTACKSIZE > 0 /\ USERBASE + USTACKSIZE < USERTOP
  /\ AddrSpace % PGSIZE = 0
  /\ Lens \subseteq Vmm!Addr
  /\ SegmentFlags \subseteq SUBSET Vmm!Flags
  /\ NULL \notin Vmm!Area
BY MemoryAssumption DEF Vmm!VmmAssumption

\* ROUNDDOWN gives the beginning of a page, within the address space.
LEMMA RoundsDown ==
  ASSUME NEW a \in Vmm!Addr
  PROVE  Vmm!ROUNDDOWN(a) \in Vmm!Addr /\ Vmm!ROUNDDOWN(a) % PGSIZE = 0
<1>1. PGSIZE \in Nat /\ PGSIZE > 0 /\ a \in Nat
  BY VmmConstants DEF Vmm!Addr
<1>2. a % PGSIZE \in 0 .. PGSIZE - 1 /\ a % PGSIZE <= a
  BY <1>1
<1>3. (a - (a % PGSIZE)) % PGSIZE = 0
  BY <1>1
<1>4. QED
  BY <1>1, <1>2, <1>3, VmmConstants DEF Vmm!Addr, Vmm!ROUNDDOWN

\* Additions stay within the address space.
LEMMA PlusWraps ==
  ASSUME NEW a \in Nat, NEW b \in Nat
  PROVE  Vmm!Plus(a, b) \in Vmm!Addr
<1>1. AddrSpace \in Nat /\ AddrSpace > 0 /\ a + b \in Nat
  BY VmmConstants
<1>2. QED
  BY <1>1 DEF Vmm!Plus, Vmm!Addr

\* The operators on sequences that Vmm uses are those of SequencesExt.
LEMMA VmmSequences ==
  /\ \A s : Vmm!ToSet(s) = ToSet(s) /\ Vmm!Reverse(s) = Reverse(s)
  /\ \A s, i, e : Vmm!InsertAt(s, i, e) = InsertAt(s, i, e)
BY DEF Vmm!ToSet, ToSet, Vmm!InsertAt, InsertAt, Vmm!Reverse, Reverse

\* The fields of an area.
LEMMA AreaFields ==
  ASSUME NEW v \in Vmm!Area
  PROVE  /\ v.vm_start \in Vmm!Addr /\ v.vm_end \in Vmm!Addr
         /\ v.vm_start \in Nat /\ v.vm_end \in Nat
         /\ v.vm_flags \subseteq Vmm!Flags
         /\ v # NULL
BY VmmConstants DEF Vmm!Area, Vmm!Addr

\* What it means to be an mm_struct, part by part.
LEMMA MmParts ==
  ASSUME NEW m \in Mm
  PROVE  /\ m.mmap_list \in Seq(Vmm!Area)
         /\ m.mmap_cache \in ToSet(m.mmap_list) \cup {NULL}
         /\ m.map_count = Len(m.mmap_list)
         /\ m.loading \in BOOLEAN
         /\ AreasSorted(m.mmap_list)
         /\ ToSet(m.mmap_list) \subseteq Vmm!Area
         /\ m = [mmap_list |-> m.mmap_list, mmap_cache |-> m.mmap_cache,
                 map_count |-> m.map_count, loading |-> m.loading]
<1>1. m.mmap_list \in Seq(Vmm!Area)
  BY DEF Mm
<1>2. ToSet(m.mmap_list) \subseteq Vmm!Area
  BY <1>1 DEF ToSet
<1>3. QED
  BY <1>1, <1>2 DEF Mm

\* The parts make an mm_struct.
LEMMA MmOfParts ==
  ASSUME NEW list \in Seq(Vmm!Area), AreasSorted(list),
         NEW cache \in ToSet(list) \cup {NULL}, NEW loading \in BOOLEAN
  PROVE  [mmap_list |-> list, mmap_cache |-> cache, map_count |-> Len(list),
          loading |-> loading] \in Mm
<1>1. ToSet(list) \subseteq Vmm!Area /\ Len(list) \in Nat
  BY DEF ToSet
<1>2. QED
  BY <1>1 DEF Mm

\* Remembering an area of the list keeps an mm_struct one.
LEMMA CachedKeeps ==
  ASSUME NEW m \in Mm, NEW vma \in ToSet(m.mmap_list) \cup {NULL}
  PROVE  /\ Vmm!Cached(m, vma) \in Mm
         /\ Vmm!Cached(m, vma).mmap_list = m.mmap_list
         /\ Vmm!Cached(m, vma).map_count = m.map_count
         /\ Vmm!Cached(m, vma).loading = m.loading
<1>1. CASE vma = NULL
  BY <1>1 DEF Vmm!Cached
<1>2. CASE vma # NULL
  <2> DEFINE n == [mmap_list |-> m.mmap_list, mmap_cache |-> vma,
                   map_count |-> Len(m.mmap_list), loading |-> m.loading]
  <2>1. Vmm!Cached(m, vma) = n
    BY <1>2, MmParts DEF Vmm!Cached
  <2>2. n \in Mm
    BY MmParts, MmOfParts
  <2>3. QED
    BY <2>1, <2>2, MmParts
<1>3. QED
  BY <1>1, <1>2

\* No two areas of a sorted list cover the same address.
LEMMA CoversOnce ==
  ASSUME NEW list \in Seq(Vmm!Area), AreasSorted(list), NEW addr \in Vmm!Addr,
         NEW v \in ToSet(list), NEW w \in ToSet(list),
         Vmm!Covers(v, addr), Vmm!Covers(w, addr)
  PROVE  v = w
<1>1. PICK i \in DOMAIN list : v = list[i]
  BY DEF ToSet
<1>2. PICK j \in DOMAIN list : w = list[j]
  BY DEF ToSet
<1>3. /\ v.vm_start \in Int /\ v.vm_end \in Int /\ w.vm_start \in Int /\ w.vm_end \in Int
      /\ addr \in Int /\ i \in Int /\ j \in Int
  <2>1. v \in Vmm!Area /\ w \in Vmm!Area
    BY <1>1, <1>2
  <2>2. i \in Int /\ j \in Int
    OBVIOUS
  <2>3. QED
    BY <2>1, <2>2, AreaFields DEF Vmm!Addr
<1>4. ~ i < j /\ ~ j < i
  BY <1>1, <1>2, <1>3 DEF AreasSorted, Vmm!Covers
<1>5. i = j
  BY <1>3, <1>4
<1>6. QED
  BY <1>1, <1>2, <1>5

\* The first element of a sequence with some property, for a property that is
\* given as the set of positions that have it.
LEMMA FirstPosition ==
  ASSUME NEW n \in Nat, NEW I \in SUBSET (1 .. n)
  PROVE  LET i == IF I # {} THEN Min(I) ELSE 0
         IN  \/ i = 0 /\ I = {}
             \/ i \in I /\ \A j \in I : i <= j
<1>1. CASE I = {}
  BY <1>1
<1>2. CASE I # {}
  <2>1. I \in SUBSET Nat
    OBVIOUS
  <2>2. Min(I) \in I /\ \A j \in I : Min(I) <= j
    BY <1>2, <2>1, MinInSet
  <2>3. QED
    BY <1>2, <2>2
<1>3. QED
  BY <1>1, <1>2

\* find_vma finds the area that covers an address, in the cache or the list.
LEMMA FindsArea ==
  ASSUME NEW m \in Mm, NEW addr \in Vmm!Addr
  PROVE  \/ /\ Vmm!find_vma(m, addr) = NULL
            /\ \A w \in ToSet(m.mmap_list) : ~Vmm!Covers(w, addr)
         \/ /\ Vmm!find_vma(m, addr) \in ToSet(m.mmap_list)
            /\ Vmm!Covers(Vmm!find_vma(m, addr), addr)
<1> DEFINE list == m.mmap_list
           I == {i \in 1 .. Len(list) : Vmm!Covers(list[i], addr)}
           i == IF I # {} THEN Min(I) ELSE 0
<1>1. list \in Seq(Vmm!Area) /\ m.mmap_cache \in ToSet(list) \cup {NULL}
  BY MmParts
<1>2. Len(list) \in Nat /\ DOMAIN list = 1 .. Len(list)
  BY <1>1
<1>3. \/ i = 0 /\ I = {}
      \/ i \in I
  <2>1. I \in SUBSET (1 .. Len(list))
    OBVIOUS
  <2> HIDE DEF I
  <2>2. QED
    BY <1>2, <2>1, FirstPosition
<1>4. CASE m.mmap_cache # NULL /\ Vmm!Covers(m.mmap_cache, addr)
  BY <1>1, <1>4 DEF Vmm!find_vma
<1>5. CASE ~(m.mmap_cache # NULL /\ Vmm!Covers(m.mmap_cache, addr))
  <2>1. Vmm!find_vma(m, addr) = IF i = 0 THEN NULL ELSE list[i]
    BY <1>5 DEF Vmm!find_vma, Vmm!SelectInSeq, Min, Vmm!Min
  <2>2. CASE i = 0 /\ I = {}
    BY <1>2, <2>1, <2>2 DEF ToSet
  <2>3. CASE i \in I
    <3>1. i # 0 /\ i \in DOMAIN list /\ Vmm!Covers(list[i], addr)
      BY <1>2, <2>3
    <3>2. list[i] \in ToSet(list)
      BY <3>1 DEF ToSet
    <3>3. QED
      BY <2>1, <3>1, <3>2
  <2>4. QED
    BY <1>3, <2>2, <2>3
<1>6. QED
  BY <1>4, <1>5

-----------------------------------------------------------------------------
(* insert_vma_struct.                                                      *)

\* insert_vma_struct walks past some areas, at most all.
LEMMA PrevInList ==
  ASSUME NEW list \in Seq(Vmm!Area), NEW vma
  PROVE  Vmm!Prev(list, vma) \in 0 .. Len(list)
<1> DEFINE I == {i \in 1 .. Len(list) : list[i].vm_start > vma.vm_start}
           i == IF I # {} THEN Min(I) ELSE 0
<1>1. Len(list) \in Nat
  OBVIOUS
<1>2. \/ i = 0 /\ I = {}
      \/ i \in I
  <2>1. I \in SUBSET (1 .. Len(list))
    OBVIOUS
  <2> HIDE DEF I
  <2>2. QED
    BY <1>1, <2>1, FirstPosition
<1>3. Vmm!Prev(list, vma) = IF i = 0 THEN Len(list) ELSE i - 1
  BY DEF Vmm!Prev, Vmm!SelectInSeq, Min, Vmm!Min
<1>4. i \in 0 .. Len(list)
  BY <1>1, <1>2
<1>5. QED
  <2> HIDE DEF i
  <2>1. QED
    BY <1>1, <1>3, <1>4

\* The elements of a list with v inserted at k.
ElementsWith(l, k, v) ==
    \A j \in 1 .. Len(l) + 1 :
        InsertAt(l, k, v)[j] = IF j < k THEN l[j] ELSE IF j = k THEN v ELSE l[j - 1]

\* InsertAt inserts.
LEMMA InsertedElements ==
  ASSUME NEW S, NEW l \in Seq(S), NEW k \in 1 .. Len(l) + 1, NEW v \in S
  PROVE  ElementsWith(l, k, v)
BY InsertAtProperties DEF ElementsWith

\* The list with an area inserted.
LEMMA AreaInsertedAt ==
  ASSUME NEW list \in Seq(Vmm!Area), NEW k \in 1 .. Len(list) + 1, NEW vma \in Vmm!Area
  PROVE  /\ InsertAt(list, k, vma) \in Seq(Vmm!Area)
         /\ Len(InsertAt(list, k, vma)) = Len(list) + 1
         /\ ElementsWith(list, k, vma)
<1>1. InsertAt(list, k, vma) \in Seq(Vmm!Area)
  BY InsertAtProperties
<1>2. Len(InsertAt(list, k, vma)) = Len(list) + 1
  BY InsertAtProperties
<1>3. ElementsWith(list, k, vma)
  BY InsertedElements
<1>4. QED
  BY <1>1, <1>2, <1>3

\* The list with an area inserted behind the first n.
LEMMA AreaInserted ==
  ASSUME NEW list \in Seq(Vmm!Area), NEW n \in 0 .. Len(list), NEW vma \in Vmm!Area
  PROVE  /\ InsertAt(list, n + 1, vma) \in Seq(Vmm!Area)
         /\ Len(InsertAt(list, n + 1, vma)) = Len(list) + 1
         /\ \A j \in 1 .. Len(list) + 1 :
               InsertAt(list, n + 1, vma)[j] =
                 IF j < n + 1 THEN list[j] ELSE IF j = n + 1 THEN vma ELSE list[j - 1]
<1> DEFINE k == n + 1
<1>1. k \in 1 .. Len(list) + 1
  OBVIOUS
<1> HIDE DEF k
<1>2. InsertAt(list, k, vma) \in Seq(Vmm!Area)
  BY <1>1, AreaInsertedAt
<1>3. Len(InsertAt(list, k, vma)) = Len(list) + 1
  BY <1>1, AreaInsertedAt
<1>4. ElementsWith(list, k, vma)
  BY <1>1, AreaInsertedAt
<1>5. QED
  BY <1>2, <1>3, <1>4 DEF ElementsWith, k

\* If its assertions hold, insert_vma_struct keeps the list in order.
LEMMA InsertKeeps ==
  ASSUME NEW m \in Mm, NEW vma \in Vmm!Area,
         Vmm!USER_ACCESS(vma.vm_start, vma.vm_end),
         vma.vm_start % PGSIZE = 0, vma.vm_end % PGSIZE = 0,
         Vmm!MayInsert(m.mmap_list, vma)
  PROVE  /\ Vmm!insert_vma_struct(m, vma) \in Mm
         /\ Vmm!insert_vma_struct(m, vma) =
              [mmap_list |-> InsertAt(m.mmap_list, Vmm!Prev(m.mmap_list, vma) + 1, vma),
               mmap_cache |-> m.mmap_cache, map_count |-> m.map_count + 1,
               loading |-> m.loading]
<1> DEFINE list == m.mmap_list
           len  == Len(list)
           n    == Vmm!Prev(list, vma)
           new  == InsertAt(list, n + 1, vma)
<1>1. /\ list \in Seq(Vmm!Area) /\ AreasSorted(list) /\ m.map_count = len
      /\ m.mmap_cache \in ToSet(list) \cup {NULL} /\ m.loading \in BOOLEAN
  BY MmParts
<1>2. len \in Nat /\ DOMAIN list = 1 .. len /\ n \in 0 .. len
  BY <1>1, PrevInList
<1>3. n \in Nat /\ n + 1 \in 1 .. len + 1
  BY <1>2
<1>4. /\ new \in Seq(Vmm!Area) /\ Len(new) = len + 1
      /\ \A j \in 1 .. len + 1 :
            new[j] = IF j < n + 1 THEN list[j] ELSE IF j = n + 1 THEN vma ELSE list[j - 1]
  <2> HIDE DEF n, list
  <2>1. new \in Seq(Vmm!Area)
    BY <1>1, <1>2, AreaInserted
  <2>2. Len(new) = len + 1
    BY <1>1, <1>2, AreaInserted
  <2>3. \A j \in 1 .. len + 1 :
          new[j] = IF j < n + 1 THEN list[j] ELSE IF j = n + 1 THEN vma ELSE list[j - 1]
    BY <1>1, <1>2, AreaInserted
  <2>4. QED
    BY <2>1, <2>2, <2>3
<1>5. /\ vma.vm_start < vma.vm_end
      /\ n > 0 => list[n].vm_end <= vma.vm_start
      /\ n < len => vma.vm_end <= list[n + 1].vm_start
  BY DEF Vmm!MayInsert, Vmm!InOrder
<1>6. \A i \in 1 .. len : /\ list[i].vm_start \in Nat /\ list[i].vm_end \in Nat
                          /\ list[i].vm_start < list[i].vm_end
  <2>1. \A i \in 1 .. len : list[i] \in Vmm!Area
    BY <1>1
  <2>2. \A i \in 1 .. len : list[i].vm_start < list[i].vm_end
    BY <1>1, <1>2 DEF AreasSorted, Vmm!USER_ACCESS
  <2>3. QED
    BY <2>1, <2>2, AreaFields
<1>7. vma.vm_start \in Nat /\ vma.vm_end \in Nat
  BY AreaFields
<1>8. \A i \in 1 .. len, j \in 1 .. len : i < j => list[i].vm_end <= list[j].vm_start
  BY <1>1, <1>2 DEF AreasSorted
<1>9. \A i \in 1 .. len : i <= n => list[i].vm_end <= vma.vm_start
  <2> HIDE DEF n, list, len
  <2>1. QED
    BY <1>2, <1>3, <1>5, <1>6, <1>7, <1>8
<1>10. \A j \in 1 .. len : n < j => vma.vm_end <= list[j].vm_start
  <2> HIDE DEF n, list, len
  <2>1. QED
    BY <1>2, <1>3, <1>5, <1>6, <1>7, <1>8
<1>11. AreasSorted(new)
  <2>1. DOMAIN new = 1 .. len + 1
    BY <1>4
  <2> HIDE DEF n, list, len, new
  <2>2. ASSUME NEW i \in DOMAIN new, NEW j \in DOMAIN new, i < j
        PROVE  new[i].vm_end <= new[j].vm_start
    <3>1. i \in 1 .. len + 1 /\ j \in 1 .. len + 1
      BY <2>1
    <3>2. CASE j < n + 1
      <4>1. i \in 1 .. len /\ j \in 1 .. len /\ new[i] = list[i] /\ new[j] = list[j]
        BY <1>2, <1>3, <1>4, <2>2, <3>1, <3>2
      <4>2. QED
        BY <1>8, <2>2, <4>1
    <3>3. CASE j = n + 1
      <4>1. i \in 1 .. len /\ i <= n /\ new[i] = list[i] /\ new[j] = vma
        BY <1>2, <1>3, <1>4, <2>2, <3>1, <3>3
      <4>2. QED
        BY <1>9, <4>1
    <3>4. CASE j > n + 1
      <4>1. j - 1 \in 1 .. len /\ n < j - 1 /\ new[j] = list[j - 1]
        BY <1>2, <1>3, <1>4, <2>2, <3>1, <3>4
      <4>2. CASE i < n + 1
        <5>1. i \in 1 .. len /\ i < j - 1 /\ new[i] = list[i]
          BY <1>2, <1>3, <1>4, <3>1, <3>4, <4>2
        <5>2. QED
          BY <1>8, <4>1, <5>1
      <4>3. CASE i = n + 1
        <5>1. new[i] = vma
          BY <1>2, <1>3, <1>4, <3>1, <4>3
        <5>2. QED
          BY <1>10, <4>1, <5>1
      <4>4. CASE i > n + 1
        <5>1. i - 1 \in 1 .. len /\ i - 1 < j - 1 /\ new[i] = list[i - 1]
          BY <1>2, <1>3, <1>4, <2>2, <3>1, <4>4
        <5>2. QED
          BY <1>8, <4>1, <5>1
      <4>5. QED
        BY <1>3, <3>1, <4>2, <4>3, <4>4
    <3>5. QED
      BY <1>3, <3>1, <3>2, <3>3, <3>4
  <2>3. ASSUME NEW i \in DOMAIN new
        PROVE  /\ Vmm!USER_ACCESS(new[i].vm_start, new[i].vm_end)
               /\ new[i].vm_start % PGSIZE = 0 /\ new[i].vm_end % PGSIZE = 0
    <3>1. i \in 1 .. len + 1
      BY <2>1
    <3>2. new[i] = vma \/ \E k \in 1 .. len : new[i] = list[k]
      <4>1. CASE i < n + 1
        BY <1>2, <1>3, <1>4, <3>1, <4>1
      <4>2. CASE i = n + 1
        BY <1>3, <1>4, <3>1, <4>2
      <4>3. CASE i > n + 1
        <5>1. i - 1 \in 1 .. len /\ new[i] = list[i - 1]
          BY <1>2, <1>3, <1>4, <3>1, <4>3
        <5>2. QED
          BY <5>1
      <4>4. QED
        BY <1>3, <3>1, <4>1, <4>2, <4>3
    <3>3. QED
      BY <1>1, <1>2, <3>2 DEF AreasSorted
  <2>4. QED
    BY <2>2, <2>3 DEF AreasSorted
<1>12. ToSet(list) \subseteq ToSet(new)
  <2> HIDE DEF n, list, len, new
  <2>1. ASSUME NEW i \in 1 .. len
        PROVE  list[i] \in ToSet(new)
    <3>1. CASE i < n + 1
      <4>1. i \in DOMAIN new /\ new[i] = list[i]
        BY <1>2, <1>3, <1>4, <3>1
      <4>2. QED
        BY <4>1 DEF ToSet
    <3>2. CASE ~(i < n + 1)
      <4>1. i + 1 \in DOMAIN new /\ new[i + 1] = list[i]
        BY <1>2, <1>3, <1>4, <3>2
      <4>2. QED
        BY <4>1 DEF ToSet
    <3>3. QED
      BY <3>1, <3>2
  <2>2. QED
    BY <1>2, <2>1 DEF ToSet
<1>13. Vmm!insert_vma_struct(m, vma) =
         [mmap_list |-> new, mmap_cache |-> m.mmap_cache, map_count |-> m.map_count + 1,
          loading |-> m.loading]
  <2>1. Vmm!InsertAt(list, n + 1, vma) = new
    BY VmmSequences
  <2>2. Vmm!insert_vma_struct(m, vma) =
          [m EXCEPT !.mmap_list = new, !.map_count = m.map_count + 1]
    BY <2>1 DEF Vmm!insert_vma_struct
  <2> HIDE DEF new
  <2>3. m = [mmap_list |-> m.mmap_list, mmap_cache |-> m.mmap_cache,
             map_count |-> m.map_count, loading |-> m.loading]
    BY MmParts
  <2>4. QED
    BY <2>2, <2>3
<1>14. [mmap_list |-> new, mmap_cache |-> m.mmap_cache, map_count |-> Len(new),
        loading |-> m.loading] \in Mm
  <2> HIDE DEF n, list, len, new
  <2>1. m.mmap_cache \in ToSet(new) \cup {NULL}
    BY <1>1, <1>12
  <2>2. QED
    BY <1>1, <1>4, <1>11, <2>1, MmOfParts
<1>15. m.map_count + 1 = Len(new)
  BY <1>1, <1>4
<1>16. QED
  BY <1>13, <1>14, <1>15

-----------------------------------------------------------------------------
(* user_mem_check.                                                         *)

\* The states of the loop of user_mem_check.
MemCheck == [ok : BOOLEAN, start : Vmm!Addr, mm : Mm]

\* Whether the areas of a list allow an access at one address.
Allowed(list, addr, write) ==
    \E found \in ToSet(list) : Vmm!Covers(found, addr) /\ Vmm!Permits(found, addr, write)

\* The loop of user_mem_check after i passes: what lies behind it may be
\* accessed, the areas ahead are behind position i of the list; or something
\* of the buffer may not be accessed.
MemCheckInv(i, s, list, addr, end, write) ==
    /\ s \in MemCheck
    /\ s.mm.mmap_list = list
    /\ addr <= s.start
    /\ s.ok => \A a \in Vmm!Addr : addr <= a /\ a < s.start => Allowed(list, a, write)
    /\ s.ok /\ s.start < end =>
          /\ i <= Len(list)
          /\ \A j \in DOMAIN list : s.start < list[j].vm_end => i < j
    /\ ~s.ok => \E a \in Vmm!Addr : addr <= a /\ a < end /\ ~Allowed(list, a, write)

\* One pass leaves an mm_struct, with the same areas.
LEMMA PassKeeps ==
  ASSUME NEW s \in MemCheck, NEW end \in Vmm!Addr, NEW write \in BOOLEAN
  PROVE  /\ Vmm!MemCheckPass(s, end, write) \in MemCheck
         /\ Vmm!MemCheckPass(s, end, write).mm.mmap_list = s.mm.mmap_list
         /\ Vmm!MemCheckPass(s, end, write).mm.loading = s.mm.loading
<1> DEFINE found == Vmm!find_vma(s.mm, s.start)
           after == Vmm!MemCheckPass(s, end, write)
           kept == Vmm!Cached(s.mm, found)
<1>1. s.mm \in Mm /\ s.start \in Vmm!Addr /\ s.ok \in BOOLEAN
      /\ s = [ok |-> s.ok, start |-> s.start, mm |-> s.mm]
  BY DEF MemCheck
<1>2. found \in ToSet(s.mm.mmap_list) \cup {NULL}
  BY <1>1, FindsArea
<1>3. /\ kept \in Mm /\ kept.mmap_list = s.mm.mmap_list /\ kept.loading = s.mm.loading
  <2> HIDE DEF found
  <2>1. QED
    BY <1>1, <1>2, CachedKeeps
<1>4. found # NULL => found.vm_end \in Vmm!Addr
  <2> HIDE DEF found
  <2>1. QED
    BY <1>1, <1>2, MmParts, AreaFields
<1>5. \/ after = s
      \/ /\ found # NULL
         /\ after = [ok |-> TRUE, start |-> found.vm_end, mm |-> kept]
      \/ after = [ok |-> FALSE, start |-> s.start, mm |-> kept]
  BY <1>1 DEF Vmm!MemCheckPass, Vmm!NextStart
<1>6. QED
  <2> HIDE DEF found, after, kept
  <2>1. CASE after = s
    BY <1>1, <2>1 DEF after
  <2>2. CASE found # NULL /\ after = [ok |-> TRUE, start |-> found.vm_end, mm |-> kept]
    BY <1>3, <1>4, <2>2 DEF MemCheck, after
  <2>3. CASE after = [ok |-> FALSE, start |-> s.start, mm |-> kept]
    BY <1>1, <1>3, <2>3 DEF MemCheck, after
  <2>4. QED
    BY <1>5, <2>1, <2>2, <2>3

\* In an area, an access that is permitted at one address is at all behind it.
LEMMA PermitsOn ==
  ASSUME NEW found \in Vmm!Area, NEW a \in Vmm!Addr, NEW b \in Vmm!Addr, a <= b,
         NEW write \in BOOLEAN, Vmm!Permits(found, a, write)
  PROVE  Vmm!Permits(found, b, write)
<1>1. a \in Nat /\ b \in Nat /\ found.vm_start \in Nat /\ PGSIZE \in Nat
  BY AreaFields, VmmConstants DEF Vmm!Addr
<1>2. QED
  BY <1>1 DEF Vmm!Permits

\* One pass keeps MemCheckInv.
LEMMA PassStep ==
  ASSUME NEW list \in Seq(Vmm!Area), AreasSorted(list), NEW i \in 1 .. Len(list) + 1,
         NEW s, NEW addr \in Vmm!Addr, NEW end \in Vmm!Addr, NEW write \in BOOLEAN,
         MemCheckInv(i - 1, s, list, addr, end, write)
  PROVE  MemCheckInv(i, Vmm!MemCheckPass(s, end, write), list, addr, end, write)
<1> DEFINE found == Vmm!find_vma(s.mm, s.start)
           after == Vmm!MemCheckPass(s, end, write)
           kept == Vmm!Cached(s.mm, found)
<1>1. /\ s \in MemCheck /\ s.mm.mmap_list = list /\ addr <= s.start
      /\ s.mm \in Mm /\ s.start \in Vmm!Addr /\ s.ok \in BOOLEAN
      /\ s = [ok |-> s.ok, start |-> s.start, mm |-> s.mm]
  BY DEF MemCheckInv, MemCheck
<1>2. after \in MemCheck /\ after.mm.mmap_list = list
  BY <1>1, PassKeeps
<1>3. addr \in Nat /\ end \in Nat /\ s.start \in Nat /\ i \in Nat /\ Len(list) \in Nat
  BY <1>1 DEF Vmm!Addr
<1>4. CASE ~s.ok \/ s.start >= end
  <2>1. after = s
    BY <1>4 DEF Vmm!MemCheckPass
  <2>2. ~(s.ok /\ s.start < end)
    BY <1>3, <1>4
  <2>3. MemCheckInv(i, s, list, addr, end, write)
    BY <1>1, <2>2 DEF MemCheckInv
  <2>4. QED
    BY <2>1, <2>3
<1>5. CASE /\ s.ok /\ s.start < end
           /\ found # NULL /\ Vmm!Permits(found, s.start, write)
  <2>1. found \in ToSet(list) /\ Vmm!Covers(found, s.start)
    BY <1>1, <1>5, FindsArea
  <2>2. after = [ok |-> TRUE, start |-> found.vm_end, mm |-> kept]
    BY <1>3, <1>5 DEF Vmm!MemCheckPass, Vmm!NextStart
  <2> HIDE DEF found, after, kept
  <2>3. PICK k \in DOMAIN list : found = list[k]
    BY <2>1 DEF ToSet
  <2>4. found \in Vmm!Area /\ found.vm_start \in Nat /\ found.vm_end \in Nat
    BY <2>3, AreaFields
  <2>5. s.start < found.vm_end /\ found.vm_start <= s.start
    BY <2>1 DEF Vmm!Covers
  <2>6. i - 1 < k /\ k \in 1 .. Len(list)
    BY <1>5, <2>3, <2>5 DEF MemCheckInv
  <2>7. addr <= found.vm_end
    BY <1>1, <1>3, <2>4, <2>5
  <2>8. ASSUME NEW a \in Vmm!Addr, addr <= a, a < found.vm_end
        PROVE  Allowed(list, a, write)
    <3>1. a \in Nat
      BY DEF Vmm!Addr
    <3>2. CASE a < s.start
      BY <1>5, <2>8, <3>2 DEF MemCheckInv
    <3>3. CASE s.start <= a
      <4>1. Vmm!Covers(found, a)
        BY <1>3, <2>4, <2>5, <2>8, <3>1, <3>3 DEF Vmm!Covers
      <4>2. Vmm!Permits(found, a, write)
        BY <1>1, <1>5, <2>4, <3>3, PermitsOn
      <4>3. QED
        BY <2>1, <4>1, <4>2 DEF Allowed
    <3>4. QED
      BY <1>3, <3>1, <3>2, <3>3
  <2>9. ASSUME NEW j \in DOMAIN list, found.vm_end < list[j].vm_end
        PROVE  k < j
    <3>1. CASE j < k
      <4>1. list[j].vm_end <= list[k].vm_start
        BY <3>1 DEF AreasSorted
      <4>2. list[j] \in Vmm!Area
        OBVIOUS
      <4>3. list[j].vm_end \in Nat
        BY <4>2, AreaFields
      <4>4. QED
        BY <1>3, <2>3, <2>4, <2>5, <2>9, <4>1, <4>3
    <3>2. CASE j = k
      BY <2>3, <2>4, <2>9, <3>2
    <3>3. j \in Nat /\ k \in Nat
      OBVIOUS
    <3>4. QED
      BY <3>1, <3>2, <3>3
  <2>10. i <= k /\ k <= Len(list)
    BY <1>3, <2>6
  <2>11. /\ i <= Len(list)
         /\ \A j \in DOMAIN list : found.vm_end < list[j].vm_end => i < j
    <3>1. i <= Len(list)
      BY <1>3, <2>6, <2>10
    <3>2. ASSUME NEW j \in DOMAIN list, found.vm_end < list[j].vm_end
          PROVE  i < j
      <4>1. j \in Nat /\ k \in Nat
        OBVIOUS
      <4>2. QED
        BY <1>3, <2>9, <2>10, <3>2, <4>1
    <3>3. QED
      BY <3>1, <3>2
  <2>12. after.ok /\ after.start = found.vm_end
    BY <2>2
  <2>13. QED
    BY <1>2, <2>7, <2>8, <2>11, <2>12 DEF MemCheckInv, after
<1>6. CASE /\ s.ok /\ s.start < end
           /\ ~(found # NULL /\ Vmm!Permits(found, s.start, write))
  <2>1. after.ok = FALSE /\ after.start = s.start
    <3>1. ~(~s.ok \/ s.start >= end)
      BY <1>3, <1>6
    <3>2. after = [s EXCEPT !.ok = FALSE, !.mm = kept]
      BY <1>6, <3>1 DEF Vmm!MemCheckPass
    <3> HIDE DEF found, after, kept
    <3>3. QED
      BY <1>1, <3>2
  <2>2. \/ found = NULL /\ \A w \in ToSet(list) : ~Vmm!Covers(w, s.start)
        \/ found \in ToSet(list) /\ Vmm!Covers(found, s.start)
    BY <1>1, FindsArea
  <2> HIDE DEF found, after, kept
  <2>3. ~Allowed(list, s.start, write)
    <3>1. CASE found = NULL /\ \A w \in ToSet(list) : ~Vmm!Covers(w, s.start)
      BY <3>1 DEF Allowed
    <3>2. CASE found \in ToSet(list) /\ Vmm!Covers(found, s.start)
      <4>1. found # NULL
        <5>1. found \in Vmm!Area
          BY <1>1, <3>2, MmParts
        <5>2. QED
          BY <5>1, AreaFields
      <4>2. ~Vmm!Permits(found, s.start, write)
        BY <1>6, <4>1
      <4>3. \A w \in ToSet(list) : Vmm!Covers(w, s.start) => w = found
        BY <1>1, <3>2, CoversOnce
      <4>4. QED
        BY <4>2, <4>3 DEF Allowed
    <3>3. QED
      BY <2>2, <3>1, <3>2
  <2>4. \E a \in Vmm!Addr : addr <= a /\ a < end /\ ~Allowed(list, a, write)
    BY <1>1, <1>6, <2>3
  <2>5. QED
    BY <1>1, <1>2, <2>1, <2>4 DEF MemCheckInv, after
<1>7. QED
  BY <1>1, <1>3, <1>4, <1>5, <1>6

\* The states of the loop of user_mem_check, pass by pass.
LEMMA MemCheckRun ==
  ASSUME NEW m \in Mm, NEW addr \in Vmm!Addr, NEW len \in Vmm!Addr, NEW write \in BOOLEAN,
         Vmm!USER_ACCESS(addr, Vmm!Plus(addr, len))
  PROVE  \E g \in [0 .. Len(m.mmap_list) + 1 -> MemCheck] :
            /\ g[0] = [ok |-> TRUE, start |-> addr, mm |-> m]
            /\ g[Len(m.mmap_list) + 1] = Vmm!user_mem_check(m, addr, len, write)
            /\ \A i \in 1 .. Len(m.mmap_list) + 1 :
                  g[i] = Vmm!MemCheckPass(g[i - 1], Vmm!Plus(addr, len), write)
<1> DEFINE N == Len(m.mmap_list) + 1
           X == MemCheck
           end == Vmm!Plus(addr, len)
           base == [ok |-> TRUE, start |-> addr, mm |-> m]
           F == [i \in 1 .. N |-> [s \in X |-> Vmm!MemCheckPass(s, end, write)]]
           iter == CHOOSE it : it = [s \in SUBSET (1 .. N) |->
                      IF s = {} THEN base
                      ELSE Vmm!MemCheckPass(it[s \ {Max(s)}], end, write)]
<1>0. end \in Vmm!Addr
  BY PlusWraps DEF Vmm!Addr
<1>1. N \in Nat
  BY MmParts
<1>2. F \in [1 .. N -> [X -> X]]
  <2>1. \A s \in X : Vmm!MemCheckPass(s, end, write) \in X
    BY <1>0, PassKeeps
  <2> HIDE DEF N, X, end
  <2>2. QED
    BY <2>1
<1>3. base \in X
  BY DEF MemCheck
<1>4. Vmm!user_mem_check(m, addr, len, write) = iter[1 .. N]
  BY DEF Vmm!user_mem_check, Vmm!FoldLeft, Vmm!MapThenFoldSet, Max, Vmm!Max
<1> HIDE DEF X, N, end, base
<1>5. iter = [s \in SUBSET (1 .. N) |->
                 IF s = {} THEN base
                 ELSE Vmm!MemCheckPass(iter[s \ {Max(s)}], end, write)]
  <2>1. PICK it \in [SUBSET (1 .. N) -> X] : IsFold(it, N, base, F)
    <3> HIDE DEF F
    <3>1. QED
      BY <1>1, <1>2, <1>3, FoldExists
  <2>2. ASSUME NEW s \in SUBSET (1 .. N), s # {}
        PROVE  F[Max(s)][it[s \ {Max(s)}]]
                  = Vmm!MemCheckPass(it[s \ {Max(s)}], end, write)
    <3>1. Max(s) \in 1 .. N
      BY <1>1, <2>2, MaxInSet
    <3>2. it[s \ {Max(s)}] \in X
      OBVIOUS
    <3>3. QED
      BY <3>1, <3>2
  <2>3. it = [s \in SUBSET (1 .. N) |->
                 IF s = {} THEN base
                 ELSE Vmm!MemCheckPass(it[s \ {Max(s)}], end, write)]
    <3> HIDE DEF F
    <3>1. QED
      BY <2>1, <2>2 DEF IsFold
  <2>4. QED
    BY <2>3
<1>6. FoldsWithin(iter, N, X, base, F)
  <2>1. iter[{}] = base
    <3> HIDE DEF iter
    <3>1. QED
      BY <1>5
  <2>2. ASSUME NEW s \in SUBSET (1 .. N), s # {}, iter[s \ {Max(s)}] \in X
        PROVE  iter[s] = F[Max(s)][iter[s \ {Max(s)}]]
    <3>1. Max(s) \in 1 .. N
      BY <1>1, <2>2, MaxInSet
    <3> HIDE DEF iter
    <3>2. iter[s] = Vmm!MemCheckPass(iter[s \ {Max(s)}], end, write)
      BY <1>5, <2>2
    <3>3. QED
      BY <2>2, <3>1, <3>2
  <2> HIDE DEF iter, F
  <2>3. QED
    BY <2>1, <2>2 DEF FoldsWithin
<1>7. PICK g \in [0 .. N -> X] : IsRun(g, iter, N, base, F)
  <2> HIDE DEF iter, F
  <2>1. QED
    BY <1>1, <1>2, <1>3, <1>6, FoldPrefixes
<1>8. ASSUME NEW i \in 1 .. N
      PROVE  g[i] = Vmm!MemCheckPass(g[i - 1], end, write)
  <2>1. i - 1 \in 0 .. N
    BY <1>1
  <2>2. g[i - 1] \in X
    BY <2>1
  <2>3. g[i] = F[i][g[i - 1]]
    <3> HIDE DEF F, iter
    <3>1. QED
      BY <1>7 DEF IsRun
  <2>4. QED
    BY <2>2, <2>3
<1>9. g[0] = base /\ g[N] = Vmm!user_mem_check(m, addr, len, write)
  <2> HIDE DEF F, iter
  <2>1. QED
    BY <1>4, <1>7 DEF IsRun
<1>10. QED
  <2> HIDE DEF F, iter
  <2>1. g \in [0 .. Len(m.mmap_list) + 1 -> MemCheck]
    BY <1>7 DEF X, N
  <2>2. QED
    BY <1>8, <1>9, <2>1 DEF N, base, end

\* user_mem_check says yes exactly if the range is in user space and every
\* byte of it may be accessed, and changes nothing but the cache.
LEMMA MemCheckExact ==
  ASSUME NEW m \in Mm, NEW addr \in Vmm!Addr, NEW len \in Vmm!Addr, NEW write \in BOOLEAN
  PROVE  LET check == Vmm!user_mem_check(m, addr, len, write)
             end   == Vmm!Plus(addr, len)
         IN  /\ check \in MemCheck
             /\ check.mm.mmap_list = m.mmap_list /\ check.mm.loading = m.loading
             /\ check.ok <=> /\ Vmm!USER_ACCESS(addr, end)
                             /\ \A a \in Vmm!Addr : addr <= a /\ a < end
                                   => Allowed(m.mmap_list, a, write)
<1> DEFINE check == Vmm!user_mem_check(m, addr, len, write)
           end   == Vmm!Plus(addr, len)
           list  == m.mmap_list
           N     == Len(list) + 1
<1>1. /\ list \in Seq(Vmm!Area) /\ AreasSorted(list) /\ Len(list) \in Nat /\ N \in Nat
      /\ end \in Vmm!Addr /\ m.loading \in BOOLEAN
  BY MmParts, PlusWraps DEF Vmm!Addr
<1>2. CASE ~Vmm!USER_ACCESS(addr, end)
  <2>1. check = [ok |-> FALSE, start |-> addr, mm |-> m]
    BY <1>2 DEF Vmm!user_mem_check
  <2>2. QED
    BY <1>2, <2>1 DEF MemCheck
<1>3. CASE Vmm!USER_ACCESS(addr, end)
  <2>1. PICK g \in [0 .. N -> MemCheck] :
            /\ g[0] = [ok |-> TRUE, start |-> addr, mm |-> m]
            /\ g[N] = check
            /\ \A i \in 1 .. N : g[i] = Vmm!MemCheckPass(g[i - 1], end, write)
    BY <1>3, MemCheckRun
  <2> DEFINE S == {i \in 0 .. N : /\ MemCheckInv(i, g[i], list, addr, end, write)
                                  /\ g[i].mm.loading = m.loading}
  <2> HIDE DEF check, end
  <2>2. 0 \in S
    <3>1. g[0].ok = TRUE /\ g[0].start = addr /\ g[0].mm = m /\ g[0] \in MemCheck
      BY <1>1, <2>1
    <3>2. addr \in Nat
      BY DEF Vmm!Addr
    <3>3. \A a \in Vmm!Addr : ~(addr <= a /\ a < addr)
      BY <3>2 DEF Vmm!Addr
    <3>4. 0 <= Len(list) /\ \A j \in DOMAIN list : 0 < j
      BY <1>1
    <3>5. MemCheckInv(0, g[0], list, addr, end, write)
      <4>1. g[0].mm.mmap_list = list /\ addr <= g[0].start
        BY <3>1, <3>2
      <4>2. \A a \in Vmm!Addr : ~(addr <= a /\ a < g[0].start)
        BY <3>1, <3>3
      <4> HIDE DEF list
      <4>3. QED
        BY <3>1, <3>4, <4>1, <4>2 DEF MemCheckInv
    <3>6. QED
      BY <1>1, <3>1, <3>5
  <2>3. ASSUME NEW i \in 0 .. N, i < N, i \in S
        PROVE  i + 1 \in S
    <3>1. i + 1 \in 1 .. N /\ (i + 1) - 1 = i /\ i + 1 \in 0 .. N
      BY <1>1, <2>3
    <3>2. MemCheckInv((i + 1) - 1, g[i], list, addr, end, write) /\ g[i].mm.loading = m.loading
      BY <2>3, <3>1
    <3>3. g[i + 1] = Vmm!MemCheckPass(g[i], end, write)
      BY <2>1, <3>1
    <3>4. g[i + 1].mm.loading = m.loading
      <4>1. g[i] \in MemCheck
        BY <2>1
      <4>2. QED
        BY <1>1, <3>2, <3>3, <4>1, PassKeeps
    <3>5. MemCheckInv(i + 1, g[i + 1], list, addr, end, write)
      <4> HIDE DEF list
      <4>1. QED
        BY <1>1, <3>1, <3>2, <3>3, PassStep
    <3>6. QED
      BY <3>1, <3>4, <3>5
  <2>4. N \in S
    <3> HIDE DEF S, N
    <3>1. 0 .. N \subseteq S
      BY <1>1, <2>2, <2>3, IntervalInduction
    <3>2. QED
      BY <1>1, <3>1
  <2>5. MemCheckInv(N, check, list, addr, end, write) /\ check.mm.loading = m.loading
    BY <2>1, <2>4
  <2>6. ~(N <= Len(list))
    BY <1>1
  <2>7. check.start \in Nat /\ end \in Nat
    BY <1>1, <2>5 DEF MemCheckInv, MemCheck, Vmm!Addr
  <2> HIDE DEF N, list
  <2>8. check.ok => ~(check.start < end)
    BY <2>5, <2>6 DEF MemCheckInv
  <2>9. check.ok <=> \A a \in Vmm!Addr : addr <= a /\ a < end => Allowed(list, a, write)
    <3>1. ASSUME check.ok, NEW a \in Vmm!Addr, addr <= a, a < end
          PROVE  Allowed(list, a, write)
      <4>1. a < check.start
        BY <2>7, <2>8, <3>1 DEF Vmm!Addr
      <4>2. QED
        BY <2>5, <3>1, <4>1 DEF MemCheckInv
    <3>2. ASSUME ~check.ok
          PROVE  \E a \in Vmm!Addr : addr <= a /\ a < end /\ ~Allowed(list, a, write)
      BY <2>5, <3>2 DEF MemCheckInv
    <3>3. check.ok \in BOOLEAN
      BY <2>5 DEF MemCheckInv, MemCheck
    <3>4. QED
      BY <3>1, <3>2, <3>3
  <2>10. check \in MemCheck /\ check.mm.mmap_list = list
    BY <2>5 DEF MemCheckInv
  <2>11. QED
    BY <1>3, <2>5, <2>9, <2>10 DEF check, end, list
<1>4. QED
  BY <1>2, <1>3

\* The end of a buffer that does not wrap, and of one that does.
LEMMA EndOfBuffer ==
  ASSUME NEW addr \in Vmm!Addr, NEW len \in Vmm!Addr
  PROVE  /\ addr + len < AddrSpace => Vmm!Plus(addr, len) = addr + len
         /\ addr + len >= AddrSpace => Vmm!Plus(addr, len) < addr
<1>1. /\ AddrSpace \in Nat /\ AddrSpace > 0 /\ addr \in Nat /\ len \in Nat
      /\ addr < AddrSpace /\ len < AddrSpace
  BY VmmConstants DEF Vmm!Addr
<1>2. ASSUME addr + len < AddrSpace
      PROVE  (addr + len) % AddrSpace = addr + len
  BY <1>1, <1>2
<1>3. ASSUME addr + len >= AddrSpace
      PROVE  (addr + len) % AddrSpace < addr
  <2> DEFINE k == addr + len - AddrSpace
  <2>1. k \in Nat /\ k < AddrSpace /\ addr + len = k + AddrSpace /\ k < addr
    BY <1>1, <1>3
  <2> HIDE DEF k
  <2>2. (k + AddrSpace) % AddrSpace = k
    BY <1>1, <2>1
  <2>3. QED
    BY <1>1, <2>1, <2>2
<1>4. QED
  BY <1>2, <1>3 DEF Vmm!Plus

\* The verdict of user_mem_check in terms of the bytes of the buffer.
LEMMA BufferChecked ==
  ASSUME NEW m \in Mm, NEW addr \in Vmm!Addr, NEW len \in Vmm!Addr, NEW write \in BOOLEAN
  PROVE  Vmm!user_mem_check(m, addr, len, write).ok <=>
            /\ len > 0 /\ addr + len < AddrSpace
            /\ \A a \in addr .. addr + len - 1 : Allowed(m.mmap_list, a, write)
<1> DEFINE ok  == Vmm!user_mem_check(m, addr, len, write).ok
           end == Vmm!Plus(addr, len)
<1>1. /\ AddrSpace \in Nat /\ addr \in Nat /\ len \in Nat /\ USERBASE \in Nat
      /\ USERTOP \in Nat /\ USERTOP < AddrSpace /\ end \in Nat
  <2>1. end \in Vmm!Addr /\ AddrSpace \in Nat /\ USERBASE \in Nat /\ USERTOP \in Nat
        /\ USERTOP < AddrSpace
    BY VmmConstants, PlusWraps DEF Vmm!Addr
  <2>2. QED
    BY <2>1 DEF Vmm!Addr
<1>2. /\ ok \in BOOLEAN
      /\ ok <=> /\ Vmm!USER_ACCESS(addr, end)
                /\ \A a \in Vmm!Addr : addr <= a /\ a < end => Allowed(m.mmap_list, a, write)
  <2>1. Vmm!user_mem_check(m, addr, len, write) \in MemCheck
    BY MemCheckExact
  <2>2. ok \in BOOLEAN
    BY <2>1 DEF MemCheck
  <2>3. QED
    BY <2>2, MemCheckExact
<1>3. /\ addr + len < AddrSpace => end = addr + len
      /\ addr + len >= AddrSpace => end < addr
  BY EndOfBuffer
<1> HIDE DEF ok, end
<1>4. ASSUME ok
      PROVE  /\ len > 0 /\ addr + len < AddrSpace
             /\ \A a \in addr .. addr + len - 1 : Allowed(m.mmap_list, a, write)
  <2>1. addr < end
    BY <1>2, <1>4 DEF Vmm!USER_ACCESS
  <2>2. addr + len < AddrSpace /\ end = addr + len /\ len > 0
    BY <1>1, <1>3, <2>1
  <2>3. \A a \in addr .. addr + len - 1 : a \in Vmm!Addr /\ addr <= a /\ a < end
    BY <1>1, <2>2 DEF Vmm!Addr
  <2>4. QED
    BY <1>2, <1>4, <2>2, <2>3
<1>5. ASSUME len > 0, addr + len < AddrSpace,
             \A a \in addr .. addr + len - 1 : Allowed(m.mmap_list, a, write)
      PROVE  ok
  <2>1. end = addr + len
    BY <1>3, <1>5
  <2>2. \A a \in Vmm!Addr : addr <= a /\ a < end => a \in addr .. addr + len - 1
    BY <1>1, <2>1 DEF Vmm!Addr
  <2>3. ASSUME NEW a \in addr .. addr + len - 1
        PROVE  USERBASE <= a /\ a < USERTOP
    <3>1. PICK v \in ToSet(m.mmap_list) : Vmm!Covers(v, a)
      BY <1>5 DEF Allowed
    <3>2. Vmm!USER_ACCESS(v.vm_start, v.vm_end) /\ v.vm_start \in Nat /\ v.vm_end \in Nat
      <4>1. AreasSorted(m.mmap_list) /\ v \in Vmm!Area
        BY <3>1, MmParts
      <4>2. QED
        BY <3>1, <4>1, AreaFields DEF AreasSorted, ToSet
    <3>3. QED
      BY <1>1, <3>1, <3>2 DEF Vmm!Covers, Vmm!USER_ACCESS
  <2>4. addr \in addr .. addr + len - 1 /\ addr + len - 1 \in addr .. addr + len - 1
    BY <1>1, <1>5
  <2>5. USERBASE <= addr /\ addr + len - 1 < USERTOP
    BY <2>3, <2>4
  <2>6. Vmm!USER_ACCESS(addr, end)
    BY <1>1, <1>5, <2>1, <2>5 DEF Vmm!USER_ACCESS
  <2>7. QED
    BY <1>2, <1>5, <2>2, <2>6
<1>6. QED
  BY <1>2, <1>4, <1>5 DEF ok

\* The records that an mm_struct is one of.
MmRecord == [mmap_list : Seq(Vmm!Area), mmap_cache : Vmm!Area \cup {NULL},
             map_count : Nat, loading : BOOLEAN]

\* insert_vma_struct, field by field.
LEMMA InsertFields ==
  ASSUME NEW m \in MmRecord, NEW v \in Vmm!Area
  PROVE  /\ Vmm!insert_vma_struct(m, v) \in MmRecord
         /\ Vmm!insert_vma_struct(m, v) =
              [mmap_list |-> InsertAt(m.mmap_list, Vmm!Prev(m.mmap_list, v) + 1, v),
               mmap_cache |-> m.mmap_cache, map_count |-> m.map_count + 1,
               loading |-> m.loading]
<1> DEFINE list == m.mmap_list
           n    == Vmm!Prev(list, v)
           new  == InsertAt(list, n + 1, v)
<1>1. /\ list \in Seq(Vmm!Area) /\ m.mmap_cache \in Vmm!Area \cup {NULL}
      /\ m.map_count \in Nat /\ m.loading \in BOOLEAN
      /\ m = [mmap_list |-> m.mmap_list, mmap_cache |-> m.mmap_cache,
              map_count |-> m.map_count, loading |-> m.loading]
  BY DEF MmRecord
<1>2. n \in 0 .. Len(list)
  BY <1>1, PrevInList
<1>3. new \in Seq(Vmm!Area)
  <2> HIDE DEF n, list
  <2>1. QED
    BY <1>1, <1>2, AreaInserted
<1>4. Vmm!insert_vma_struct(m, v) =
        [mmap_list |-> new, mmap_cache |-> m.mmap_cache, map_count |-> m.map_count + 1,
         loading |-> m.loading]
  <2>1. Vmm!InsertAt(list, n + 1, v) = new
    BY VmmSequences
  <2>2. Vmm!insert_vma_struct(m, v) =
          [m EXCEPT !.mmap_list = new, !.map_count = m.map_count + 1]
    BY <2>1 DEF Vmm!insert_vma_struct
  <2> HIDE DEF new
  <2>3. QED
    BY <1>1, <2>2
<1>5. [mmap_list |-> new, mmap_cache |-> m.mmap_cache, map_count |-> m.map_count + 1,
       loading |-> m.loading] \in MmRecord
  <2> HIDE DEF new, list
  <2>1. QED
    BY <1>1, <1>3 DEF MmRecord
<1>6. QED
  BY <1>4, <1>5

-----------------------------------------------------------------------------
(* dup_mmap.                                                               *)

\* The areas of a list, the last first.
LEMMA ReversedList ==
  ASSUME NEW list \in Seq(Vmm!Area)
  PROVE  /\ Reverse(list) \in Seq(Vmm!Area)
         /\ Len(Reverse(list)) = Len(list)
         /\ \A i \in 1 .. Len(list) : Reverse(list)[i] = list[(Len(list) - i) + 1]
<1>1. Len(list) \in Nat /\ \A i \in 1 .. Len(list) : (Len(list) - i) + 1 \in 1 .. Len(list)
  OBVIOUS
<1>2. Reverse(list) = [i \in 1 .. Len(list) |-> list[(Len(list) - i) + 1]]
  BY DEF Reverse
<1>3. QED
  BY <1>1, <1>2

\* The child's mm_struct in dup_mmap, area by area.
LEMMA DupRun ==
  ASSUME NEW to \in MmRecord, NEW from \in Mm
  PROVE  \E g \in [0 .. Len(from.mmap_list) -> MmRecord] :
            /\ g[0] = to
            /\ g[Len(from.mmap_list)] = Vmm!dup_mmap(to, from)
            /\ \A i \in 1 .. Len(from.mmap_list) :
                  g[i] = Vmm!insert_vma_struct(g[i - 1], Reverse(from.mmap_list)[i])
<1> DEFINE N == Len(from.mmap_list)
           X == MmRecord
           back == Reverse(from.mmap_list)
           F == [i \in 1 .. N |-> [m \in X |-> Vmm!insert_vma_struct(m, back[i])]]
           iter == CHOOSE it : it = [s \in SUBSET (1 .. N) |->
                      IF s = {} THEN to
                      ELSE Vmm!insert_vma_struct(it[s \ {Max(s)}], back[Max(s)])]
<1>0. from.mmap_list \in Seq(Vmm!Area)
  BY MmParts
<1>1. N \in Nat /\ DOMAIN back = 1 .. N /\ \A i \in 1 .. N : back[i] \in Vmm!Area
  BY <1>0, ReversedList
<1>2. F \in [1 .. N -> [X -> X]]
  <2>1. \A i \in 1 .. N : \A m \in X : Vmm!insert_vma_struct(m, back[i]) \in X
    BY <1>1, InsertFields
  <2> HIDE DEF N, X, back
  <2>2. QED
    BY <2>1
<1>3. to \in X
  OBVIOUS
<1>4. Vmm!dup_mmap(to, from) = iter[1 .. N]
  <2>1. Vmm!Reverse(from.mmap_list) = back
    BY VmmSequences
  <2> HIDE DEF N, back
  <2>2. QED
    BY <1>1, <2>1 DEF Vmm!dup_mmap, Vmm!FoldLeft, Vmm!MapThenFoldSet, Max, Vmm!Max
<1> HIDE DEF X, N, back
<1>5. iter = [s \in SUBSET (1 .. N) |->
                 IF s = {} THEN to
                 ELSE Vmm!insert_vma_struct(iter[s \ {Max(s)}], back[Max(s)])]
  <2>1. PICK it \in [SUBSET (1 .. N) -> X] : IsFold(it, N, to, F)
    <3> HIDE DEF F
    <3>1. QED
      BY <1>1, <1>2, <1>3, FoldExists
  <2>2. ASSUME NEW s \in SUBSET (1 .. N), s # {}
        PROVE  F[Max(s)][it[s \ {Max(s)}]]
                  = Vmm!insert_vma_struct(it[s \ {Max(s)}], back[Max(s)])
    <3>1. Max(s) \in 1 .. N
      BY <1>1, <2>2, MaxInSet
    <3>2. it[s \ {Max(s)}] \in X
      OBVIOUS
    <3>3. QED
      BY <3>1, <3>2
  <2>3. it = [s \in SUBSET (1 .. N) |->
                 IF s = {} THEN to
                 ELSE Vmm!insert_vma_struct(it[s \ {Max(s)}], back[Max(s)])]
    <3> HIDE DEF F
    <3>1. QED
      BY <2>1, <2>2 DEF IsFold
  <2>4. QED
    BY <2>3
<1>6. FoldsWithin(iter, N, X, to, F)
  <2>1. iter[{}] = to
    <3> HIDE DEF iter
    <3>1. QED
      BY <1>5
  <2>2. ASSUME NEW s \in SUBSET (1 .. N), s # {}, iter[s \ {Max(s)}] \in X
        PROVE  iter[s] = F[Max(s)][iter[s \ {Max(s)}]]
    <3>1. Max(s) \in 1 .. N
      BY <1>1, <2>2, MaxInSet
    <3> HIDE DEF iter
    <3>2. iter[s] = Vmm!insert_vma_struct(iter[s \ {Max(s)}], back[Max(s)])
      BY <1>5, <2>2
    <3>3. QED
      BY <2>2, <3>1, <3>2
  <2> HIDE DEF iter, F
  <2>3. QED
    BY <2>1, <2>2 DEF FoldsWithin
<1>7. PICK g \in [0 .. N -> X] : IsRun(g, iter, N, to, F)
  <2> HIDE DEF iter, F
  <2>1. QED
    BY <1>1, <1>2, <1>3, <1>6, FoldPrefixes
<1>8. ASSUME NEW i \in 1 .. N
      PROVE  g[i] = Vmm!insert_vma_struct(g[i - 1], back[i])
  <2>1. i - 1 \in 0 .. N
    BY <1>1
  <2>2. g[i - 1] \in X
    BY <2>1
  <2>3. g[i] = F[i][g[i - 1]]
    <3> HIDE DEF F, iter
    <3>1. QED
      BY <1>7 DEF IsRun
  <2>4. QED
    BY <2>2, <2>3
<1>9. g[0] = to /\ g[N] = Vmm!dup_mmap(to, from)
  <2> HIDE DEF F, iter
  <2>1. QED
    BY <1>4, <1>7 DEF IsRun
<1>10. QED
  <2> HIDE DEF F, iter
  <2>1. g \in [0 .. Len(from.mmap_list) -> MmRecord]
    BY <1>7 DEF X, N
  <2>2. QED
    BY <1>8, <1>9, <2>1 DEF N, back

\* A list of areas with one more at its head.
LEMMA InsertedAtHead ==
  ASSUME NEW l \in Seq(Vmm!Area), NEW v \in Vmm!Area
  PROVE  /\ InsertAt(l, 1, v) \in Seq(Vmm!Area)
         /\ Len(InsertAt(l, 1, v)) = Len(l) + 1
         /\ \A j \in 1 .. Len(l) + 1 :
               InsertAt(l, 1, v)[j] = IF j = 1 THEN v ELSE l[j - 1]
<1> DEFINE k == 1
<1>1. k \in 1 .. Len(l) + 1
  OBVIOUS
<1>2. \A j \in 1 .. Len(l) + 1 : ~(j < k)
  OBVIOUS
<1> HIDE DEF k
<1>3. InsertAt(l, k, v) \in Seq(Vmm!Area)
  BY <1>1, AreaInsertedAt
<1>4. Len(InsertAt(l, k, v)) = Len(l) + 1
  BY <1>1, AreaInsertedAt
<1>5. ElementsWith(l, k, v)
  BY <1>1, AreaInsertedAt
<1>6. \A j \in 1 .. Len(l) + 1 : InsertAt(l, k, v)[j] = IF j = k THEN v ELSE l[j - 1]
  BY <1>2, <1>5 DEF ElementsWith
<1>7. QED
  BY <1>3, <1>4, <1>6 DEF k

\* The end of a list of areas.
IsEndOf(l, list, i) ==
    /\ l \in Seq(Vmm!Area)
    /\ Len(l) = i
    /\ \A j \in 1 .. i : l[j] = list[(Len(list) - i) + j]

\* An area is inserted at the head of those that were behind it.
LEMMA InsertInFront ==
  ASSUME NEW list \in Seq(Vmm!Area), AreasSorted(list), NEW i \in 0 .. Len(list) - 1,
         NEW l, IsEndOf(l, list, i)
  PROVE  IsEndOf(InsertAt(l, Vmm!Prev(l, list[Len(list) - i]) + 1, list[Len(list) - i]),
                 list, i + 1)
<1> DEFINE n == Len(list)
           v == list[n - i]
           I == {k \in 1 .. Len(l) : l[k].vm_start > v.vm_start}
           new == InsertAt(l, 1, v)
<1>1. /\ n \in Nat /\ i \in Nat /\ i < n /\ n - i \in 1 .. n /\ DOMAIN list = 1 .. n
      /\ l \in Seq(Vmm!Area) /\ Len(l) = i
      /\ \A j \in 1 .. i : l[j] = list[(n - i) + j]
  BY DEF IsEndOf
<1>2. v \in Vmm!Area /\ v.vm_start \in Nat /\ v.vm_end \in Nat /\ v.vm_start < v.vm_end
  <2>1. v \in Vmm!Area
    BY <1>1
  <2>2. v.vm_start < v.vm_end
    BY <1>1 DEF AreasSorted, Vmm!USER_ACCESS
  <2>3. QED
    BY <2>1, <2>2, AreaFields
<1>3. Vmm!Prev(l, v) = 0
  <2>1. CASE i = 0
    <3>1. I = {}
      BY <1>1, <2>1
    <3> HIDE DEF v
    <3>2. QED
      BY <1>1, <2>1, <3>1 DEF Vmm!Prev, Vmm!SelectInSeq
  <2>2. CASE i # 0
    <3>1. /\ 1 \in 1 .. i /\ (n - i) + 1 \in 1 .. n /\ n - i < (n - i) + 1
          /\ l[1] = list[(n - i) + 1]
      BY <1>1, <2>2
    <3>2. v.vm_end <= l[1].vm_start
      <4>1. list[n - i].vm_end <= list[(n - i) + 1].vm_start
        BY <1>1, <3>1 DEF AreasSorted
      <4>2. QED
        BY <3>1, <4>1
    <3>3. l[1].vm_start \in Nat
      <4>1. l[1] \in Vmm!Area
        BY <1>1, <3>1
      <4>2. QED
        BY <4>1, AreaFields
    <3>4. 1 \in I
      <4> HIDE DEF v
      <4>1. QED
        BY <1>1, <1>2, <3>1, <3>2, <3>3
    <3>5. \A k \in I : 1 <= k /\ k \in Nat
      BY <1>1
    <3>6. Vmm!Min(I) = 1
      <4> HIDE DEF I
      <4>1. \A x \in I : (\A y \in I : x <= y) => x = 1
        BY <3>4, <3>5
      <4>2. QED
        BY <3>4, <3>5, <4>1 DEF Vmm!Min
    <3>7. QED
      <4> HIDE DEF v
      <4>1. QED
        BY <3>4, <3>6 DEF Vmm!Prev, Vmm!SelectInSeq
  <2>3. QED
    BY <2>1, <2>2
<1>4. /\ new \in Seq(Vmm!Area) /\ Len(new) = i + 1
      /\ \A j \in 1 .. i + 1 : new[j] = IF j = 1 THEN v ELSE l[j - 1]
  <2> HIDE DEF v
  <2>1. new \in Seq(Vmm!Area)
    BY <1>1, <1>2, InsertedAtHead
  <2>2. Len(new) = i + 1
    BY <1>1, <1>2, InsertedAtHead
  <2>3. \A j \in 1 .. i + 1 : new[j] = IF j = 1 THEN v ELSE l[j - 1]
    BY <1>1, <1>2, InsertedAtHead
  <2>4. QED
    BY <2>1, <2>2, <2>3
<1>5. ASSUME NEW j \in 1 .. i + 1
      PROVE  new[j] = list[(n - (i + 1)) + j]
  <2>1. CASE j = 1
    <3>1. (n - (i + 1)) + 1 = n - i
      BY <1>1
    <3>2. QED
      BY <1>4, <2>1, <3>1
  <2>2. CASE j # 1
    <3>1. j - 1 \in 1 .. i /\ (n - i) + (j - 1) = (n - (i + 1)) + j
      BY <1>1, <2>2
    <3>2. l[j - 1] = list[(n - i) + (j - 1)]
      BY <1>1, <3>1
    <3>3. QED
      BY <1>4, <2>2, <3>1, <3>2
  <2>3. QED
    BY <2>1, <2>2
<1>6. IsEndOf(new, list, i + 1)
  <2> HIDE DEF new
  <2>1. QED
    BY <1>1, <1>4, <1>5 DEF IsEndOf
<1>7. Vmm!Prev(l, v) + 1 = 1
  BY <1>3
<1>8. QED
  BY <1>6, <1>7

\* dup_mmap makes an mm_struct with the areas of the parent.
LEMMA DupCopies ==
  ASSUME NEW from \in Mm
  PROVE  Vmm!dup_mmap(Vmm!mm_create, from) =
           [mmap_list |-> from.mmap_list, mmap_cache |-> NULL,
            map_count |-> from.map_count, loading |-> TRUE]
<1> DEFINE list == from.mmap_list
           n    == Len(list)
           Ok(m, i) == /\ IsEndOf(m.mmap_list, list, i)
                       /\ m.mmap_cache = NULL /\ m.map_count = i /\ m.loading = TRUE
<1>1. /\ list \in Seq(Vmm!Area) /\ AreasSorted(list) /\ n \in Nat
      /\ from.map_count = n
  BY MmParts
<1>2. Vmm!mm_create \in MmRecord
  BY DEF Vmm!mm_create, MmRecord
<1>3. PICK g \in [0 .. n -> MmRecord] :
            /\ g[0] = Vmm!mm_create
            /\ g[n] = Vmm!dup_mmap(Vmm!mm_create, from)
            /\ \A i \in 1 .. n : g[i] = Vmm!insert_vma_struct(g[i - 1], Reverse(list)[i])
  BY <1>2, DupRun
<1> DEFINE S == {i \in 0 .. n : Ok(g[i], i)}
<1>4. 0 \in S
  <2>1. /\ g[0].mmap_list = <<>> /\ g[0].mmap_cache = NULL /\ g[0].map_count = 0
        /\ g[0].loading = TRUE
    BY <1>3 DEF Vmm!mm_create
  <2>2. IsEndOf(<<>>, list, 0)
    BY DEF IsEndOf
  <2>3. QED
    BY <1>1, <2>1, <2>2
<1>5. ASSUME NEW i \in 0 .. n, i < n, i \in S
      PROVE  i + 1 \in S
  <2>1. /\ i + 1 \in 1 .. n /\ (i + 1) - 1 = i /\ i \in 0 .. n - 1 /\ i + 1 \in 0 .. n
        /\ (n - (i + 1)) + 1 = n - i /\ n - i \in 1 .. n
    BY <1>1, <1>5
  <2>2. Reverse(list)[i + 1] = list[n - i]
    <3>1. Reverse(list)[i + 1] = list[(n - (i + 1)) + 1]
      <4> HIDE DEF list
      <4>1. QED
        BY <1>1, <2>1, ReversedList
    <3>2. QED
      BY <2>1, <3>1
  <2>3. g[i + 1] = Vmm!insert_vma_struct(g[i], list[n - i])
    BY <1>3, <2>1, <2>2
  <2>4. g[i] \in MmRecord /\ list[n - i] \in Vmm!Area
    <3>1. g[i] \in MmRecord
      BY <1>3
    <3>2. list[n - i] \in Vmm!Area
      <4> DEFINE k == n - i
      <4>1. k \in 1 .. Len(list)
        BY <2>1
      <4> HIDE DEF k, list
      <4>2. list[k] \in Vmm!Area
        BY <1>1, <4>1
      <4>3. QED
        BY <4>2 DEF k
    <3>3. QED
      BY <3>1, <3>2
  <2>5. g[i + 1] =
          [mmap_list |-> InsertAt(g[i].mmap_list,
                                  Vmm!Prev(g[i].mmap_list, list[n - i]) + 1, list[n - i]),
           mmap_cache |-> g[i].mmap_cache, map_count |-> g[i].map_count + 1,
           loading |-> g[i].loading]
    BY <2>3, <2>4, InsertFields
  <2>6. IsEndOf(InsertAt(g[i].mmap_list,
                         Vmm!Prev(g[i].mmap_list, list[n - i]) + 1, list[n - i]), list, i + 1)
    <3>1. IsEndOf(g[i].mmap_list, list, i)
      BY <1>5
    <3> HIDE DEF list
    <3>2. QED
      BY <1>1, <2>1, <3>1, InsertInFront
  <2>7. QED
    BY <1>5, <2>1, <2>5, <2>6
<1>6. n \in S
  <2> HIDE DEF S, n
  <2>1. 0 .. n \subseteq S
    BY <1>1, <1>4, <1>5, IntervalInduction
  <2>2. QED
    BY <1>1, <2>1
<1>7. Ok(g[n], n) /\ g[n] \in MmRecord
  BY <1>1, <1>3, <1>6
<1>8. g[n].mmap_list = list
  <2>1. \A j \in 1 .. n : (n - n) + j = j
    BY <1>1
  <2>2. \A j \in 1 .. n : g[n].mmap_list[j] = list[j]
    BY <1>7, <2>1 DEF IsEndOf
  <2>3. g[n].mmap_list = [j \in 1 .. n |-> g[n].mmap_list[j]]
    BY <1>7, SequenceIs DEF IsEndOf
  <2>4. list = [j \in 1 .. n |-> list[j]]
    BY <1>1, SequenceIs
  <2>5. QED
    BY <2>2, <2>3, <2>4
<1>9. g[n] = [mmap_list |-> g[n].mmap_list, mmap_cache |-> g[n].mmap_cache,
              map_count |-> g[n].map_count, loading |-> g[n].loading]
  BY <1>7 DEF MmRecord
<1>10. QED
  BY <1>1, <1>3, <1>7, <1>8, <1>9

-----------------------------------------------------------------------------
(* The steps of Vmm, and what follows for every process.                   *)

\* No process has areas at first.
LEMMA VmmInit == Vmm!Init => VmmInv
BY DEF Vmm!Init, VmmInv

\* mm_map adds an area in order, or leaves the areas as they were, or fails.
LEMMA MmMapKeeps ==
  ASSUME VmmInv, NEW m \in Two, mms[m] # NULL, NEW addr \in Vmm!Addr, NEW len \in Vmm!Addr,
         NEW flags \in SUBSET Vmm!Flags, NEW last \in BOOLEAN,
         Vmm!MmMap(m, addr, len, flags, last)
  PROVE  VmmInv'
<1> DEFINE start == Vmm!ROUNDDOWN(addr)
           end   == Vmm!ROUNDUP(Vmm!Plus(addr, len))
           v     == [vm_start |-> start, vm_end |-> end, vm_flags |-> flags]
           kept  == Vmm!Cached(mms[m], Vmm!find_vma(mms[m], start))
           ins   == Vmm!insert_vma_struct(kept, v)
<1>1. mms[m] \in Mm /\ mms \in [Two -> Mm \cup {NULL}] /\ halted \in BOOLEAN
  BY DEF VmmInv
<1>2. start \in Vmm!Addr /\ start % PGSIZE = 0
  BY RoundsDown
<1>3. end \in Vmm!Addr /\ end % PGSIZE = 0
  <2>1. Vmm!Plus(addr, len) \in Nat
    BY PlusWraps DEF Vmm!Addr
  <2>2. PGSIZE - 1 \in Nat
    BY VmmConstants
  <2>3. Vmm!Plus(Vmm!Plus(addr, len), PGSIZE - 1) \in Vmm!Addr
    BY <2>1, <2>2, PlusWraps
  <2>4. QED
    BY <2>3, RoundsDown DEF Vmm!ROUNDUP
<1>4. kept \in Mm /\ kept.mmap_list = mms[m].mmap_list /\ kept.loading = mms[m].loading
  <2>1. Vmm!find_vma(mms[m], start) \in ToSet(mms[m].mmap_list) \cup {NULL}
    <3> HIDE DEF start
    <3>1. QED
      BY <1>1, <1>2, FindsArea
  <2> HIDE DEF start
  <2>2. QED
    BY <1>1, <2>1, CachedKeeps
<1>5. CASE mms' = [mms EXCEPT ![m] = NULL] /\ UNCHANGED halted
  BY <1>1, <1>5 DEF VmmInv
<1>6. CASE mms' = [mms EXCEPT ![m] = kept] /\ halted' = TRUE
  <2> HIDE DEF kept
  <2>1. QED
    BY <1>1, <1>4, <1>6 DEF VmmInv
<1>7. CASE /\ Vmm!USER_ACCESS(start, end) /\ Vmm!MayInsert(mms[m].mmap_list, v)
           /\ mms' = [mms EXCEPT ![m] = [ins EXCEPT !.loading = ~last]]
           /\ UNCHANGED halted
  <2>1. v \in Vmm!Area
    BY <1>2, <1>3 DEF Vmm!Area
  <2>2. /\ v.vm_start = start /\ v.vm_end = end
        /\ Vmm!USER_ACCESS(v.vm_start, v.vm_end)
        /\ v.vm_start % PGSIZE = 0 /\ v.vm_end % PGSIZE = 0
    BY <1>2, <1>3, <1>7
  <2>3. Vmm!MayInsert(kept.mmap_list, v)
    BY <1>4, <1>7
  <2> HIDE DEF kept, v, start, end
  <2>4. ins \in Mm
    BY <1>4, <2>1, <2>2, <2>3, InsertKeeps
  <2> HIDE DEF ins
  <2> DEFINE full == [ins EXCEPT !.loading = ~last]
  <2>5. full = [mmap_list |-> ins.mmap_list, mmap_cache |-> ins.mmap_cache,
                map_count |-> Len(ins.mmap_list), loading |-> ~last]
    BY <2>4, MmParts
  <2>6. full \in Mm
    <3> HIDE DEF full
    <3>1. QED
      BY <2>4, <2>5, MmParts, MmOfParts
  <2> HIDE DEF full
  <2>7. mms' = [mms EXCEPT ![m] = full]
    BY <1>7 DEF full
  <2>8. QED
    BY <1>1, <1>7, <2>6, <2>7 DEF VmmInv
<1>8. QED
  BY <1>5, <1>6, <1>7 DEF Vmm!MmMap

\* What dup_mmap made is an mm_struct.
LEMMA LoadingEnds ==
  ASSUME NEW c \in MmRecord, NEW b
  PROVE  [c EXCEPT !.loading = b] =
            [mmap_list |-> c.mmap_list, mmap_cache |-> c.mmap_cache,
             map_count |-> c.map_count, loading |-> b]
BY DEF MmRecord

\* fork keeps the invariant, and gives the child the areas of the parent.
LEMMA ForkKeeps ==
  ASSUME VmmInv, NEW m \in Two, NEW child \in Two, Vmm!Fork(m, child)
  PROVE  /\ VmmInv'
         /\ mms'[child].mmap_list = mms[m].mmap_list
         /\ mms'[child].map_count = mms[m].map_count
<1> DEFINE new == [mmap_list |-> mms[m].mmap_list, mmap_cache |-> NULL,
                   map_count |-> mms[m].map_count, loading |-> FALSE]
<1>1. mms[m] \in Mm /\ mms \in [Two -> Mm \cup {NULL}] /\ halted \in BOOLEAN
  <2>1. mms \in [Two -> Mm \cup {NULL}] /\ halted \in BOOLEAN
    BY DEF VmmInv
  <2>2. mms[m] # NULL
    BY DEF Vmm!Fork, Vmm!Runs
  <2>3. QED
    BY <2>1, <2>2
<1>2. [Vmm!dup_mmap(Vmm!mm_create, mms[m]) EXCEPT !.loading = FALSE] = new
  <2> DEFINE copy == Vmm!dup_mmap(Vmm!mm_create, mms[m])
  <2>1. copy = [mmap_list |-> mms[m].mmap_list, mmap_cache |-> NULL,
                map_count |-> mms[m].map_count, loading |-> TRUE]
    BY <1>1, DupCopies
  <2>2. copy \in MmRecord
    <3>1. mms[m].mmap_list \in Seq(Vmm!Area) /\ mms[m].map_count \in Nat
      BY <1>1, MmParts
    <3>2. QED
      BY <2>1, <3>1 DEF MmRecord
  <2> HIDE DEF copy
  <2>3. [copy EXCEPT !.loading = FALSE] =
            [mmap_list |-> copy.mmap_list, mmap_cache |-> copy.mmap_cache,
             map_count |-> copy.map_count, loading |-> FALSE]
    BY <2>2, LoadingEnds, Zenon
  <2>4. /\ copy.mmap_list = mms[m].mmap_list /\ copy.mmap_cache = NULL
        /\ copy.map_count = mms[m].map_count
    BY <2>1
  <2>5. QED
    BY <2>3, <2>4, Zenon DEF copy
<1>3. mms' = [mms EXCEPT ![child] = new] /\ UNCHANGED halted
  <2> HIDE DEF new
  <2>1. QED
    BY <1>2, Zenon DEF Vmm!Fork
<1>4. new \in Mm
  <2>1. /\ mms[m].mmap_list \in Seq(Vmm!Area) /\ AreasSorted(mms[m].mmap_list)
        /\ mms[m].map_count = Len(mms[m].mmap_list)
    BY <1>1, MmParts
  <2>2. QED
    BY <2>1, MmOfParts
<1>5. new.mmap_list = mms[m].mmap_list /\ new.map_count = mms[m].map_count
  OBVIOUS
<1> HIDE DEF new
<1>6. mms'[child] = new
  BY <1>1, <1>3
<1>7. QED
  BY <1>1, <1>3, <1>4, <1>5, <1>6 DEF VmmInv

\* Every step of Vmm keeps the invariant.
LEMMA VmmNext ==
  ASSUME VmmInv, [Vmm!Next]_(Vmm!vars)
  PROVE  VmmInv'
<1>1. mms \in [Two -> Mm \cup {NULL}] /\ halted \in BOOLEAN
  BY DEF VmmInv
<1>2. CASE UNCHANGED Vmm!vars
  BY <1>2 DEF VmmInv, Vmm!vars
<1>3. ASSUME NEW m \in Two, Vmm!LoadBegins(m)
      PROVE  VmmInv'
  <2>1. Vmm!mm_create \in Mm
    <3>1. <<>> \in Seq(Vmm!Area) /\ Len(<<>>) = 0
      OBVIOUS
    <3>2. AreasSorted(<<>>)
      BY DEF AreasSorted
    <3>3. [mmap_list |-> <<>>, mmap_cache |-> NULL, map_count |-> Len(<<>>),
           loading |-> TRUE] \in Mm
      BY <3>1, <3>2, MmOfParts
    <3>4. QED
      BY <3>1, <3>3 DEF Vmm!mm_create
  <2>2. QED
    BY <1>1, <1>3, <2>1 DEF Vmm!LoadBegins, VmmInv
<1>4. ASSUME NEW m \in Two, NEW addr \in Vmm!Addr, NEW len \in Lens,
             NEW flags \in SegmentFlags, Vmm!MapSegment(m, addr, len, flags)
      PROVE  VmmInv'
  <2>1. len \in Vmm!Addr /\ flags \in SUBSET Vmm!Flags /\ FALSE \in BOOLEAN
    BY VmmConstants
  <2>2. mms[m] # NULL /\ Vmm!MmMap(m, addr, len, flags, FALSE)
    BY <1>4 DEF Vmm!MapSegment
  <2>3. QED
    BY <2>1, <2>2, MmMapKeeps
<1>5. ASSUME NEW m \in Two, Vmm!MapStack(m)
      PROVE  VmmInv'
  <2> DEFINE addr == USERTOP - USTACKSIZE
             flags == {"VM_READ", "VM_WRITE", "VM_STACK"}
  <2>1. addr \in Vmm!Addr /\ USTACKSIZE \in Vmm!Addr
    BY VmmConstants DEF Vmm!Addr
  <2>2. flags \in SUBSET Vmm!Flags /\ TRUE \in BOOLEAN
    BY DEF Vmm!Flags
  <2>3. mms[m] # NULL /\ Vmm!MmMap(m, addr, USTACKSIZE, flags, TRUE)
    BY <1>5 DEF Vmm!MapStack
  <2> HIDE DEF addr, flags
  <2>4. QED
    BY <2>1, <2>2, <2>3, MmMapKeeps
<1>6. ASSUME NEW m \in Two, NEW addr \in Vmm!Addr, Vmm!Fault(m, addr)
      PROVE  VmmInv'
  <2>1. mms[m] \in Mm
    BY <1>1, <1>6 DEF Vmm!Fault, Vmm!Runs
  <2>2. Vmm!find_vma(mms[m], addr) \in ToSet(mms[m].mmap_list) \cup {NULL}
    BY <2>1, FindsArea
  <2>3. Vmm!Cached(mms[m], Vmm!find_vma(mms[m], addr)) \in Mm
    BY <2>1, <2>2, CachedKeeps
  <2>4. QED
    BY <1>1, <1>6, <2>3 DEF Vmm!Fault, VmmInv
<1>7. ASSUME NEW m \in Two, NEW addr \in Vmm!Addr, NEW len \in Lens, NEW write \in BOOLEAN,
             Vmm!Check(m, addr, len, write)
      PROVE  VmmInv'
  <2>1. mms[m] \in Mm /\ len \in Vmm!Addr
    BY <1>1, <1>7, VmmConstants DEF Vmm!Check, Vmm!Runs
  <2>2. Vmm!user_mem_check(mms[m], addr, len, write) \in MemCheck
    BY <2>1, MemCheckExact
  <2>3. Vmm!user_mem_check(mms[m], addr, len, write).mm \in Mm
    BY <2>2 DEF MemCheck
  <2>4. QED
    BY <1>1, <1>7, <2>3 DEF Vmm!Check, VmmInv
<1>8. ASSUME NEW m \in Two, NEW child \in Two, Vmm!Fork(m, child)
      PROVE  VmmInv'
  BY <1>8, ForkKeeps
<1>9. ASSUME NEW m \in Two, Vmm!Exit(m)
      PROVE  VmmInv'
  BY <1>1, <1>9 DEF Vmm!Exit, VmmInv
<1>10. CASE Vmm!Panicked
  BY <1>2, <1>10 DEF Vmm!Panicked
<1>11. QED
  BY <1>2, <1>3, <1>4, <1>5, <1>6, <1>7, <1>8, <1>9, <1>10 DEF Vmm!Next

\* What the invariant says of find_vma and the cache.
LEMMA CacheSeen ==
  ASSUME NEW m \in Mm, NEW addr \in Vmm!Addr
  PROVE  LET at == {v \in ToSet(m.mmap_list) : Vmm!Covers(v, addr)}
         IN  Vmm!find_vma(m, addr) = IF at = {} THEN NULL ELSE CHOOSE v \in at : TRUE
<1> DEFINE at == {v \in ToSet(m.mmap_list) : Vmm!Covers(v, addr)}
<1>1. CASE /\ Vmm!find_vma(m, addr) = NULL
           /\ \A w \in ToSet(m.mmap_list) : ~Vmm!Covers(w, addr)
  BY <1>1
<1>2. CASE /\ Vmm!find_vma(m, addr) \in ToSet(m.mmap_list)
           /\ Vmm!Covers(Vmm!find_vma(m, addr), addr)
  <2>1. Vmm!find_vma(m, addr) \in at
    BY <1>2
  <2>2. \A v \in at : v = Vmm!find_vma(m, addr)
    BY <1>2, MmParts, CoversOnce
  <2>3. (CHOOSE v \in at : TRUE) \in at
    BY <2>1
  <2> HIDE DEF at
  <2>4. (CHOOSE v \in at : TRUE) = Vmm!find_vma(m, addr)
    BY <2>2, <2>3
  <2>5. QED
    BY <2>1, <2>4 DEF at
<1>3. QED
  BY <1>1, <1>2, FindsArea

\* The invariant implies what the run checks.
LEMMA VmmInvSound == VmmInv => Vmm!AreasSound
<1> SUFFICES ASSUME VmmInv PROVE Vmm!AreasSound
  OBVIOUS
<1>1. \A m \in Two : mms[m] # NULL => mms[m] \in Mm
  BY DEF VmmInv
<1>2. Vmm!TypeOK
  <2>1. \A m \in Mm : /\ m.mmap_list \in Seq(Vmm!Area)
                      /\ m.mmap_cache \in Vmm!Area \cup {NULL}
                      /\ m.map_count = Len(m.mmap_list) /\ m.loading \in BOOLEAN
    BY MmParts
  <2>2. QED
    BY <1>1, <2>1 DEF Vmm!TypeOK, VmmInv
<1>3. Vmm!AreasOrdered
  <2>1. \A m \in Mm : AreasSorted(m.mmap_list)
    BY MmParts
  <2>2. QED
    BY <1>1, <2>1 DEF Vmm!AreasOrdered, AreasSorted
<1>4. Vmm!CacheHarmless
  <2> SUFFICES ASSUME NEW m \in Two, mms[m] # NULL
               PROVE  /\ mms[m].mmap_cache \in Vmm!ToSet(mms[m].mmap_list) \cup {NULL}
                      /\ \A addr \in Vmm!Addr :
                            LET at == {v \in Vmm!ToSet(mms[m].mmap_list) : Vmm!Covers(v, addr)}
                            IN  Vmm!find_vma(mms[m], addr) =
                                    IF at = {} THEN NULL ELSE CHOOSE v \in at : TRUE
    BY DEF Vmm!CacheHarmless
  <2>1. mms[m] \in Mm
    BY <1>1
  <2>2. Vmm!ToSet(mms[m].mmap_list) = ToSet(mms[m].mmap_list)
    BY VmmSequences
  <2>3. mms[m].mmap_cache \in ToSet(mms[m].mmap_list) \cup {NULL}
    BY <2>1, MmParts
  <2>4. \A addr \in Vmm!Addr :
           LET at == {v \in ToSet(mms[m].mmap_list) : Vmm!Covers(v, addr)}
           IN  Vmm!find_vma(mms[m], addr) =
                   IF at = {} THEN NULL ELSE CHOOSE v \in at : TRUE
    BY <2>1, CacheSeen
  <2>5. QED
    BY <2>2, <2>3, <2>4
<1>5. Vmm!AnswersExact
  <2> SUFFICES ASSUME NEW m \in Two, Vmm!Runs(m), NEW addr \in Vmm!Addr, NEW len \in Lens,
                      NEW write \in BOOLEAN
               PROVE  Vmm!user_mem_check(mms[m], addr, len, write).ok <=>
                        /\ len > 0 /\ addr + len < AddrSpace
                        /\ \A a \in addr .. addr + len - 1 : Vmm!Accessible(m, a, write)
    BY DEF Vmm!AnswersExact
  <2>1. mms[m] \in Mm /\ len \in Vmm!Addr
    BY <1>1, VmmConstants DEF Vmm!Runs
  <2>2. \A a : Vmm!Accessible(m, a, write) <=> Allowed(mms[m].mmap_list, a, write)
    BY VmmSequences DEF Vmm!Accessible, Allowed, Vmm!Permits
  <2>3. QED
    BY <2>1, <2>2, BufferChecked
<1>6. QED
  BY <1>2, <1>3, <1>4, <1>5 DEF Vmm!AreasSound

VmmPart == part = "vmm" => VmmInv

\* The areas of every process stay sound.
LEMMA VmmInvariance == Spec => []VmmPart
<1>1. Init => VmmPart
  BY VmmInit DEF Init, VmmPart
<1>2. VmmPart /\ [Next]_vars => VmmPart'
  <2> SUFFICES ASSUME VmmPart, [Next]_vars, part' = "vmm"
               PROVE  VmmInv'
    BY DEF VmmPart
  <2>1. part = "vmm" /\ [Vmm!Next]_(Vmm!vars)
    BY DEF Next, PmmStep, VmmStep, SwapStep, vars, vmmvars, Vmm!vars
  <2>2. QED
    BY <2>1, VmmNext DEF VmmPart
<1>3. QED
  BY <1>1, <1>2, PTL DEF Spec

\* Whatever machine, segments and buffers there are, the areas of a process are
\* sorted whole pages of user space, apart from each other; the cache is one of
\* them; find_vma and user_mem_check answer as the bytes say; and a child has
\* the areas of its parent (insert_vma_struct, find_vma, mm_map,
\* user_mem_check and dup_mmap of vmm.c).
THEOREM AreasStayKept == Spec => AreasKept
<1>1. VmmPart => (part = "vmm" => Vmm!AreasSound)
  BY VmmInvSound DEF VmmPart
<1>2. VmmPart /\ [Next]_vars => [part = "vmm" => Vmm!ForksCopyAreas]_vars
  BY ForkKeeps DEF VmmPart, Vmm!ForksCopyAreas
<1>3. QED
  BY <1>1, <1>2, VmmInvariance, PTL DEF Spec, AreasKept
=============================================================================
