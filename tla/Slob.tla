-------------------------------- MODULE Slob -------------------------------
(***************************************************************************)
(* The kernel heap of lab5, mm/kmalloc.c: the circular list of free blocks *)
(* and the list of big blocks, which are whole pages.                      *)
(*                                                                         *)
(* Addresses are counted in units of SLOB_UNIT bytes.  The arena is at 0   *)
(* and the pages begin after it.  The kernel is not preempted and no       *)
(* interrupt handler calls kmalloc, so that a call is one action.          *)
(***************************************************************************)
EXTENDS Naturals, FiniteSets, FiniteSetsExt, SequencesExt

CONSTANTS Objects,      \* bound: what may be allocated at a time
          Sizes,        \* the sizes asked for, in bytes
          SLOB_UNIT, PageUnits,     \* bytes of a unit, units of a page
          BigblockSize,             \* sizeof(bigblock_t)
          NPages,
          NULL

PAGE_SIZE == SLOB_UNIT * PageUnits

SlobAssumption ==
    /\ {SLOB_UNIT, NPages} \subseteq Nat \ {0} /\ PageUnits \in Nat \ {0, 1}
    /\ Sizes \subseteq Nat \ {0}
    /\ BigblockSize \in SLOB_UNIT + 1 .. PAGE_SIZE - 2 * SLOB_UNIT
    /\ NULL \notin Nat /\ NULL \notin [at : Nat, size : Nat]

VARIABLES units, next,  \* the headers of blocks, by address
          slobfree,
          bigblocks,    \* a sequence of [bb, order, pages]
          freePages,
          block,        \* what kmalloc returned for each object: [at, size]
          panicked
vars == <<units, next, slobfree, bigblocks, freePages, block, panicked>>

arena == 0
Addresses == 0 .. (NPages + 1) * PageUnits - 1
PageAt(page) == page * PageUnits

Init == /\ units = [a \in Addresses |-> IF a = arena THEN 1 ELSE 0]
        /\ next = [a \in Addresses |-> arena]
        /\ slobfree = arena
        /\ bigblocks = <<>>
        /\ freePages = 1 .. NPages
        /\ block = [o \in Objects |-> NULL]
        /\ panicked = FALSE

SLOB_UNITS(size) == (size + SLOB_UNIT - 1) \div SLOB_UNIT

-----------------------------------------------------------------------------
(* The list of free blocks is h, a record [units, next, slobfree].  A word *)
(* that is a header no longer is data; nothing reads it, and it is 0.      *)

List == [units |-> units, next |-> next, slobfree |-> slobfree]

\* A walk along the list: slobfree, the blocks after it, and slobfree again.
Further(h, w) == IF Len(w) > 1 /\ Last(w) = h.slobfree THEN w
                 ELSE Append(w, h.next[Last(w)])

Walk(h) == FoldLeft(LAMBDA w, i : Further(h, w),
                    <<h.slobfree>>, [i \in 1 .. Cardinality(Addresses) |-> i])

\* Where in the walk there is room for n units: slob_alloc begins behind slobfree
\* and ends with it.
Room(h, n) == LET w == Walk(h) IN {i \in 2 .. Len(w) : h.units[w[i]] >= n}

\* The head of the first block with room is taken.
Take(h, n) ==
    LET i == Min(Room(h, n))
        prev == Walk(h)[i - 1]
        cur == Walk(h)[i]
    IN  IF h.units[cur] = n
        THEN [h EXCEPT !.next[prev] = h.next[cur], !.next[cur] = 0, !.slobfree = prev]
        ELSE [units |-> [h.units EXCEPT ![cur] = n, ![cur + n] = h.units[cur] - n],
              next |-> [h.next EXCEPT ![prev] = cur + n, ![cur + n] = h.next[cur],
                                      ![cur] = 0],
              slobfree |-> prev]

Taken(h, n) == Walk(h)[Min(Room(h, n))]

\* The block after which slob_free puts b: the list is sorted, but for the one
\* place where it wraps round.
Before(h, b) ==
    LET fits(cur) == \/ b > cur /\ b < h.next[cur]
                     \/ cur >= h.next[cur] /\ (b > cur \/ b < h.next[cur])
        w == Walk(h)
    IN  w[Min({i \in DOMAIN w : fits(w[i])})]

\* The block y, which begins where x ends, becomes part of it.
Joined(h, x, y) == [units |-> [h.units EXCEPT ![x] = @ + h.units[y], ![y] = 0],
                    next |-> [h.next EXCEPT ![x] = h.next[y], ![y] = 0],
                    slobfree |-> h.slobfree]

\* Mutant: a block is not joined with the one before it.
slob_freeUnjoined(h, b) ==
    LET cur == Before(h, b)
        after == h.next[cur]
        put == [units |-> h.units, next |-> [h.next EXCEPT ![b] = after, ![cur] = b],
                slobfree |-> cur]
    IN  IF b + h.units[b] = after THEN Joined(put, b, after) ELSE put

\* b, whose header has its units, becomes free, joined with its neighbours.
slob_free(h, b) ==
    LET cur == Before(h, b)
        after == h.next[cur]
        put == [units |-> h.units, next |-> [h.next EXCEPT ![b] = after, ![cur] = b],
                slobfree |-> cur]
        up == IF b + h.units[b] = after THEN Joined(put, b, after) ELSE put
    IN  IF cur + h.units[cur] = b THEN Joined(up, cur, b) ELSE up

\* slob_free with a size.
Freed(h, b, size) == slob_free([h EXCEPT !.units[b] = SLOB_UNITS(size)], b)

-----------------------------------------------------------------------------
\* What a call of slob_alloc for n units may lead to, with the list h and the
\* free pages ps: a page is only asked for when there is no room.
slob_alloc(h, ps, n) ==
    IF Room(h, n) # {}
    THEN {[heap |-> Take(h, n), pages |-> ps, at |-> Taken(h, n)]}
    ELSE IF ps = {} THEN {[heap |-> h, pages |-> ps, at |-> NULL]}
    ELSE {LET more == Freed(h, PageAt(page), PAGE_SIZE)
          IN  [heap |-> Take(more, n), pages |-> ps \ {page}, at |-> Taken(more, n)]
             : page \in ps}

Becomes(h) == units' = h.units /\ next' = h.next /\ slobfree' = h.slobfree

\* The assertion of slob_alloc.
Accepts(size) == size + SLOB_UNIT < PAGE_SIZE

\* kmalloc of less than a page: a block behind a header.
SmallAlloc(o, size) ==
    /\ size < PAGE_SIZE - SLOB_UNIT
    /\ block[o] = NULL /\ ~panicked
    /\ IF Accepts(size + SLOB_UNIT)
       THEN \E r \in slob_alloc(List, freePages, SLOB_UNITS(size + SLOB_UNIT)) :
                /\ Becomes(r.heap)
                /\ freePages' = r.pages
                /\ block' = IF r.at = NULL THEN block
                            ELSE [block EXCEPT ![o] = [at |-> r.at + 1, size |-> size]]
                /\ UNCHANGED panicked
       ELSE /\ panicked' = TRUE
            /\ UNCHANGED <<units, next, slobfree, freePages, block>>
    /\ UNCHANGED bigblocks

find_order(size) == Min({k \in 0 .. size : size \div 2 ^ k <= PAGE_SIZE})

Pages(first, order) == first .. first + 2 ^ order - 1

\* No size is asked for that has lost more than the pages hold when find_order
\* shifted it: see "Disagreements" in README.md.
OrdersSuffice ==
    \A size \in Sizes :
        size >= PAGE_SIZE - SLOB_UNIT =>
            /\ 2 ^ find_order(size) \in Nat
            /\ size <= 2 ^ find_order(size) * PAGE_SIZE

\* kmalloc of a page or more: pages, and a bigblock_t, which is given back when
\* there are no pages.
BigAlloc(o, size) ==
    LET order == find_order(size)
        Runs(ps) == {first \in ps : Pages(first, order) \subseteq ps}
    IN  /\ size >= PAGE_SIZE - SLOB_UNIT
        /\ block[o] = NULL /\ ~panicked
        /\ \E r \in slob_alloc(List, freePages, SLOB_UNITS(BigblockSize)) :
              \/ /\ r.at = NULL \/ Runs(r.pages) = {}
                 /\ Becomes(IF r.at = NULL THEN r.heap
                            ELSE Freed(r.heap, r.at, BigblockSize))
                 /\ freePages' = r.pages
                 /\ UNCHANGED <<bigblocks, block>>
              \/ /\ r.at # NULL
                 /\ \E first \in Runs(r.pages) :
                       /\ freePages' = r.pages \ Pages(first, order)
                       /\ bigblocks' = <<[bb |-> r.at, order |-> order,
                                          pages |-> PageAt(first)]>> \o bigblocks
                       /\ block' = [block EXCEPT ![o] =
                                       [at |-> PageAt(first), size |-> size]]
                 /\ Becomes(r.heap)
        /\ UNCHANGED panicked

Big(at) == {i \in DOMAIN bigblocks : bigblocks[i].pages = at}

\* kfree of pages, the ith of the big blocks.
FreeBig(o, i) ==
    LET big == bigblocks[i]
    IN  /\ bigblocks' = RemoveAt(bigblocks, i)
        /\ freePages' = freePages \cup Pages(big.pages \div PageUnits, big.order)
        /\ Becomes(Freed(List, big.bb, BigblockSize))

\* kfree of a block behind a header, which may happen to begin a page.
FreeSmall(o) == /\ Becomes(slob_free(List, block[o].at - 1))
                /\ UNCHANGED <<bigblocks, freePages>>

kfree(o) ==
    /\ block[o] # NULL /\ ~panicked
    /\ IF Big(block[o].at) # {} THEN FreeBig(o, Min(Big(block[o].at)))
       ELSE FreeSmall(o)
    /\ block' = [block EXCEPT ![o] = NULL]
    /\ UNCHANGED panicked

Next == \E o \in Objects :
            \/ \E size \in Sizes : SmallAlloc(o, size) \/ BigAlloc(o, size)
            \/ kfree(o)

Spec == Init /\ [][Next]_vars

-----------------------------------------------------------------------------
TypeOK == /\ units \in [Addresses -> Nat] /\ next \in [Addresses -> Addresses]
          /\ slobfree \in Addresses
          /\ freePages \subseteq 1 .. NPages
          /\ \A o \in Objects : block[o] # NULL => /\ block[o].at \in Addresses
                                                   /\ block[o].size \in Sizes

Units(b, n) == b .. b + n - 1

Listed == Range(Walk(List))

\* The list is in the order of addresses, but for the one place where it wraps
\* round, and no two blocks on it overlap or touch.
ListSorted ==
    /\ arena \in Listed
    /\ \A b \in Listed :
          \/ b + units[b] < next[b]
          \/ b = Max(Listed) /\ next[b] = arena

\* The small blocks that are held, behind their headers, and the bigblock_ts.
Small == {o \in Objects : block[o] # NULL /\ Big(block[o].at) = {}}
Held == {<<block[o].at - 1, SLOB_UNITS(block[o].size + SLOB_UNIT)>> : o \in Small}
            \cup {<<bigblocks[i].bb, SLOB_UNITS(BigblockSize)>> : i \in DOMAIN bigblocks}
Free == {<<b, units[b]>> : b \in Listed}

SlobPages ==
    (1 .. NPages) \ (freePages \cup UNION {Pages(bigblocks[i].pages \div PageUnits,
                                                bigblocks[i].order)
                                           : i \in DOMAIN bigblocks})

\* Every unit of the heap's pages is in one block, free or held: nothing is lost,
\* nothing is both.
UnitsAccounted ==
    /\ UNION {Units(s[1], s[2]) : s \in Held \cup Free}
          = {arena} \cup UNION {Units(PageAt(page), PageUnits) : page \in SlobPages}
    /\ \A s, r \in Held \cup Free :
          s # r => Units(s[1], s[2]) \cap Units(r[1], r[2]) = {}

\* kfree is not told the size of a small block: the header that it trusts is as
\* slob_alloc left it.
HeadersKept ==
    \A o \in Small : units[block[o].at - 1] = SLOB_UNITS(block[o].size + SLOB_UNIT)

\* The free list and the headers describe the whole heap.
HeapSound == TypeOK /\ ListSorted /\ UnitsAccounted /\ HeadersKept

\* The heap grows only for a request for which no free block is large enough.
GrowsWhenFull ==
    \A o \in Objects :
        block'[o] # block[o] /\ o \in Small' /\ SlobPages' # SlobPages
           => \A b \in Listed : units[b] < SLOB_UNITS(block'[o].size + SLOB_UNIT)

\* What the callers of kmalloc have: bytes of their own.
Promised == INSTANCE Heap WITH
    End <- (NPages + 1) * PAGE_SIZE,
    place <- [o \in Objects |->
                 IF block[o] = NULL THEN [from |-> 0, size |-> 0]
                 ELSE [from |-> block[o].at * SLOB_UNIT, size |-> block[o].size]]

\* Not kept by the code, see "Disagreements" in README.md:
\* The objects that are allocated, each with the bytes asked for, do not overlap.
ObjectsDisjoint ==
    \A o, q \in Objects : o # q => Promised!Bytes(o) \cap Promised!Bytes(q) = {}

\* Not kept by the code, see "Disagreements" in README.md:
\* kmalloc asks slob_alloc for nothing that its assertion refuses.
SizesAccepted == ~panicked
=============================================================================
