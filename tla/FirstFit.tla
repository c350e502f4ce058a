----------------------------- MODULE FirstFit ------------------------------
(***************************************************************************)
(* The first-fit manager of physical pages, kern/mm/default_pmm.c of lab5. *)
(* Free pages are kept as blocks of adjacent pages; free_list links the    *)
(* first pages of the blocks in ascending order, and the first page of a   *)
(* block carries its length in `property' and the flag PG_property.  The   *)
(* other pages keep the property they had last: it is stale, never read.   *)
(*                                                                         *)
(* Every operation runs with interrupts off (alloc_pages and free_pages of *)
(* pmm.c) and is one action.  Reference counts are not modelled.           *)
(***************************************************************************)
EXTENDS Integers, Sequences, SequencesExt, FiniteSets

CONSTANTS Regions,   \* the regions page_init finds, <<first page, length>>
          NULL       \* the pointer alloc_pages returns when it fails

\* page_init maps regions in ascending order; between two there is a gap.
RegionsAscend ==
    /\ Regions \in Seq(Nat \X (Nat \ {0}))
    /\ \A i, j \in DOMAIN Regions :
          i < j => Regions[i][1] + Regions[i][2] < Regions[j][1]

VARIABLES free_list,      \* first pages of the free blocks, in list order
          property,       \* page -> its property field
          PageProperty,   \* the pages with flag PG_property
          nr_free,        \* number of free pages
          page,           \* what the last alloc_pages returned
          held            \* the pages that belong to callers

vars == <<free_list, property, PageProperty, nr_free, page, held>>

Run(base, n) == base .. base + n - 1

Pages == UNION {Run(Regions[i][1], Regions[i][2]) : i \in DOMAIN Regions}

-----------------------------------------------------------------------------
\* default_init_memmap appends the region as one block.
InitMemmap(s, region) ==
    [list     |-> Append(s.list, region[1]),
     property |-> [s.property EXCEPT ![region[1]] = region[2]],
     nr_free  |-> s.nr_free + region[2]]

Init ==
    LET s == FoldLeft(InitMemmap, [list     |-> <<>>,
                                   property |-> [p \in Pages |-> 0],
                                   nr_free  |-> 0], Regions)
    IN  /\ free_list = s.list
        /\ property = s.property
        /\ PageProperty = ToSet(s.list)
        /\ nr_free = s.nr_free
        /\ page = NULL
        /\ held = {}

-----------------------------------------------------------------------------
\* The first n pages leave block i; what is left of it keeps its place.
Take(i, n) ==
    LET base == free_list[i]
        rest == base + n
    IN  IF property[base] > n
        THEN /\ free_list' = ReplaceAt(free_list, i, rest)
             /\ property' = [property EXCEPT ![rest] = property[base] - n]
             /\ PageProperty' = (PageProperty \cup {rest}) \ {base}
        ELSE /\ free_list' = RemoveAt(free_list, i)
             /\ PageProperty' = PageProperty \ {base}
             /\ UNCHANGED property

\* The blocks the search of default_alloc_pages stops at, were it the first.
Fits(n) == {i \in DOMAIN free_list : property[free_list[i]] >= n}

AllocPages(n) ==
    \/ /\ n <= nr_free
       /\ Fits(n) # {}
       /\ LET i == Min(Fits(n))
          IN  /\ Take(i, n)
              /\ page' = free_list[i]
              /\ held' = held \cup Run(free_list[i], n)
       /\ nr_free' = nr_free - n
    \/ /\ n > nr_free \/ Fits(n) = {}
       /\ page' = NULL
       /\ UNCHANGED <<free_list, property, PageProperty, nr_free, held>>

-----------------------------------------------------------------------------
\* Mutant: a block is not merged with the one that ends where it begins.
MergeUpwardsOnly(s, p) ==
    IF s.base + s.property[s.base] = p
    THEN [s EXCEPT !.property[s.base] = @ + s.property[p],
                   !.flags = @ \ {p},
                   !.list = RemoveFirst(@, p)]
    ELSE s

\* One pass of the merging loop: the block at p, if adjacent to the block at
\* base, is taken off the list and the two become one.
Merge(s, p) ==
    IF s.base + s.property[s.base] = p
    THEN [s EXCEPT !.property[s.base] = @ + s.property[p],
                   !.flags = @ \ {p},
                   !.list = RemoveFirst(@, p)]
    ELSE IF p + s.property[p] = s.base
    THEN [s EXCEPT !.property[p] = @ + s.property[s.base],
                   !.flags = @ \ {s.base},
                   !.base = p,
                   !.list = RemoveFirst(@, p)]
    ELSE s

\* Mutant: the block goes to the head of the list.
PlaceAtFront(s) == 1

\* Where the merged block goes: before the first block behind it.
PlaceFor(s) ==
    Min({i \in DOMAIN s.list : s.base + s.property[s.base] <= s.list[i]}
          \cup {Len(s.list) + 1})

\* default_free_pages, of pages that belong to the caller.
FreePages(base, n) ==
    /\ Run(base, n) \subseteq held
    /\ LET freed  == [base     |-> base,
                      list     |-> free_list,
                      property |-> [property EXCEPT ![base] = n],
                      flags    |-> PageProperty \cup {base}]
           merged == FoldLeft(Merge, freed, free_list)
       IN  /\ free_list' = InsertAt(merged.list, PlaceFor(merged), merged.base)
           /\ property' = merged.property
           /\ PageProperty' = merged.flags
    /\ nr_free' = nr_free + n
    /\ held' = held \ Run(base, n)
    /\ UNCHANGED page

\* Requests of more pages than there are are refused as those of one too many.
Next == \E n \in 1 .. Cardinality(Pages) + 1 :
            AllocPages(n) \/ \E base \in held : FreePages(base, n)

Spec == Init /\ [][Next]_vars

-----------------------------------------------------------------------------
Blocks == {Run(p, property[p]) : p \in ToSet(free_list)}

TypeOK == /\ free_list \in Seq(Pages)
          /\ property \in [Pages -> Nat]
          /\ PageProperty \subseteq Pages
          /\ nr_free \in Nat
          /\ page \in Pages \cup {NULL}
          /\ held \subseteq Pages

\* free_list ascends, blocks do not overlap and no two of them are adjacent:
\* merging, splitting and inserting keep the list as small and as ordered as
\* the next search and the next merge take it to be.
Coalesced ==
    \A i, j \in DOMAIN free_list :
        i < j => free_list[i] + property[free_list[i]] < free_list[j]

\* Every page is either in a block or with a caller, and nr_free counts the
\* former: no page is lost, handed out twice or both free and in use.
NothingLost ==
    /\ UNION Blocks = Pages \ held
    /\ nr_free = Cardinality(Pages \ held)

\* PG_property marks exactly the first pages of the blocks, so that the
\* assertion of default_free_pages holds for whatever callers give back.
FlagsMarkBlocks == PageProperty = ToSet(free_list)

\* The free list is well formed in every respect.
FreeListSound == TypeOK /\ Coalesced /\ NothingLost /\ FlagsMarkBlocks

\* First fit on blocks is an allocator of the lowest run of free pages, and
\* it fails only when there is no such run.
Abstract == INSTANCE PageAllocator WITH free <- UNION Blocks

=============================================================================
