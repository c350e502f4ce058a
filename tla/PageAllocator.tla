--------------------------- MODULE PageAllocator ---------------------------
(***************************************************************************)
(* What the users of struct pmm_manager rely on (labcodes/lab5/kern/mm/    *)
(* pmm.h): alloc_pages(n) returns the lowest run of n free pages and fails *)
(* only if there is none, free_pages gives pages back.  FirstFit, which    *)
(* keeps a list of blocks, is shown to implement this specification, which *)
(* knows neither blocks nor lists.                                         *)
(***************************************************************************)
EXTENDS Integers, FiniteSetsExt

CONSTANTS Pages,    \* numbers of the pages that can be allocated
          NULL      \* what a failing alloc_pages returns

VARIABLES free,     \* the free pages
          page      \* what the last alloc_pages returned

vars == <<free, page>>

Run(base, n) == base .. base + n - 1

Init == free = Pages /\ page = NULL

Fits(n) == {base \in free : Run(base, n) \subseteq free}

AllocPages(n) ==
    \/ /\ Fits(n) # {}
       /\ page' = Min(Fits(n))
       /\ free' = free \ Run(page', n)
    \/ /\ Fits(n) = {}
       /\ page' = NULL
       /\ UNCHANGED free

FreePages(base, n) ==
    /\ Run(base, n) \subseteq Pages \ free
    /\ free' = free \cup Run(base, n)
    /\ UNCHANGED page

Next == \E n \in 1 .. Cardinality(Pages) + 1 :
            AllocPages(n) \/ \E base \in Pages : FreePages(base, n)

Spec == Init /\ [][Next]_vars

=============================================================================
