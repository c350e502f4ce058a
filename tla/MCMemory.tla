------------------------------ MODULE MCMemory -----------------------------
(***************************************************************************)
(* Instances for TLC of parts of memory management that share no state     *)
(* with each other in these models: physical pages, memory areas and       *)
(* swapping.  In each behaviour one of them runs; the variables of the     *)
(* others are NULL.                                                        *)
(***************************************************************************)
EXTENDS Integers, FiniteSets, Sequences, TLC

CONSTANTS Regions,    \* the regions of physical pages
          Two,        \* two processes with their mm_structs, or two frames
          Three,      \* three pages
          Values,     \* what is in a page
          PGSIZE, AddrSpace, USERBASE, USERTOP, USTACKSIZE,
          SegmentFlags, Lens,   \* the machine of Vmm, and what it maps
          NULL

VARIABLES part,                                             \* what runs
          free_list, property, PageProperty, nr_free,       \* FirstFit
          page, held,
          mms, halted,                                      \* Vmm
          pte, tlb, free, content, pra_vaddr, pra_list,     \* Swap
          disk, faulting

pmmvars  == <<free_list, property, PageProperty, nr_free, page, held>>
vmmvars  == <<mms, halted>>
swapvars == <<pte, tlb, free, content, pra_vaddr, pra_list, disk, faulting>>
vars == <<part, pmmvars, vmmvars, swapvars>>

Symmetry == Permutations(Two) \cup Permutations(Three)
                \cup Permutations(Values)

-----------------------------------------------------------------------------
\* Page 0 and the page between the two regions are reserved.
MCRegions == << <<1, 4>>, <<6, 1>> >>

FirstFit == INSTANCE FirstFit

\* Segments of code, and of data.
MCSegmentFlags == {{"VM_READ", "VM_EXEC"}, {"VM_WRITE"}}

Vmm == INSTANCE Vmm WITH Mms <- Two

Swap == INSTANCE Swap WITH
    Pages <- Three, Frames <- Two, ReadErrors <- FALSE

ASSUME MemoryAssumption == /\ FirstFit!RegionsAscend
                           /\ Vmm!VmmAssumption
                           /\ Swap!SwapAssumption

-----------------------------------------------------------------------------
NoPmm == /\ free_list = NULL /\ property = NULL /\ PageProperty = NULL
         /\ nr_free = NULL /\ page = NULL /\ held = NULL

NoVmm == mms = NULL /\ halted = NULL

NoSwap == /\ pte = NULL /\ tlb = NULL /\ free = NULL /\ content = NULL
          /\ pra_vaddr = NULL /\ pra_list = NULL /\ disk = NULL
          /\ faulting = NULL

Init == \/ part = "pmm"  /\ FirstFit!Init /\ NoVmm /\ NoSwap
        \/ part = "vmm"  /\ Vmm!Init      /\ NoPmm /\ NoSwap
        \/ part = "swap" /\ Swap!Init     /\ NoPmm /\ NoVmm

PmmStep == /\ part = "pmm" /\ FirstFit!Next
           /\ UNCHANGED <<part, vmmvars, swapvars>>

VmmStep == /\ part = "vmm" /\ Vmm!Next
           /\ UNCHANGED <<part, pmmvars, swapvars>>

SwapStep == /\ part = "swap" /\ Swap!Next
            /\ UNCHANGED <<part, pmmvars, vmmvars>>

Next == PmmStep \/ VmmStep \/ SwapStep

Spec == Init /\ [][Next]_vars

-----------------------------------------------------------------------------
\* FirstFit: the block list is sorted and merged, nr_free and the flags agree
\* with it, and no page is lost or handed out twice.
FreeListSound == part = "pmm" => FirstFit!FreeListSound

\* FirstFit implements PageAllocator: alloc_pages returns the lowest run of
\* free pages that is long enough and fails only when there is none.
ImplementsAllocator ==
    /\ part = "pmm" => FirstFit!Abstract!Init
    /\ [][part = "pmm" => [FirstFit!Abstract!Next]_(FirstFit!Abstract!vars)]_vars

\* Vmm: the areas of a process are ordered, found, checked and copied rightly.
AreasKept ==
    /\ [](part = "vmm" => Vmm!AreasSound)
    /\ [][part = "vmm" => Vmm!ForksCopyAreas]_vars

\* Swap: a page that was swapped out comes back as it was, in fifo order.
SwapIsTransparent ==
    /\ [](part = "swap" => Swap!SwapSound)
    /\ [][part = "swap" => Swap!QueueMoves]_vars
    /\ [][part = "swap" => Swap!OnlyStoresChangePages]_vars
=============================================================================
