-------------------------------- MODULE Swap -------------------------------
(***************************************************************************)
(* Swapping of lab3: alloc_pages calls swap_out until there is a frame,    *)
(* swap_fifo.c chooses the victim, do_pgfault brings a page in or makes a  *)
(* new one.  There is one mm, check_mm_struct, and the page tables of its  *)
(* area are there from the start (check_swap).  Every virtual page has a   *)
(* slot of its own on the disk, pra_vaddr / PGSIZE + 1.                    *)
(*                                                                         *)
(* The processor keeps translations in its TLB until they are invalidated; *)
(* a write to the disk may fail, and so may a read where ReadErrors.       *)
(***************************************************************************)
EXTENDS Integers, FiniteSets, SequencesExt

CONSTANTS Pages, Frames, Values, NULL,
          ReadErrors       \* whether the disk may fail to read

SwapAssumption == /\ IsFiniteSet(Frames) /\ Frames # {}
                  /\ NULL \notin Frames \cup Pages \cup Values
                  /\ "swapped" \notin Frames \cup {NULL}
                  /\ ReadErrors \in BOOLEAN

VARIABLES pte,             \* each page: NULL, the frame, or "swapped"
          tlb,             \* the translation the processor has, or NULL
          free,            \* frames on the free list
          content,         \* what is in each frame
          pra_vaddr,       \* the page each frame was last mapped at
          pra_list,        \* swappable frames, the list head's next first
          disk,            \* the slot of each page
          faulting         \* the page do_pgfault works for, or NULL

vars == <<pte, tlb, free, content, pra_vaddr, pra_list, disk, faulting>>

Present(a) == pte[a] \in Frames

Init == /\ pte = [a \in Pages |-> NULL]
        /\ tlb = [a \in Pages |-> NULL]
        /\ free = Frames
        /\ content \in [Frames -> Values]
        /\ pra_vaddr = [f \in Frames |-> NULL]
        /\ pra_list = <<>>
        /\ disk \in [Pages -> Values]
        /\ faulting = NULL

-----------------------------------------------------------------------------
\* Where the processor finds a page: its TLB is asked before the page table.
Translation(a) == IF tlb[a] # NULL THEN tlb[a]
                  ELSE IF Present(a) THEN pte[a] ELSE NULL

\* A store to a page, which leaves the translation in the TLB.
Store(a, v) ==
    /\ faulting = NULL /\ Translation(a) # NULL
    /\ content' = [content EXCEPT ![Translation(a)] = v]
    /\ tlb' = [tlb EXCEPT ![a] = Translation(a)]
    /\ UNCHANGED <<pte, free, pra_vaddr, pra_list, disk, faulting>>

\* The processor drops a translation to make room for another.
Evict(a) ==
    /\ tlb[a] # NULL
    /\ tlb' = [tlb EXCEPT ![a] = NULL]
    /\ UNCHANGED <<pte, free, content, pra_vaddr, pra_list, disk, faulting>>

\* Neither the TLB nor the page table has the page.
Fault(a) ==
    /\ faulting = NULL /\ Translation(a) = NULL
    /\ faulting' = a
    /\ UNCHANGED <<pte, tlb, free, content, pra_vaddr, pra_list, disk>>

-----------------------------------------------------------------------------
_fifo_map_swappable(list, f) == <<f>> \o list

\* _fifo_swap_out_victim: head->prev.
Victim(list) == Last(list)

\* list_del.
Unlinked(list, f) == RemoveFirst(list, f)

\* Mutant: the processor is not told.
tlb_invalidateNot(a) == tlb

tlb_invalidate(a) == [tlb EXCEPT ![a] = NULL]

\* alloc_pages finds no frame and calls swap_out.
NeedsFrame == faulting # NULL /\ free = {}

\* The assertions of swap_out and _fifo_swap_out_victim.
MaySwapOut == pra_list # <<>> /\ Present(pra_vaddr[Victim(pra_list)])

\* The slot of a page on the disk.
Slot(a) == a

\* swap_out of one frame, and the disk takes it.
SwapOut ==
    /\ NeedsFrame /\ MaySwapOut
    /\ LET f == Victim(pra_list)
           a == pra_vaddr[f]
       IN  /\ pra_list' = Unlinked(pra_list, f)
           /\ disk' = [disk EXCEPT ![Slot(a)] = content[f]]
           /\ pte' = [pte EXCEPT ![a] = "swapped"]
           /\ free' = free \cup {f}
           /\ tlb' = tlb_invalidate(a)
    /\ UNCHANGED <<content, pra_vaddr, faulting>>

\* The write fails: the frame is swappable again, and alloc_pages tries on.
SwapOutFails ==
    /\ NeedsFrame /\ MaySwapOut
    /\ LET f == Victim(pra_list)
       IN  pra_list' = _fifo_map_swappable(Unlinked(pra_list, f), f)
    /\ UNCHANGED <<pte, tlb, free, content, pra_vaddr, disk, faulting>>

\* What a frame that is mapped at a may hold: the page from the disk, or, for
\* a page that is new, whatever was in it.  swap_in does not report a failed
\* read.
Arrives(a, f, v) ==
    \/ pte[a] = "swapped" /\ v = disk[Slot(a)]
    \/ pte[a] = "swapped" /\ ReadErrors /\ v = content[f]
    \/ pte[a] = NULL /\ v = content[f]

\* do_pgfault goes on with a frame: pgdir_alloc_page or swap_in, page_insert,
\* swap_map_swappable, pra_vaddr.
PageIn ==
    /\ faulting # NULL
    /\ \E f \in free, v \in Values :
        /\ Arrives(faulting, f, v)
        /\ free' = free \ {f}
        /\ content' = [content EXCEPT ![f] = v]
        /\ pte' = [pte EXCEPT ![faulting] = f]
        /\ tlb' = tlb_invalidate(faulting)
        /\ pra_list' = _fifo_map_swappable(pra_list, f)
        /\ pra_vaddr' = [pra_vaddr EXCEPT ![f] = faulting]
    /\ faulting' = NULL
    /\ UNCHANGED disk

Next == \/ \E a \in Pages : \/ \E v \in Values : Store(a, v)
                           \/ Evict(a)
                           \/ Fault(a)
        \/ SwapOut
        \/ SwapOutFails
        \/ PageIn

Spec == Init /\ [][Next]_vars

-----------------------------------------------------------------------------
\* The parts of the state have their types.
TypeOK ==
    /\ pte \in [Pages -> Frames \cup {NULL, "swapped"}]
    /\ tlb \in [Pages -> Frames \cup {NULL}]
    /\ free \subseteq Frames
    /\ content \in [Frames -> Values]
    /\ pra_vaddr \in [Frames -> Pages \cup {NULL}]
    /\ pra_list \in Seq(Frames)
    /\ disk \in [Pages -> Values]
    /\ faulting \in Pages \cup {NULL}

\* The FIFO list has every frame in use exactly once, and pra_vaddr leads
\* from each back to the page that is in it; so swap_out unmaps the page it
\* writes, and its assertions hold also when every frame is taken.
ListExact ==
    /\ IsInjective(pra_list)
    /\ ToSet(pra_list) = Frames \ free
    /\ \A f \in Frames \ free : pte[pra_vaddr[f]] = f
    /\ \A a \in Pages : Present(a) => pte[a] \notin free /\ pra_vaddr[pte[a]] = a
    /\ NeedsFrame => MaySwapOut

\* The processor holds no translation to a frame that has been given to
\* another page: whatever unmaps a page also invalidates it.
TlbAgrees == \A a \in Pages : tlb[a] # NULL => tlb[a] = pte[a]

\* The list, the page table, the frames and the processor agree.
SwapSound == TypeOK /\ ListExact /\ TlbAgrees

\* The pages in memory, the one that has been there longest first.
Queue == [i \in DOMAIN pra_list |-> pra_vaddr[Reverse(pra_list)[i]]]

\* First in, first out: a page that comes in goes to the end of the queue; a
\* page goes out only from its front and only when memory is full, or moves
\* to the end when the disk refuses it.  No access in between matters.
QueueMoves ==
    \/ Queue' = Queue
    \/ faulting # NULL /\ Queue' = Append(Queue, faulting)
    \/ /\ free = {}
       /\ \/ Queue' = Tail(Queue) /\ pte'[Head(Queue)] = "swapped"
          \/ Queue' = Append(Tail(Queue), Head(Queue))

\* What the program sees in a page, wherever the page is; NULL before it is
\* first used.
Visible(a) == IF Translation(a) # NULL THEN content[Translation(a)]
              ELSE IF pte[a] = "swapped" THEN disk[Slot(a)]
              ELSE NULL

\* A few frames and a disk are a memory of as many pages as one likes: a page
\* that went to the disk and came back, whenever and into whatever frame,
\* holds what was stored to it last; only a store to it changes what the
\* program sees (swap_out, swap_in, tlb_invalidate).
OnlyStoresChangePages ==
    \A a \in Pages : Visible(a) # NULL /\ Visible(a)' # Visible(a) =>
            \E v \in Values : Store(a, v)
=============================================================================
