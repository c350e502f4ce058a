------------------------------ MODULE MCPaging -----------------------------
(***************************************************************************)
(* Instances for TLC of the page tables of processes and of the kernel     *)
(* heap.  In each behaviour one of them runs; the variables of the other   *)
(* are NULL.                                                               *)
(***************************************************************************)
EXTENDS Integers, FiniteSets, Sequences, TLC

CONSTANTS Tasks,      \* processes with their mm_structs
          Objects,    \* what is on the heap
          Contents,   \* what is in a page of a process
          NFrames, NPages, NPTEENTRY, Programs,
          Sizes, SLOB_UNIT, PageUnits, BigblockSize, HeapPages,   \* of Slob
          None

VARIABLES running,                                          \* what runs
          phys, mm_of, mmaps, mm_count, stopped,            \* Paging
          units, next_unit, slobfree, bigblocks, freePages, \* Slob
          object, refused

pagingvars == <<phys, mm_of, mmaps, mm_count, stopped>>
slobvars   == <<units, next_unit, slobfree, bigblocks, freePages, object,
                refused>>
pagingheapvars == <<running, pagingvars, slobvars>>

PagingHeapSymmetry == Permutations(Tasks) \cup Permutations(Objects)
                \cup Permutations(Contents)

-----------------------------------------------------------------------------
\* Five pages in three tables: a program whose two areas share a table, and
\* one with a stack that grows down from the last table into the one before.
AreaOf(start, end, write) == [vm_start |-> start, vm_end |-> end, write |-> write]

MCPrograms ==
    {[areas |-> <<AreaOf(0, 1, FALSE), AreaOf(1, 2, TRUE)>>, loaded |-> <<0, 1>>],
     [areas |-> <<AreaOf(3, 5, TRUE)>>, loaded |-> <<4>>]}

Paging == INSTANCE Paging WITH
    Procs <- Tasks, Values <- Contents, NULL <- None,
    mm <- mm_of, areas <- mmaps, panicked <- stopped

Slob == INSTANCE Slob WITH
    NPages <- HeapPages, panicked <- refused,
    next <- next_unit, block <- object, NULL <- None

ASSUME PagingAndHeapAssumption == /\ Paging!PagingAssumption
                                  /\ Slob!SlobAssumption
                                  /\ Slob!OrdersSuffice

-----------------------------------------------------------------------------
NoPaging == /\ phys = None /\ mm_of = None /\ mmaps = None
            /\ mm_count = None /\ stopped = None

NoSlob == /\ units = None /\ next_unit = None /\ slobfree = None
          /\ bigblocks = None /\ freePages = None /\ object = None
          /\ refused = None

PagingHeapInit == \/ running = "paging" /\ Paging!Init /\ NoSlob
                  \/ running = "slob"   /\ Slob!Init   /\ NoPaging

PagingStep == /\ running = "paging" /\ Paging!Next
              /\ UNCHANGED <<running, slobvars>>

SlobStep == /\ running = "slob" /\ Slob!Next
            /\ UNCHANGED <<running, pagingvars>>

PagingHeapNext == PagingStep \/ SlobStep

PagingHeapSpec == PagingHeapInit /\ [][PagingHeapNext]_pagingheapvars

-----------------------------------------------------------------------------
\* Paging: every frame has one use and the count that goes with it.
PagesAccounted == running = "paging" => Paging!PagesAccounted

\* Paging implements VirtualMemory: processes that share no mm share no page.
MemoryIsPrivate ==
    /\ running = "paging" => Paging!VM!Init
    /\ [][running = "paging" => [Paging!VM!Next]_(Paging!VM!vars)]_pagingheapvars

\* Slob implements Heap, and loses no unit of it.
HeapIsKept ==
    /\ [](running = "slob" => Slob!HeapSound)
    /\ running = "slob" => Slob!Promised!Init
    /\ [][running = "slob" => [Slob!Promised!Next]_(Slob!Promised!vars)]_pagingheapvars
    /\ [][running = "slob" => Slob!GrowsWhenFull]_pagingheapvars
=============================================================================
