-------------------------------- MODULE Vmm --------------------------------
(***************************************************************************)
(* The virtual memory areas of a process (lab5/kern/mm/vmm.c): the sorted  *)
(* list of areas and the cache of the last one found, and the functions    *)
(* that insert, look up, check and copy areas.  An mm is loaded area by    *)
(* area by load_icode, the stack last; from then on it is read by page     *)
(* faults and system calls, copied by fork, and freed.                     *)
(*                                                                         *)
(* Addresses are those of a small machine: AddrSpace of them, after which  *)
(* additions wrap, in pages of PGSIZE.                                     *)
(***************************************************************************)
EXTENDS Integers, FiniteSets, SequencesExt

CONSTANTS Mms,             \* the mm_structs kmalloc hands out
          PGSIZE, AddrSpace, USERBASE, USERTOP, USTACKSIZE,
          SegmentFlags,    \* what the segments of a program may ask for
          Lens,            \* lengths of segments and buffers
          NULL

Addr == 0 .. AddrSpace - 1

Flags == {"VM_READ", "VM_WRITE", "VM_EXEC", "VM_STACK"}

Area == [vm_start : Addr, vm_end : Addr, vm_flags : SUBSET Flags]

VmmAssumption ==
    /\ {PGSIZE, AddrSpace, USERBASE, USERTOP, USTACKSIZE} \subseteq Nat \ {0}
    /\ USERTOP < AddrSpace /\ USERBASE + USTACKSIZE < USERTOP
    /\ \A n \in {AddrSpace, USERBASE, USERTOP, USTACKSIZE} : n % PGSIZE = 0
    /\ Lens \subseteq Addr
    /\ SegmentFlags \subseteq SUBSET Flags
    /\ NULL \notin Area

VARIABLES mms,             \* the mm behind each pointer, or NULL
          halted           \* an assertion has failed: panic()

vars == <<mms, halted>>

Plus(a, b) == (a + b) % AddrSpace

ROUNDDOWN(a) == a - (a % PGSIZE)

ROUNDUP(a) == ROUNDDOWN(Plus(a, PGSIZE - 1))

USER_ACCESS(start, end) == USERBASE <= start /\ start < end /\ end <= USERTOP

Covers(vma, addr) == vma.vm_start <= addr /\ addr < vma.vm_end

Init == /\ mms = [m \in Mms |-> NULL]
        /\ halted = FALSE

\* mm_create.  loading says that load_icode still runs.
mm_create == [mmap_list |-> <<>>, mmap_cache |-> NULL, map_count |-> 0,
              loading |-> TRUE]

-----------------------------------------------------------------------------
\* Mutant: the cache is trusted from its start on.
find_vmaTrustsCache(mm, addr) ==
    IF mm.mmap_cache # NULL /\ mm.mmap_cache.vm_start <= addr
    THEN mm.mmap_cache
    ELSE LET i == SelectInSeq(mm.mmap_list, LAMBDA vma : Covers(vma, addr))
         IN  IF i = 0 THEN NULL ELSE mm.mmap_list[i]

\* The area find_vma returns: the cached one if it covers addr, or else the
\* first in the list that does.
find_vma(mm, addr) ==
    IF mm.mmap_cache # NULL /\ Covers(mm.mmap_cache, addr)
    THEN mm.mmap_cache
    ELSE LET i == SelectInSeq(mm.mmap_list, LAMBDA vma : Covers(vma, addr))
         IN  IF i = 0 THEN NULL ELSE mm.mmap_list[i]

\* What find_vma leaves in the mm: an area that was found is cached.
Cached(mm, vma) == IF vma = NULL THEN mm ELSE [mm EXCEPT !.mmap_cache = vma]

\* How many areas insert_vma_struct walks past: up to the first that begins
\* after the new one.
Prev(list, vma) ==
    LET i == SelectInSeq(list, LAMBDA next : next.vm_start > vma.vm_start)
    IN  IF i = 0 THEN Len(list) ELSE i - 1

\* check_vma_overlap, for two neighbours.
InOrder(prev, next) == /\ prev.vm_start < prev.vm_end
                       /\ prev.vm_end <= next.vm_start
                       /\ next.vm_start < next.vm_end

\* The assertions of insert_vma_struct.
MayInsert(list, vma) ==
    LET n == Prev(list, vma)
    IN  /\ vma.vm_start < vma.vm_end
        /\ n > 0 => InOrder(list[n], vma)
        /\ n < Len(list) => InOrder(vma, list[n + 1])

insert_vma_struct(mm, vma) ==
    [mm EXCEPT !.mmap_list = InsertAt(@, Prev(@, vma) + 1, vma),
               !.map_count = @ + 1]

-----------------------------------------------------------------------------
\* The overlap mm_map looks for: only the area at the start of the new one.
Refused(mm, start, end) ==
    LET vma == find_vma(mm, start) IN vma # NULL /\ end > vma.vm_start

\* mm_map by load_icode.  -E_INVAL makes load_icode free the whole mm; what
\* mm_map does not see, insert_vma_struct's assertions do.  kmalloc cannot
\* return NULL: once swap_init_ok, alloc_page does not.
MmMap(m, addr, len, flags, last) ==
    LET mm    == mms[m]
        start == ROUNDDOWN(addr)
        end   == ROUNDUP(Plus(addr, len))
        vma   == [vm_start |-> start, vm_end |-> end, vm_flags |-> flags]
        found == Cached(mm, find_vma(mm, start))
    IN  IF ~USER_ACCESS(start, end) \/ Refused(mm, start, end)
        THEN mms' = [mms EXCEPT ![m] = NULL] /\ UNCHANGED halted
        ELSE IF ~MayInsert(mm.mmap_list, vma)
        THEN mms' = [mms EXCEPT ![m] = found] /\ halted' = TRUE
        ELSE /\ mms' = [mms EXCEPT ![m] = [insert_vma_struct(found, vma)
                                              EXCEPT !.loading = ~last]]
             /\ UNCHANGED halted

\* The kernel is not preempted: nothing else happens to any mm before
\* load_icode is through with one.
Loading == \E m \in Mms : mms[m] # NULL /\ mms[m].loading

\* load_icode begins: mm_create.
LoadBegins(m) == /\ mms[m] = NULL /\ ~Loading
                 /\ mms' = [mms EXCEPT ![m] = mm_create]
                 /\ UNCHANGED halted

\* A segment of the program.
MapSegment(m, addr, len, flags) ==
    /\ mms[m] # NULL /\ mms[m].loading
    /\ len > 0
    /\ MmMap(m, addr, len, flags, FALSE)

\* The stack, after the last segment.
MapStack(m) ==
    /\ mms[m] # NULL /\ mms[m].loading
    /\ MmMap(m, USERTOP - USTACKSIZE, USTACKSIZE,
             {"VM_READ", "VM_WRITE", "VM_STACK"}, TRUE)

-----------------------------------------------------------------------------
Runs(m) == mms[m] # NULL /\ ~Loading

\* A page fault looks up the area of an address.
Fault(m, addr) ==
    /\ Runs(m)
    /\ mms' = [mms EXCEPT ![m] = Cached(@, find_vma(@, addr))]
    /\ UNCHANGED halted

\* The tests user_mem_check makes of each area it passes.
Permits(vma, start, write) ==
    /\ (IF write THEN "VM_WRITE" ELSE "VM_READ") \in vma.vm_flags
    /\ write /\ "VM_STACK" \in vma.vm_flags => start >= vma.vm_start + PGSIZE

\* Where the walk of user_mem_check goes on after an area.
NextStart(vma) == vma.vm_end

\* One pass of the loop of user_mem_check: ok is FALSE once it has returned 0,
\* start where it goes on, mm has the area that was looked up last in its cache.
MemCheckPass(s, end, write) ==
    LET vma == find_vma(s.mm, s.start)
    IN  IF ~s.ok \/ s.start >= end THEN s
        ELSE IF vma # NULL /\ Permits(vma, s.start, write)
        THEN [ok |-> TRUE, start |-> NextStart(vma), mm |-> Cached(s.mm, vma)]
        ELSE [s EXCEPT !.ok = FALSE, !.mm = Cached(@, vma)]

\* user_mem_check: the verdict, and the mm.  Each pass but the last goes past
\* an area.
user_mem_check(mm, addr, len, write) ==
    LET end == Plus(addr, len)
    IN  IF ~USER_ACCESS(addr, end)
        THEN [ok |-> FALSE, start |-> addr, mm |-> mm]
        ELSE FoldLeft(LAMBDA s, i : MemCheckPass(s, end, write),
                      [ok |-> TRUE, start |-> addr, mm |-> mm],
                      [i \in 1 .. Len(mm.mmap_list) + 1 |-> i])

\* A system call checks a buffer of its caller.
Check(m, addr, len, write) ==
    /\ Runs(m)
    /\ mms' = [mms EXCEPT ![m] = user_mem_check(@, addr, len, write).mm]
    /\ UNCHANGED halted

\* dup_mmap: the areas of the parent, last to first, into an empty mm.
dup_mmap(to, from) ==
    FoldLeft(LAMBDA mm, vma : insert_vma_struct(mm, vma), to,
             Reverse(from.mmap_list))

\* copy_mm without CLONE_VM.
Fork(m, child) ==
    /\ Runs(m) /\ mms[child] = NULL
    /\ mms' = [mms EXCEPT ![child] =
                [dup_mmap(mm_create, mms[m]) EXCEPT !.loading = FALSE]]
    /\ UNCHANGED halted

\* The last user of an mm lets go of it: exit_mmap, mm_destroy.
Exit(m) == /\ Runs(m)
           /\ mms' = [mms EXCEPT ![m] = NULL]
           /\ UNCHANGED halted

Panicked == halted /\ UNCHANGED vars

Next == \/ /\ ~halted
           /\ \E m \in Mms :
                \/ LoadBegins(m)
                \/ \E addr \in Addr, len \in Lens, flags \in SegmentFlags :
                        MapSegment(m, addr, len, flags)
                \/ MapStack(m)
                \/ \E addr \in Addr : Fault(m, addr)
                \/ \E addr \in Addr, len \in Lens, write \in BOOLEAN :
                        Check(m, addr, len, write)
                \/ \E child \in Mms : Fork(m, child)
                \/ Exit(m)
        \/ Panicked

Spec == Init /\ [][Next]_vars

-----------------------------------------------------------------------------
\* The kernel's record of areas has the shape its types give it.
TypeOK ==
    /\ \A m \in Mms : mms[m] # NULL =>
        /\ mms[m].mmap_list \in Seq(Area)
        /\ mms[m].mmap_cache \in Area \cup {NULL}
        /\ mms[m].map_count = Len(mms[m].mmap_list)
        /\ mms[m].loading \in BOOLEAN
    /\ halted \in BOOLEAN

\* However areas are added, looked up and copied, the list of an mm is sorted
\* by address, its areas are whole pages of user space, and no two overlap
\* (insert_vma_struct, mm_map, dup_mmap).
AreasOrdered ==
    \A m \in Mms : mms[m] # NULL =>
        LET list == mms[m].mmap_list
        IN  /\ \A i, j \in DOMAIN list :
                    i < j => list[i].vm_end <= list[j].vm_start
            /\ \A i \in DOMAIN list :
                    /\ USER_ACCESS(list[i].vm_start, list[i].vm_end)
                    /\ list[i].vm_start % PGSIZE = 0
                    /\ list[i].vm_end % PGSIZE = 0

\* mmap_cache points at an area of the list, whatever was looked up and
\* found or not found before, and so find_vma answers as if there were no
\* cache: the area that covers the address, or none.
CacheHarmless ==
    \A m \in Mms : mms[m] # NULL =>
        /\ mms[m].mmap_cache \in ToSet(mms[m].mmap_list) \cup {NULL}
        /\ \A addr \in Addr :
                LET at == {vma \in ToSet(mms[m].mmap_list) : Covers(vma, addr)}
                IN  find_vma(mms[m], addr) =
                        IF at = {} THEN NULL ELSE CHOOSE vma \in at : TRUE

\* What a system call may do at one address of its caller, by the areas alone.
Accessible(m, addr, write) ==
    \E vma \in ToSet(mms[m].mmap_list) :
        /\ Covers(vma, addr)
        /\ (IF write THEN "VM_WRITE" ELSE "VM_READ") \in vma.vm_flags
        /\ write /\ "VM_STACK" \in vma.vm_flags
                => addr >= vma.vm_start + PGSIZE

\* user_mem_check steps from area to area and tests the guard page only where
\* it enters one; yet it says yes exactly when every single byte of the
\* buffer may be accessed, and never to an empty or wrapping buffer.
AnswersExact ==
    \A m \in Mms : Runs(m) =>
        \A addr \in Addr, len \in Lens, write \in BOOLEAN :
            user_mem_check(mms[m], addr, len, write).ok <=>
                /\ len > 0 /\ addr + len < AddrSpace
                /\ \A a \in addr .. addr + len - 1 : Accessible(m, a, write)

\* All of it: what mm_map, find_vma, user_mem_check and dup_mmap make of the
\* areas of a process is right at every address.
AreasSound == TypeOK /\ AreasOrdered /\ CacheHarmless /\ AnswersExact

\* A child has the areas of its parent: copying them backwards into a sorted
\* list loses, repeats and changes none.
ForksCopyAreas ==
    \A m, child \in Mms :
        Fork(m, child) => /\ mms'[child].mmap_list = mms[m].mmap_list
                          /\ mms'[child].map_count = mms[m].map_count

\* Not kept by the code, see "Disagreements" in README.md:
\* The assertions of check_vma_overlap: mm_map answers -E_INVAL to a range
\* that is taken and never inserts one.
AssertionsHold == ~halted

\* Not kept by the code, see "Disagreements" in README.md:
\* The comment of find_vma: an area is found for vm_start <= addr <= vm_end.
FindsAsCommented ==
    \A m \in Mms : mms[m] # NULL =>
        \A vma \in ToSet(mms[m].mmap_list) :
            \A addr \in vma.vm_start .. vma.vm_end :
                find_vma(mms[m], addr) # NULL
=============================================================================
