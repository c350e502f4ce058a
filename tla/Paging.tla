------------------------------ MODULE Paging -------------------------------
(***************************************************************************)
(* Page tables and the frames behind them: get_pte, page_insert,           *)
(* page_remove_pte, unmap_range, exit_range, copy_range and                *)
(* pgdir_alloc_page of lab5/kern/mm/pmm.c, under the page faults, forks,   *)
(* execs and exits of processes (do_pgfault, dup_mmap, exit_mmap, copy_mm, *)
(* do_execve, do_exit).  Addresses are counted in pages.  An mm_struct is  *)
(* named by the frame of its page directory.                               *)
(*                                                                         *)
(* A frame is alloc'd lowest first (FirstFit has the free list itself).    *)
(* With none left the kernel panics: alloc_pages calls swap_out with the   *)
(* null check_mm_struct, and faults.                                       *)
(***************************************************************************)
EXTENDS Integers, FiniteSets, SequencesExt

CONSTANTS Procs,
          NFrames,         \* physical frames
          NPages,          \* user pages of an address space
          NPTEENTRY,       \* entries of a page table
          Programs,        \* records [areas, loaded]: see PagingAssumption
          Values, NULL

Frames == 1 .. NFrames

Pages == 0 .. NPages - 1

\* The entry of a page that is mapped.
Entry == [frame : Frames, write : BOOLEAN]

Area == {vma \in [vm_start : Pages, vm_end : 1 .. NPages, write : BOOLEAN] :
            vma.vm_start < vma.vm_end}

\* The pages load_icode fills, in its order, lie in the areas it has mapped.
PagingAssumption ==
    /\ {NFrames, NPages, NPTEENTRY} \subseteq Nat \ {0}
    /\ IsFiniteSet(Procs)
    /\ NULL \notin Frames \cup Entry \cup Values
    /\ \A prog \in Programs :
        /\ prog.areas \in Seq(Area) /\ prog.loaded \in Seq(Pages)
        /\ \A a \in ToSet(prog.loaded) : \E vma \in ToSet(prog.areas) :
              vma.vm_start <= a /\ a < vma.vm_end

VARIABLES phys,            \* physical memory: see TypeOK
          mm,              \* the mm of each process, 0 for none
          areas,           \* mmap_list of each mm
          mm_count,        \* processes that share each mm
          panicked

vars == <<phys, mm, areas, mm_count, panicked>>

PDX(a) == a \div NPTEENTRY

PTX(a) == a % NPTEENTRY

Dirs == 0 .. PDX(NPages - 1)

NoTable == [i \in 0 .. NPTEENTRY - 1 |-> NULL]

NoDir == [i \in Dirs |-> 0]

Init == /\ phys = [free |-> Frames, ref |-> [f \in Frames |-> 0],
                   content |-> [f \in Frames |-> NULL],
                   dir |-> [f \in Frames |-> NoDir],
                   table |-> [f \in Frames |-> NoTable],
                   got |-> 0, ok |-> TRUE]
        /\ mm = [p \in Procs |-> 0]
        /\ areas = [f \in Frames |-> <<>>]
        /\ mm_count = [f \in Frames |-> 0]
        /\ panicked = FALSE

-----------------------------------------------------------------------------
(* The operations on physical memory take it as ph, and return it.  Nothing *)
(* matters of it once ok is FALSE.                                          *)

\* alloc_page: got is the frame.  v is what the frame happens to hold.
alloc_page(ph, v) ==
    IF ~ph.ok \/ ph.free = {} THEN [ph EXCEPT !.ok = FALSE]
    ELSE LET f == Min(ph.free)
         IN  [ph EXCEPT !.free = @ \ {f}, !.ref[f] = 0, !.content[f] = v,
                        !.got = f]

free_page(ph, f) == [ph EXCEPT !.free = @ \cup {f}, !.ref[f] = 0,
                               !.content[f] = NULL]

\* The frame of the page table that serves a page, 0 for none.
TableOf(ph, d, a) == ph.dir[d][PDX(a)]

\* The entry of a page: NULL or the frame and whether it may be written.
Pte(ph, d, a) ==
    IF TableOf(ph, d, a) = 0 THEN NULL ELSE ph.table[TableOf(ph, d, a)][PTX(a)]

\* get_pte with create: a page table for a, if there is none.
get_pte(ph, d, a) ==
    IF ~ph.ok \/ TableOf(ph, d, a) # 0 THEN ph
    ELSE LET new == alloc_page(ph, NULL)
         IN  IF ~new.ok THEN new
             ELSE [new EXCEPT !.ref[new.got] = 1, !.dir[d][PDX(a)] = new.got,
                              !.table[new.got] = NoTable]

\* page_remove_pte: the last reference takes the frame with it.
page_remove_pte(ph, d, a) ==
    IF Pte(ph, d, a) = NULL THEN ph
    ELSE LET f   == Pte(ph, d, a).frame
             dec == [ph EXCEPT !.ref[f] = @ - 1,
                               !.table[TableOf(ph, d, a)][PTX(a)] = NULL]
         IN  IF dec.ref[f] = 0 THEN free_page(dec, f) ELSE dec

\* page_insert: the new reference is counted before an old mapping goes, so
\* that a frame mapped again where it was survives.
page_insert(ph, d, f, a, write) ==
    LET got == get_pte(ph, d, a)
        inc == [got EXCEPT !.ref[f] = @ + 1]
        old == Pte(got, d, a)
        rid == IF old = NULL THEN inc
               ELSE IF old.frame = f THEN [inc EXCEPT !.ref[f] = @ - 1]
               ELSE page_remove_pte(inc, d, a)
    IN  IF ~got.ok THEN got
        ELSE [rid EXCEPT !.table[TableOf(rid, d, a)][PTX(a)] =
                            [frame |-> f, write |-> write]]

\* pgdir_alloc_page.
pgdir_alloc_page(ph, d, a, write, v) ==
    LET new == alloc_page(ph, v)
    IN  IF new.ok THEN page_insert(new, d, new.got, a, write) ELSE new

-----------------------------------------------------------------------------
\* The pages of an area.  Where there is no page table unmap_range and
\* copy_range go on at the next one: those pages have no entry.
PagesOf(vma) == [i \in 1 .. vma.vm_end - vma.vm_start |-> vma.vm_start + i - 1]

unmap_range(ph, d, vma) ==
    FoldLeft(LAMBDA acc, a : page_remove_pte(acc, d, a), ph, PagesOf(vma))

\* The directory entries of an area.
DirsOf(vma) == [k \in 1 .. PDX(vma.vm_end - 1) - PDX(vma.vm_start) + 1 |->
                  PDX(vma.vm_start) + k - 1]

FreeTable(ph, d, i) ==
    IF ph.dir[d][i] = 0 THEN ph
    ELSE [free_page(ph, ph.dir[d][i]) EXCEPT !.dir[d][i] = 0]

\* exit_range frees the page tables that serve an area.
exit_range(ph, d, vma) ==
    FoldLeft(LAMBDA acc, i : FreeTable(acc, d, i), ph, DirsOf(vma))

\* Mutant: the tables of an area go before the pages of the next are unmapped.
exit_mmapInterleaved(ph, d) ==
    FoldLeft(LAMBDA acc, vma : exit_range(unmap_range(acc, d, vma), d, vma),
             ph, areas[d])

\* exit_mmap: the pages of all areas first, for areas may share a table.
unmap_areas(ph, d) ==
    FoldLeft(LAMBDA acc, vma : unmap_range(acc, d, vma), ph, areas[d])

exit_areas(ph, d) ==
    FoldLeft(LAMBDA acc, vma : exit_range(acc, d, vma), ph, areas[d])

exit_mmap(ph, d) == exit_areas(unmap_areas(ph, d), d)

\* Mutant: the child maps the frame of its parent.
CopyPageShares(ph, to, from, a) ==
    LET pte == Pte(ph, from, a)
    IN  IF pte = NULL THEN ph ELSE page_insert(ph, to, pte.frame, a, pte.write)

\* The body of copy_range: a table for the child, a frame, the contents.
CopyPage(ph, to, from, a) ==
    LET pte   == Pte(ph, from, a)
        table == get_pte(ph, to, a)
        new   == alloc_page(table, ph.content[pte.frame])
    IN  IF pte = NULL THEN ph
        ELSE IF ~new.ok THEN new
        ELSE page_insert(new, to, new.got, a, pte.write)

copy_range(ph, to, from, vma) ==
    FoldLeft(LAMBDA acc, a : CopyPage(acc, to, from, a), ph, PagesOf(vma))

\* dup_mmap goes through the areas from the last to the first.
dup_mmap(ph, to, from) ==
    FoldLeft(LAMBDA acc, vma : copy_range(acc, to, from, vma),
             ph, Reverse(areas[from]))

\* setup_pgdir; put_pgdir is free_page.
setup_pgdir(ph) ==
    LET new == alloc_page(ph, NULL)
    IN  IF new.ok THEN [new EXCEPT !.dir[new.got] = NoDir] ELSE new

-----------------------------------------------------------------------------
\* Whether and how the areas of an mm let a page be used.
AreaAt(list, a) == {vma \in ToSet(list) : vma.vm_start <= a /\ a < vma.vm_end}

Writable(list, a) == \E vma \in AreaAt(list, a) : vma.write

\* Memory as an operation leaves it, or the panic it ends in.
Commit(ph) == IF ph.ok
              THEN phys' = [ph EXCEPT !.got = 0] /\ UNCHANGED panicked
              ELSE panicked' = TRUE /\ UNCHANGED phys

Panic == panicked' = TRUE /\ UNCHANGED phys

\* A process writes to a page that is mapped.
Write(p, a, v) ==
    /\ mm[p] # 0 /\ Pte(phys, mm[p], a) # NULL
    /\ Pte(phys, mm[p], a).write
    /\ phys' = [phys EXCEPT !.content[Pte(phys, mm[p], a).frame] = v]
    /\ UNCHANGED <<mm, areas, mm_count, panicked>>

\* do_pgfault.  trap() panics when it fails; so it does, for want of a swap
\* entry, if the page is there and its area allows the access.
do_pgfault(p, a, write, v) ==
    LET list == areas[mm[p]]
    IN  IF AreaAt(list, a) = {} \/ (write /\ ~Writable(list, a)) THEN Panic
        ELSE IF Pte(phys, mm[p], a) # NULL THEN Panic
        ELSE Commit(pgdir_alloc_page(phys, mm[p], a, Writable(list, a), v))

\* A process uses a page that is not mapped, or writes to one it may not.
Fault(p, a, write, v) ==
    /\ mm[p] # 0
    /\ Pte(phys, mm[p], a) # NULL => write /\ ~Pte(phys, mm[p], a).write
    /\ do_pgfault(p, a, write, v)
    /\ UNCHANGED <<mm, areas, mm_count>>

\* Memory after p lets go of its mm: the last one frees it.
Leave(p) ==
    IF mm[p] # 0 /\ mm_count[mm[p]] = 1
    THEN free_page(exit_mmap(phys, mm[p]), mm[p])
    ELSE phys

\* mm_destroy frees the areas.
LeaveAreas(p) == IF mm[p] # 0 /\ mm_count[mm[p]] = 1
                 THEN [areas EXCEPT ![mm[p]] = <<>>]
                 ELSE areas

LeaveCount(p) == IF mm[p] = 0 THEN mm_count
                 ELSE [mm_count EXCEPT ![mm[p]] = @ - 1]

\* load_icode gives the pages it fills frames at once, with the access their
\* area has.
LoadPages(ph, d, prog, v) ==
    FoldLeft(LAMBDA acc, a :
                pgdir_alloc_page(acc, d, a, Writable(prog.areas, a), v),
             ph, prog.loaded)

\* do_execve: the old memory goes, load_icode builds the new one.
Exec(p, prog, v) ==
    LET dir == setup_pgdir(Leave(p))
        new == LoadPages(dir, dir.got, prog, v)
        d   == dir.got
    IN  /\ Commit(new)
        /\ IF new.ok
           THEN /\ mm' = [mm EXCEPT ![p] = d]
                /\ areas' = [LeaveAreas(p) EXCEPT ![d] = prog.areas]
                /\ mm_count' = [LeaveCount(p) EXCEPT ![d] = 1]
           ELSE UNCHANGED <<mm, areas, mm_count>>

\* copy_mm without CLONE_VM.
Fork(p, child) ==
    LET dir == setup_pgdir(phys)
        d   == dir.got
        new == dup_mmap(dir, d, mm[p])
    IN  /\ mm[p] # 0 /\ mm[child] = 0
        /\ Commit(new)
        /\ IF new.ok
           THEN /\ mm' = [mm EXCEPT ![child] = d]
                /\ areas' = [areas EXCEPT ![d] = areas[mm[p]]]
                /\ mm_count' = [mm_count EXCEPT ![d] = 1]
           ELSE UNCHANGED <<mm, areas, mm_count>>

\* copy_mm with CLONE_VM.
Clone(p, child) ==
    /\ mm[p] # 0 /\ mm[child] = 0
    /\ mm' = [mm EXCEPT ![child] = mm[p]]
    /\ mm_count' = [mm_count EXCEPT ![mm[p]] = @ + 1]
    /\ UNCHANGED <<phys, areas, panicked>>

\* do_exit, as far as memory goes.
Exit(p) ==
    /\ mm[p] # 0
    /\ Commit(Leave(p))
    /\ mm' = [mm EXCEPT ![p] = 0]
    /\ mm_count' = LeaveCount(p)
    /\ areas' = LeaveAreas(p)

Panicked == panicked /\ UNCHANGED vars

Next == \/ /\ ~panicked
           /\ \E p \in Procs :
                \/ \E a \in Pages, v \in Values :
                        \/ Write(p, a, v)
                        \/ \E write \in BOOLEAN : Fault(p, a, write, v)
                \/ \E prog \in Programs, v \in Values : Exec(p, prog, v)
                \/ \E child \in Procs : Fork(p, child) \/ Clone(p, child)
                \/ Exit(p)
        \/ Panicked

Spec == Init /\ [][Next]_vars

-----------------------------------------------------------------------------
Live == {mm[p] : p \in Procs} \ {0}

\* The frames of the page tables of an mm; the mapped pages of it.
TablesOf(d) == {phys.dir[d][i] : i \in Dirs} \ {0}

MappedIn(d) == {a \in Pages : Pte(phys, d, a) # NULL}

\* The parts of the state have their types; a pte never names frame 0.
TypeOK ==
    /\ phys.free \subseteq Frames
    /\ phys.ref \in [Frames -> Nat]
    /\ phys.content \in [Frames -> Values \cup {NULL}]
    /\ phys.dir \in [Frames -> [Dirs -> Frames \cup {0}]]
    /\ phys.table \in [Frames -> [0 .. NPTEENTRY - 1 ->
                        Entry \cup {NULL}]]
    /\ mm \in [Procs -> Frames \cup {0}]
    /\ \A p \in Procs : mm[p] # 0 => mm_count[mm[p]] =
                            Cardinality({q \in Procs : mm[q] = mm[p]})

\* Every frame is free, or is one page directory, one page table, or the page
\* behind one page of one mm: none is lost by an exit, an exec or a fault, and
\* none serves twice (exit_mmap, exit_range, copy_range, page_insert).
FramesAccounted ==
    LET uses(f) == Cardinality(
            {<<d>> : d \in Live \cap {f}}
            \cup {<<d, "table", i>> : d \in {e \in Live : f \in TablesOf(e)},
                                      i \in {0}}
            \cup {x \in {<<d, "page", a>> : d \in Live, a \in Pages} :
                    /\ x[3] \in MappedIn(x[1])
                    /\ Pte(phys, x[1], x[3]).frame = f})
    IN  \A f \in Frames : uses(f) = IF f \in phys.free THEN 0 ELSE 1

\* The reference count of a frame is the number of entries that lead to it.
RefsExact ==
    \A f \in Frames :
        phys.ref[f] =
            Cardinality({d \in Live : f \in TablesOf(d)})
            + Cardinality({x \in Live \X Pages :
                            /\ x[2] \in MappedIn(x[1])
                            /\ Pte(phys, x[1], x[2]).frame = f})

\* What is mapped lies in an area of its mm and may be written if and only if
\* the area may, through fork as well: so no fault on a page that is present
\* is ever taken for one on a swapped page (do_pgfault).
MappingsFollowAreas ==
    \A d \in Live : \A a \in MappedIn(d) :
        /\ AreaAt(areas[d], a) # {}
        /\ Pte(phys, d, a).write <=> Writable(areas[d], a)

\* Frames, counts, page tables and areas tell the same.
PagesAccounted == /\ TypeOK
                  /\ FramesAccounted
                  /\ RefsExact
                  /\ MappingsFollowAreas

\* The memory of each mm, as its processes see it.
Visible(d, a) == IF d \in Live /\ a \in MappedIn(d)
                 THEN phys.content[Pte(phys, d, a).frame]
                 ELSE NULL

\* Frames and page tables give every process group private memory: a write is
\* seen by those that share the mm and by nobody else, a fork copies, and
\* nothing a process does to its own mappings changes another's pages.
VM == INSTANCE VirtualMemory WITH
        Spaces <- Frames,
        space  <- [p \in Procs |-> IF mm[p] = 0 THEN NULL ELSE mm[p]],
        mem    <- [d \in Frames |-> [a \in Pages |-> Visible(d, a)]]
=============================================================================
