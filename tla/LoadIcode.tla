----------------------------- MODULE LoadIcode -----------------------------
(***************************************************************************)
(* The loop of load_icode, in kern/process/proc.c of lab5, over the        *)
(* segments of a program: each is given an area, pages, the bytes of the   *)
(* file and zeros for the rest of its memory, page by page, while pages    *)
(* may run out.                                                            *)
(*                                                                         *)
(* What a fresh page holds is Garbage until it is written.                 *)
(***************************************************************************)
EXTENDS Integers, Sequences, FiniteSets

CONSTANTS PGSIZE,
          Pages,                \* bound: pages of the user's address space
          MaxSize,              \* bound: bytes of a segment in memory
          Frames,               \* bound: free pages at the start
          NULL

LoadIcodeAssumption ==
    /\ PGSIZE \in Nat \ {0} /\ Pages \in Nat \ {0}
    /\ MaxSize \in 1 .. 99 /\ Frames \in Nat

VARIABLES program,              \* the program headers, in the order of p_va
          ph,                   \* the header that the loop is at
          phase,                \* where the loop is: "header", "copy", "bss";
                                \* or "loaded", or what it returned instead
          start, la,            \* of the code
          areas,                \* the areas of mm, as sets of page numbers
          pages,                \* what is mapped at each page: the bytes and
                                \* whether it can be written, or NULL
          free                  \* number of free pages
vars == <<program, ph, phase, start, la, areas, pages, free>>

Header == [load : BOOLEAN, va : 0 .. Pages * PGSIZE - 1, filesz : 0 .. MaxSize,
           memsz : 0 .. MaxSize, write : BOOLEAN]

Garbage == -1

\* Byte k of the file's part of segment i.
Byte(i, k) == 100 * i + k

PageOf(addr) == addr \div PGSIZE
ROUNDDOWN(addr) == addr - (addr % PGSIZE)

\* Headers with memory in the user's space, in order; other headers are empty.
Fits(h) == /\ h.va + h.memsz <= Pages * PGSIZE
           /\ h.filesz <= h.memsz + 1
           /\ ~h.load => h.memsz = 0 /\ h.filesz = 0

Init == /\ \E g, h \in {x \in Header : Fits(x)} :
              /\ g.load
              /\ g.va + g.memsz <= h.va
              /\ program = <<g, h>>
        /\ ph = 1 /\ phase = "header"
        /\ start = 0 /\ la = 0
        /\ areas = {}
        /\ pages = [p \in 0 .. Pages - 1 |-> NULL]
        /\ free = Frames

-----------------------------------------------------------------------------
fileEnd == program[ph].va + program[ph].filesz
memEnd == program[ph].va + program[ph].memsz

NextHeader == /\ ph' = ph + 1
              /\ phase' = IF ph = Len(program) THEN "loaded" ELSE "header"

\* bad_cleanup_mmap: exit_mmap frees the pages that lie in an area.
Cleanup(why) ==
    LET mapped == {p \in UNION areas : pages[p] # NULL}
    IN  /\ phase' = why
        /\ areas' = {}
        /\ pages' = [p \in DOMAIN pages |-> IF p \in mapped THEN NULL ELSE pages[p]]
        /\ free' = free + Cardinality(mapped)
        /\ UNCHANGED <<program, ph, start, la>>

\* A header that is passed over.
Skip == /\ phase = "header"
        /\ \/ ~program[ph].load
           \/ program[ph].filesz = 0
        /\ NextHeader
        /\ UNCHANGED <<program, start, la, areas, pages, free>>

Invalid == /\ phase = "header" /\ program[ph].load
           /\ program[ph].filesz > program[ph].memsz
           /\ Cleanup("E_INVAL_ELF")

\* The pages from ROUNDDOWN(p_va) to ROUNDUP(p_va + p_memsz).
SegmentArea(h) == PageOf(h.va) .. PageOf(h.va + h.memsz - 1)

\* mm_map.  Headers come in the order of their addresses, so that a new area
\* meets another, if any, with its start.
Map == /\ phase = "header" /\ program[ph].load
       /\ program[ph].filesz \in 1 .. program[ph].memsz
       /\ IF PageOf(program[ph].va) \in UNION areas
          THEN Cleanup("E_INVAL")
          ELSE /\ areas' = areas \cup {SegmentArea(program[ph])}
               /\ start' = program[ph].va
               /\ la' = ROUNDDOWN(program[ph].va)
               /\ phase' = "copy"
               /\ UNCHANGED <<program, ph, pages, free>>

\* No memory for the area's vma_struct.
MapFails == /\ phase = "header" /\ program[ph].load
            /\ program[ph].filesz \in 1 .. program[ph].memsz
            /\ PageOf(program[ph].va) \notin UNION areas
            /\ Cleanup("E_NO_MEM")

\* How many bytes of the page from la are filled from off on, when the part ends
\* at end: the rest is cut off.
Size(off, end) ==
    IF end < la + PGSIZE THEN PGSIZE - off - (la + PGSIZE - end) ELSE PGSIZE - off

Filled(bytes, off, size, content(_)) ==
    [k \in 0 .. PGSIZE - 1 |->
        IF k \in off .. off + size - 1 THEN content(k) ELSE bytes[k]]

\* One round of the loops over pages: pgdir_alloc_page at la, and the bytes.
FillPage(end, content(_)) ==
    LET off == start - la
        size == Size(off, end)
        fresh == [k \in 0 .. PGSIZE - 1 |-> Garbage]
    IN  \/ Cleanup("E_NO_MEM")
        \/ /\ free > 0
           /\ free' = free - 1
           /\ pages' = [pages EXCEPT ![PageOf(la)] =
                           [write |-> program[ph].write,
                            bytes |-> Filled(fresh, off, size, content)]]
           /\ start' = start + size
           /\ la' = la + PGSIZE
           /\ UNCHANGED <<program, ph, phase, areas>>

\* (3.6.1) The part of the segment that comes from the file.
CopyPage == /\ phase = "copy" /\ start < fileEnd
            /\ FillPage(fileEnd, LAMBDA k : Byte(ph, la + k - program[ph].va))

\* Mutant: the page is cleared to its end.
BssTailWhole ==
    LET last == PageOf(la) - 1
    IN  /\ phase = "copy" /\ start >= fileEnd
        /\ IF start < la /\ start < memEnd
           THEN /\ pages' = [pages EXCEPT ![last].bytes =
                     Filled(@, start + PGSIZE - la, la - start, LAMBDA k : 0)]
                /\ start' = la
           ELSE UNCHANGED <<pages, start>>
        /\ phase' = "bss"
        /\ UNCHANGED <<program, ph, la, areas, free>>

\* (3.6.2) The rest of the last page that was copied.
BssTail ==
    LET off == start + PGSIZE - la
        size == IF memEnd < la THEN PGSIZE - off - (la - memEnd) ELSE PGSIZE - off
        last == PageOf(la) - 1
    IN  /\ phase = "copy" /\ start >= fileEnd
        /\ IF start < la /\ start < memEnd
           THEN /\ pages' = [pages EXCEPT ![last].bytes =
                                Filled(@, off, size, LAMBDA k : 0)]
                /\ start' = start + size
           ELSE UNCHANGED <<pages, start>>
        /\ phase' = "bss"
        /\ UNCHANGED <<program, ph, la, areas, free>>

BssPage == /\ phase = "bss" /\ start < memEnd
           /\ FillPage(memEnd, LAMBDA k : 0)

SegmentDone == /\ phase = "bss" /\ start >= memEnd
               /\ NextHeader
               /\ UNCHANGED <<program, start, la, areas, pages, free>>

Next == \/ Skip \/ Invalid \/ Map \/ MapFails
        \/ CopyPage \/ BssTail \/ BssPage \/ SegmentDone

Spec == Init /\ [][Next]_vars

-----------------------------------------------------------------------------
Failed == {"E_INVAL_ELF", "E_INVAL", "E_NO_MEM"}

TypeOK ==
    /\ \A i \in DOMAIN program : program[i] \in Header
    /\ ph \in 1 .. Len(program) + 1
    /\ phase \in {"header", "copy", "bss", "loaded"} \cup Failed
    /\ start \in 0 .. Pages * PGSIZE /\ la \in 0 .. (Pages + 1) * PGSIZE
    /\ areas \subseteq SUBSET (0 .. Pages - 1)
    /\ \A p \in DOMAIN pages : pages[p] # NULL =>
          /\ pages[p].write \in BOOLEAN
          /\ \A k \in 0 .. PGSIZE - 1 : pages[p].bytes[k] \in Int
    /\ free \in 0 .. Frames

\* What the program finds at an address.
At(addr) == IF pages[PageOf(addr)] = NULL THEN NULL
            ELSE pages[PageOf(addr)].bytes[addr % PGSIZE]

\* A program that is loaded finds in the memory of each of its segments the
\* bytes of the file and then zeros, with the rights of that segment.
SegmentsInPlace ==
    phase = "loaded" =>
        \A i \in DOMAIN program :
            LET h == program[i] IN
            h.load /\ h.filesz > 0 =>
                \A k \in 0 .. h.memsz - 1 :
                    /\ pages[PageOf(h.va + k)] # NULL
                    /\ At(h.va + k) = IF k < h.filesz THEN Byte(i, k) ELSE 0
                    /\ pages[PageOf(h.va + k)].write = h.write

\* No page is mapped outside the areas, where exit_mmap would not find it, and
\* when loading fails, at whatever page, all pages are free again.
NoPageLost ==
    /\ \A p \in DOMAIN pages : pages[p] # NULL => p \in UNION areas
    /\ free + Cardinality({p \in DOMAIN pages : pages[p] # NULL}) = Frames
    /\ phase \in Failed => free = Frames

\* The loop's assertion, after the rest of the last page copied is cleared:
\* assert((end < la && start == end) || (end >= la && start == la)).
BssMeetsPage ==
    phase = "bss" => start = IF memEnd < la THEN memEnd ELSE la

\* Loading is right at every step and at its end, whether it succeeds or not.
LoadingSound == TypeOK /\ SegmentsInPlace /\ NoPageLost /\ BssMeetsPage

\* Not kept by the code, see "Disagreements" in README.md:
\* "copy TEXT/DATA section, build BSS parts in binary to memory space of
\* process": a program that is loaded has all the memory that its headers ask for.
BssBuilt ==
    phase = "loaded" =>
        \A i \in DOMAIN program : program[i].load =>
            \A k \in 0 .. program[i].memsz - 1 :
                pages[PageOf(program[i].va + k)] # NULL
=============================================================================
