----------------------------- MODULE BootLoader -----------------------------
(***************************************************************************)
(* boot/bootmain.c of lab5: the kernel's segments are read from the disk   *)
(* in whole sectors, from the sector in which a segment begins to the one  *)
(* in which it ends; kern_init then clears what the linker calls bss.      *)
(*                                                                         *)
(* The layout is that of an ELF file with two segments in increasing       *)
(* order, as the linker makes it by tools/kernel.ld: each has a file       *)
(* offset that equals its address modulo the page, and only the last holds *)
(* bytes, its bss, that are not in the file.                               *)
(***************************************************************************)
EXTENDS Integers, Sequences

CONSTANTS SECTSIZE, PGSIZE,     \* bytes
          Pages,                \* bound: pages of memory for the kernel
          MaxSize,              \* bound: bytes of a segment
          Other                 \* a byte that is none of the kernel's file

BootLoaderAssumption ==
    /\ SECTSIZE \in Nat \ {0} /\ PGSIZE \in Nat \ {0} /\ PGSIZE % SECTSIZE = 0
    /\ Pages \in Nat /\ MaxSize \in Nat

Memory == 0 .. (Pages + 1) * PGSIZE - 1

VARIABLES segments,             \* the program headers: p_va, p_offset, p_filesz
                                \* and p_memsz
          mem,                  \* what is at an address: Other, 0 or the offset
                                \* of a byte of the file, from 1
          ph,                   \* the segment that is read; past the last: done
          va, end_va, secno,    \* of readseg; secno counts from the kernel's
                                \* first sector, which is number 1
          booted                \* kern_init has cleared the bss
vars == <<segments, mem, ph, va, end_va, secno, booted>>

\* A byte of the file stands for itself by its number.
Byte(offset) == offset + 1

-----------------------------------------------------------------------------
\* The linker.  The first page of the file has the headers.
Segments ==
    [va : 0 .. Pages * PGSIZE - 1, offset : PGSIZE .. (Pages + 1) * PGSIZE - 1,
     filesz : 1 .. MaxSize, memsz : 1 .. MaxSize]

\* In order, and in one page of memory only if also in one page of the file.
Linked(s, t) ==
    /\ s.memsz = s.filesz
    /\ s.va + s.memsz <= t.va /\ s.offset + s.filesz <= t.offset
    /\ (s.va + s.memsz - 1) \div PGSIZE = t.va \div PGSIZE =>
          t.offset - s.offset = t.va - s.va

Fits(s) == /\ s.va % PGSIZE = s.offset % PGSIZE
           /\ s.filesz <= s.memsz
           /\ s.va + s.memsz <= Pages * PGSIZE

\* Mutant: the sector is not the one that begins at va.
ReadsegUnrounded(i) == /\ va' = segments[i].va
                       /\ end_va' = segments[i].va + segments[i].memsz
                       /\ secno' = (segments[i].offset \div SECTSIZE) + 1

\* readseg(ph->p_va & 0xFFFFFF, ph->p_memsz, ph->p_offset), up to its loop.
Readseg(i) == /\ va' = segments[i].va - (segments[i].offset % SECTSIZE)
              /\ end_va' = segments[i].va + segments[i].memsz
              /\ secno' = (segments[i].offset \div SECTSIZE) + 1

Init == /\ \E s, t \in {r \in Segments : Fits(r)} :
              Linked(s, t) /\ segments = <<s, t>>
        /\ mem = [a \in Memory |-> Other]
        /\ ph = 0 /\ va = 0 /\ end_va = 0 /\ secno = 0
        /\ booted = FALSE

\* readsect(va, secno), into the memory that the segments are linked for.
\* Sector number 1 holds the file's first bytes.
Readsect == /\ ph \in DOMAIN segments /\ va < end_va
            /\ mem' = [a \in Memory |->
                          IF a \in va .. va + SECTSIZE - 1
                          THEN Byte((secno - 1) * SECTSIZE + a - va)
                          ELSE mem[a]]
            /\ va' = va + SECTSIZE /\ secno' = secno + 1
            /\ UNCHANGED <<segments, ph, end_va, booted>>

\* The next program header, from the loop of bootmain.
NextSegment == /\ va >= end_va
               /\ ph < Len(segments)
               /\ ph' = ph + 1
               /\ Readseg(ph')
               /\ UNCHANGED <<segments, mem, booted>>

\* Where the data ends and the bss begins.
edata == segments[Len(segments)].va + segments[Len(segments)].filesz
end == segments[Len(segments)].va + segments[Len(segments)].memsz

\* The jump to the kernel, and memset(edata, 0, end - edata) of kern_init.
KernInit == /\ ph = Len(segments) /\ va >= end_va /\ ~booted
            /\ mem' = [a \in Memory |-> IF a \in edata .. end - 1 THEN 0 ELSE mem[a]]
            /\ booted' = TRUE
            /\ UNCHANGED <<segments, ph, va, end_va, secno>>

Next == Readsect \/ NextSegment \/ KernInit

Spec == Init /\ [][Next]_vars

-----------------------------------------------------------------------------
\* The bytes of a segment that come from the file.
FromFile(i) == segments[i].va .. segments[i].va + segments[i].filesz - 1

InPlace(i) == \A a \in FromFile(i) :
                 mem[a] = Byte(segments[i].offset + a - segments[i].va)

\* The kernel starts with every byte of its segments in its place and a bss of
\* zeros, though whole sectors are read, with bytes of other segments in them,
\* and bss is read from the disk as well: "We'd write more to memory than asked,
\* but it doesn't matter -- we load in increasing order".
KernelAsLinked ==
    booted => /\ \A i \in DOMAIN segments : InPlace(i)
              /\ \A a \in edata .. end - 1 : mem[a] = 0
=============================================================================
