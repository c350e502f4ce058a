------------------------------- MODULE Mksfs -------------------------------
(***************************************************************************)
(* tools/mksfs.c of lab8, the host program that writes a directory tree    *)
(* into the image of a Simple File System, and the mount of that image by  *)
(* the kernel (fs/sfs/sfs_fs.c).                                           *)
(*                                                                         *)
(* An action is what happens to one entry that readdir returns; the host's *)
(* tree is whatever the actions say it is.  What a file contains is left   *)
(* out, and sizes are counted in small blocks.                             *)
(***************************************************************************)
EXTENDS Naturals, FiniteSets, FiniteSetsExt, SequencesExt

CONSTANTS Files, Dirs, Links,       \* host inodes below the root
          home,                     \* the host's root of the tree, outside them
          Names, NameLen,           \* names of entries, and their lengths
          FileSizes,                \* bytes in a file
          ninos,                    \* blocks in the image
          SFS_BLKSIZE, SFS_BLKBITS, \* bytes in a block, and its bits
          SFS_NDIRECT, SFS_BLK_NENTRY, SFS_LN_NBLKS,
          SFS_MAX_FNAME_LEN,
          InoSize,                  \* bytes of a block number in an entry
          MaxEntries                \* bound: host entries in the tree

SFS_BLKN_ROOT == 1
SFS_BLKN_FREEMAP == 2
CeilDiv(a, b) == (a + b - 1) \div b
FirstIno == SFS_BLKN_FREEMAP + CeilDiv(ninos, SFS_BLKBITS)

MksfsAssumption ==
    /\ {SFS_BLKSIZE, SFS_BLKBITS} \subseteq Nat \ {0}
    /\ {ninos, SFS_NDIRECT, SFS_BLK_NENTRY, SFS_LN_NBLKS, MaxEntries} \subseteq Nat
    /\ SFS_BLK_NENTRY > 0 /\ FirstIno < ninos
    /\ home \notin Files \cup Dirs \cup Links

VARIABLES img,          \* struct sfs_fs: next_ino, unused_blocks, and the inodes
          entries,      \* of each directory: [name, stored, ino], as written
          inodes,       \* the cache of inodes: what each host inode became
          path,         \* directories that are being read: [real, name]
          host,         \* what was met: [dir, name, real]
          disk,         \* superblock and free map once they are written
          phase         \* "reading", "closed", "mounted", or how it failed
vars == <<img, entries, inodes, path, host, disk, phase>>

-----------------------------------------------------------------------------
NewInode(type) == [type |-> type, nlinks |-> 0, size |-> 0, data |-> <<>>,
                   index |-> <<>>]

\* sfs_alloc_ino n times.
Alloc(im, n) == [im EXCEPT !.next_ino = @ + n, !.unused_blocks = @ - n]

\* The index blocks that append_block allocates for block number nblks.
IndexBlocks(nblks) ==
    LET l1 == SFS_NDIRECT + SFS_BLK_NENTRY
    IN  IF nblks = SFS_NDIRECT THEN 1
        ELSE IF nblks = l1 THEN 2
        ELSE IF nblks > l1 /\ (nblks - l1) % SFS_BLK_NENTRY = 0 THEN 1
        ELSE 0

Following(first, n) == [i \in 1 .. n |-> first + i - 1]

\* sfs_alloc_ino for size bytes of data, and append_block.
AppendBlock(im, ino, size) ==
    LET k == IndexBlocks(Len(im.inode[ino].data))
    IN  [Alloc(im, 1 + k) EXCEPT
            !.inode[ino].data = Append(@, im.next_ino),
            !.inode[ino].index = @ \o Following(im.next_ino + 1, k),
            !.inode[ino].size = @ + size]

\* open_file and open_link: the bytes of a file, block by block.
AppendFile(im, ino, bytes) ==
    FoldLeft(LAMBDA i, b : AppendBlock(i, ino, Min({SFS_BLKSIZE, bytes - (b - 1) * SFS_BLKSIZE})),
             im, [b \in 1 .. CeilDiv(bytes, SFS_BLKSIZE) |-> b])

\* The entry that add_entry writes: as many bytes as the name field has, and
\* the block number is among them.
Entry(name, ino) ==
    [name |-> name, ino |-> ino,
     stored |-> Min({NameLen[name], SFS_MAX_FNAME_LEN + 1 - InoSize})]

\* Mutant: a file is given its one link, however many entries name it.
LinkedOnce(im, ino) ==
    [im EXCEPT !.inode[ino].nlinks = IF im.inode[ino].type = "FILE" THEN 1 ELSE @ + 1]

Linked(im, ino) == [im EXCEPT !.inode[ino].nlinks = @ + 1]

\* add_entry of a name for ino in the directory dir, where s is [img, entries].
AddEntry(s, dir, ino, name) ==
    [img |-> Linked(AppendBlock(s.img, dir, SFS_MAX_FNAME_LEN + 1), ino),
     entries |-> [s.entries EXCEPT ![dir] = Append(@, Entry(name, ino))]]

\* alloc_cache_inode in the next free block.
AllocInode(im, type) ==
    [Alloc(im, 1) EXCEPT
        !.inode = [i \in DOMAIN im.inode \cup {im.next_ino} |->
                    IF i = im.next_ino THEN NewInode(type) ELSE im.inode[i]]]

\* The start of open_dir.
OpenDir(s, ino, parent) ==
    AddEntry(AddEntry([s EXCEPT !.entries = [d \in DOMAIN @ \cup {ino} |->
                                    IF d = ino THEN <<>> ELSE @[d]]],
                      ino, ino, "."), ino, parent, "..")

-----------------------------------------------------------------------------
\* create_sfs, and open_dir of the root as far as its first entries.
Init ==
    LET root == [next_ino |-> FirstIno, unused_blocks |-> ninos - FirstIno,
                 inode |-> [i \in {SFS_BLKN_ROOT} |-> NewInode("DIR")]]
        s == OpenDir([img |-> root, entries |-> [d \in {} |-> <<>>]],
                     SFS_BLKN_ROOT, SFS_BLKN_ROOT)
    IN  /\ img = s.img
        /\ entries = s.entries
        /\ inodes = [r \in {home} |-> SFS_BLKN_ROOT]
        /\ path = <<[real |-> home, name |-> "/"]>>
        /\ host = {}
        /\ disk = [unused_blocks |-> 0, freemap |-> {}]
        /\ phase = "reading"

Known(real) == real \in DOMAIN inodes
Current == Last(path).real

\* Neither bug("out of disk space") nor bug("file is too big") has stopped it.
Room(im) == /\ im.next_ino <= ninos
            /\ \A i \in DOMAIN im.inode : Len(im.inode[i].data) <= SFS_LN_NBLKS

\* The state becomes s unless the disk is full; then mksfs exits.
Becomes(s) ==
    IF Room(s.img)
    THEN /\ img' = s.img /\ entries' = s.entries
         /\ UNCHANGED phase
    ELSE /\ phase' = "bug"
         /\ UNCHANGED <<img, entries>>

Cached(real) == inodes' = [r \in DOMAIN inodes \cup {real} |->
                            IF r = real THEN img.next_ino ELSE inodes[r]]

\* readdir of the current directory returns name, which is the host's real.
ReadDir(name, real) ==
    /\ phase = "reading"
    /\ Cardinality(host) < MaxEntries
    /\ \A e \in host : e.dir = Current => e.name # name
    /\ host' = host \cup {[dir |-> Current, name |-> name, real |-> real]}
    /\ UNCHANGED disk

\* search_cache_inode of add_file.
Found(real) == Known(real)

\* add_file of a file met for the first time, or of one more link to it.
AddFile(name, real) ==
    /\ ReadDir(name, real)
    /\ IF Found(real)
       THEN /\ Becomes(AddEntry([img |-> img, entries |-> entries],
                                inodes[Current], inodes[real], name))
            /\ UNCHANGED inodes
       ELSE \E bytes \in FileSizes :
            /\ Becomes(AddEntry([img |-> AppendFile(AllocInode(img, "FILE"),
                                                    img.next_ino, bytes),
                                 entries |-> entries],
                                inodes[Current], img.next_ino, name))
            /\ Cached(real)
    /\ UNCHANGED path

\* add_link; its target takes one block.
AddLink(name, real) ==
    /\ ReadDir(name, real)
    /\ Becomes(AddEntry([img |-> AppendFile(AllocInode(img, "LINK"), img.next_ino, 1),
                         entries |-> entries],
                        inodes[Current], img.next_ino, name))
    /\ Cached(real)
    /\ UNCHANGED path

\* add_dir as far as the loop of open_dir; a directory has one name.
AddDir(name, real) ==
    /\ ~ Known(real)
    /\ ReadDir(name, real)
    /\ Becomes(OpenDir([img |-> AllocInode(img, "DIR"), entries |-> entries],
                       img.next_ino, inodes[Current]))
    /\ Cached(real)
    /\ path' = Append(path, [real |-> real, name |-> name])

\* The directory ends, and add_dir enters it in its parent.
EndDir ==
    /\ phase = "reading" /\ Len(path) > 1
    /\ LET parent == path[Len(path) - 1].real
       IN  Becomes(AddEntry([img |-> img, entries |-> entries], inodes[parent],
                            inodes[Current], Last(path).name))
    /\ path' = Front(path)
    /\ UNCHANGED <<inodes, host, disk>>

-----------------------------------------------------------------------------
\* The bits set in the block of the free map whose first bit is i.
FreeBits(i) ==
    LET start == IF i < img.next_ino THEN img.next_ino - i ELSE 0
        end == IF i + SFS_BLKBITS > ninos THEN ninos - i ELSE SFS_BLKBITS
    IN  IF i + SFS_BLKBITS > img.next_ino
        THEN {i + j : j \in start .. end - 1} ELSE {}

\* close_sfs, when the root has been read.
Close ==
    /\ phase = "reading" /\ Len(path) = 1
    /\ disk' = [unused_blocks |-> img.unused_blocks,
                freemap |-> UNION {FreeBits(b * SFS_BLKBITS) :
                                    b \in 0 .. CeilDiv(ninos, SFS_BLKBITS) - 1}]
    /\ phase' = "closed"
    /\ UNCHANGED <<img, entries, inodes, path, host>>

\* sfs_do_mount of the kernel asserts that the superblock agrees with the map.
Mount ==
    /\ phase = "closed"
    /\ phase' = IF Cardinality(disk.freemap) = disk.unused_blocks
                THEN "mounted" ELSE "panicked"
    /\ UNCHANGED <<img, entries, inodes, path, host, disk>>

Next == \/ \E name \in Names : \/ \E r \in Files : AddFile(name, r)
                               \/ \E r \in Links : AddLink(name, r)
                               \/ \E r \in Dirs : AddDir(name, r)
        \/ EndDir \/ Close \/ Mount

Spec == Init /\ [][Next]_vars

-----------------------------------------------------------------------------
Written == phase \in {"reading", "closed", "mounted"}

\* The values of the variables; block numbers stay inside the image.
TypeOK ==
    /\ img.next_ino \in FirstIno .. ninos
    /\ img.unused_blocks \in 0 .. ninos
    /\ DOMAIN img.inode \subseteq {SFS_BLKN_ROOT} \cup FirstIno .. ninos - 1
    /\ DOMAIN entries \subseteq DOMAIN img.inode
    /\ phase \in {"reading", "closed", "mounted", "bug", "panicked"}

\* The blocks an inode has, with its own.
BlocksOf(ino) == {ino} \cup ToSet(img.inode[ino].data) \cup ToSet(img.inode[ino].index)

\* Every block that is given out belongs to one inode, and has one use in it;
\* the others are free, and the kernel finds exactly these in the free map.
BlocksOwned ==
    /\ UNION {BlocksOf(i) : i \in DOMAIN img.inode}
           = {SFS_BLKN_ROOT} \cup FirstIno .. img.next_ino - 1
    /\ MapThenSumSet(LAMBDA i : 1 + Len(img.inode[i].data) + Len(img.inode[i].index),
                     DOMAIN img.inode) = img.next_ino - FirstIno + 1
    /\ phase \in {"closed", "mounted"} =>
           disk.freemap = img.next_ino .. ninos - 1

\* The kernel does not refuse an image that mksfs has finished.
Mountable == phase # "panicked"

\* nlinks counts the entries that name an inode, over all directories.
LinksCounted ==
    \A i \in DOMAIN img.inode :
        img.inode[i].nlinks =
            MapThenSumSet(LAMBDA d : Cardinality({k \in DOMAIN entries[d] :
                                                    entries[d][k].ino = i}),
                          DOMAIN entries)

\* The kernel maps a file of a size with ROUNDUP_DIV(size, SFS_BLKSIZE) blocks;
\* truncation asserts it.
SizesMatchBlocks ==
    \A i \in DOMAIN img.inode : img.inode[i].type = "FILE" =>
        Len(img.inode[i].data) = CeilDiv(img.inode[i].size, SFS_BLKSIZE)

\* A finished image has the host's tree: one entry for each of the host's, and
\* names that were links to one file are links to one inode.
TreeKept ==
    phase \in {"closed", "mounted"} =>
        /\ \A e \in host : e.real \notin Links =>
              \E k \in DOMAIN entries[inodes[e.dir]] :
                  /\ entries[inodes[e.dir]][k].name = e.name
                  /\ entries[inodes[e.dir]][k].ino = inodes[e.real]
        /\ \A d \in DOMAIN entries :
              \A k \in {j \in DOMAIN entries[d] : entries[d][j].name \notin {".", ".."}} :
                  \E e \in host : inodes[e.dir] = d /\ e.name = entries[d][k].name
        /\ \A e \in host : e.real \in Dirs =>
              entries[inodes[e.real]][2].ino = inodes[e.dir]

\* The image is a file system, and the one the host had.
ImageSound == /\ TypeOK
              /\ BlocksOwned
              /\ Mountable
              /\ LinksCounted
              /\ SizesMatchBlocks
              /\ TreeKept

\* Not kept by the code, see "Disagreements" in README.md:
\* "max file size (128M)" (sfs.h, SFS_MAX_FILE_SIZE): the kernel maps every block
\* of a file that mksfs accepts.  Its sfs_bmap_get_nolock has no doubly indirect
\* blocks and panics.
FilesReadable ==
    phase = "mounted" =>
        \A i \in DOMAIN img.inode :
            Len(img.inode[i].data) <= SFS_NDIRECT + SFS_BLK_NENTRY

\* Not kept by the code, see "Disagreements" in README.md:
\* "max length of filename" (sfs.h, SFS_MAX_FNAME_LEN): names of up to that
\* length are kept whole.
NamesKept ==
    \A d \in DOMAIN entries : \A k \in DOMAIN entries[d] :
        NameLen[entries[d][k].name] <= SFS_MAX_FNAME_LEN =>
            entries[d][k].stored = NameLen[entries[d][k].name]
=============================================================================
