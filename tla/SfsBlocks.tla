----------------------------- MODULE SfsBlocks -----------------------------
(***************************************************************************)
(* The blocks of the Simple File System of lab8: the free map, the block   *)
(* maps of inodes, truncation and seeking, and what reaches the disk when: *)
(* fs/sfs/sfs_inode.c, sfs_fs.c and bitmap.c.                              *)
(*                                                                         *)
(* The driver polls and the kernel is not preempted, so an operation is    *)
(* one action; it panics when the disk fails, so there are no I/O errors.  *)
(* sfs_io_nolock is as it stands in the repository, without the exercise:  *)
(* it transfers nothing, and sets the size.  Files cannot be created or    *)
(* removed, and directories do not change.                                 *)
(***************************************************************************)
EXTENDS Naturals, FiniteSets, FiniteSetsExt, SequencesExt

CONSTANTS FDs, Inos,            \* descriptors; the inodes of files, block numbers
          Blocks,               \* the blocks of the volume that are not reserved
          SFS_BLKSIZE, SFS_NDIRECT, SFS_BLK_NENTRY, SFS_MAX_FILE_SIZE,
          Positions,            \* bound: where anybody seeks to
          Flags,                \* of open: "none", "trunc" or "creat"
          Crashes,              \* whether the power may fail
          NULL

SfsAssumption ==
    /\ Blocks \subseteq Nat \ {0} /\ Inos \cap Blocks = {} /\ 0 \notin Inos
    /\ {SFS_NDIRECT, SFS_BLK_NENTRY, SFS_MAX_FILE_SIZE} \cup Positions \subseteq Nat
    /\ SFS_BLKSIZE \in Nat \ {0}
    /\ Crashes \in BOOLEAN

VARIABLES file,             \* of each descriptor: [ino, pos], or NULL
          sin,              \* inodes in memory: [din, dirty], or NULL
          disk,             \* the inodes on the disk
          entries,          \* the contents of each block, as an indirect one
          freemap, unused_blocks, super_dirty,
          disk_super,       \* the free map and the count on the disk
          up,               \* mounted
          panicked
vars == <<file, sin, disk, entries, freemap, unused_blocks, super_dirty,
          disk_super, up, panicked>>

Entries == 0 .. SFS_BLK_NENTRY - 1
Empty == [size |-> 0, blocks |-> 0, indirect |-> 0,
          direct |-> [i \in 0 .. SFS_NDIRECT - 1 |-> 0]]
Super == [freemap |-> freemap, unused_blocks |-> unused_blocks]

\* A volume with empty files, mounted.
Init == /\ file = [fd \in FDs |-> NULL]
        /\ sin = [f \in Inos |-> NULL]
        /\ disk = [f \in Inos |-> Empty]
        /\ entries = [b \in Blocks |-> [i \in Entries |-> 0]]
        /\ freemap = Blocks
        /\ unused_blocks = Cardinality(Blocks)
        /\ super_dirty = FALSE
        /\ disk_super = Super
        /\ up = TRUE
        /\ panicked = "no"

Din(f) == IF sin[f] = NULL THEN disk[f] ELSE sin[f].din

-----------------------------------------------------------------------------
(* Operations on a volume v: an inode din with its flag dirty, the free    *)
(* map, the indirect blocks, and ret, which is "ok", an error or a panic.  *)

Volume(f) == [din |-> Din(f), dirty |-> sin[f] # NULL /\ sin[f].dirty,
              freemap |-> freemap, unused_blocks |-> unused_blocks,
              super_dirty |-> super_dirty, entries |-> entries, ret |-> "ok"]

\* sfs_block_alloc has found b.
Taken(v, b) == [v EXCEPT !.freemap = @ \ {b}, !.unused_blocks = @ - 1,
                         !.super_dirty = TRUE,
                         !.entries[b] = [i \in Entries |-> 0]]

sfs_block_free(v, b) ==
    IF b \in v.freemap THEN [v EXCEPT !.ret = "block not in use"]
    ELSE [v EXCEPT !.freemap = @ \cup {b}, !.unused_blocks = @ + 1,
                   !.super_dirty = TRUE]

Failed(v) == [v EXCEPT !.ret = "E_NO_MEM"]

\* A block that the map holds already.
Found(v, b) == IF b \in v.freemap THEN [v EXCEPT !.ret = "block not in use"] ELSE v

\* The direct entry that the next block goes to.
GetDirect(v, index) ==
    IF v.din.direct[index] # 0 THEN Found(v, v.din.direct[index])
    ELSE IF v.freemap = {} THEN Failed(v)
    ELSE LET b == Min(v.freemap)
         IN  [Taken(v, b) EXCEPT !.din.direct[index] = b, !.dirty = TRUE]

\* Mutant: when there is no block left for the file, the new indirect block is
\* not given back.
GetIndirectKept(v, index) ==
    LET new == v.din.indirect = 0
        ent == IF new THEN Min(v.freemap) ELSE v.din.indirect
        w == IF new THEN Taken(v, ent) ELSE v
        b == Min(w.freemap)
    IN  IF ~new /\ v.entries[ent][index] # 0 THEN Found(v, v.entries[ent][index])
        ELSE IF v.freemap = {} THEN Failed(v)
        ELSE IF w.freemap = {} THEN Failed(w)
        ELSE [Taken(w, b) EXCEPT !.entries[ent][index] = b,
                                 !.din.indirect = ent,
                                 !.dirty = v.dirty \/ new]

\* sfs_bmap_get_sub_nolock: the entry of the indirect block, which is made when
\* there is none, and unmade when there is no block left for the file.
GetIndirect(v, index) ==
    LET new == v.din.indirect = 0
        ent == IF new THEN Min(v.freemap) ELSE v.din.indirect
        w == IF new THEN Taken(v, ent) ELSE v
        b == Min(w.freemap)
    IN  IF ~new /\ v.entries[ent][index] # 0 THEN Found(v, v.entries[ent][index])
        ELSE IF v.freemap = {} THEN Failed(v)
        ELSE IF w.freemap = {} THEN Failed(IF new THEN sfs_block_free(w, ent) ELSE v)
        ELSE [Taken(w, b) EXCEPT !.entries[ent][index] = b,
                                 !.din.indirect = ent,
                                 !.dirty = v.dirty \/ new]

\* sfs_bmap_get_nolock, creating.
sfs_bmap_get(v, index) ==
    IF index < SFS_NDIRECT THEN GetDirect(v, index)
    ELSE IF index - SFS_NDIRECT < SFS_BLK_NENTRY
    THEN GetIndirect(v, index - SFS_NDIRECT)
    ELSE [v EXCEPT !.ret = "index out of range"]

\* sfs_bmap_load_nolock at the end of the file.
sfs_bmap_load(v) ==
    LET w == sfs_bmap_get(v, v.din.blocks)
    IN  IF v.ret # "ok" THEN v
        ELSE IF w.ret # "ok" THEN w
        ELSE [w EXCEPT !.din.blocks = @ + 1]

\* sfs_bmap_free_nolock; the indirect block stays.
sfs_bmap_free(v, index) ==
    LET i == index - SFS_NDIRECT
        ino == IF index < SFS_NDIRECT THEN v.din.direct[index]
               ELSE IF v.din.indirect = 0 THEN 0 ELSE v.entries[v.din.indirect][i]
    IN  IF ino = 0 THEN v
        ELSE IF index < SFS_NDIRECT
        THEN [sfs_block_free(v, ino) EXCEPT !.din.direct[index] = 0, !.dirty = TRUE]
        ELSE [sfs_block_free(v, ino) EXCEPT !.entries[v.din.indirect][i] = 0]

sfs_bmap_truncate(v) ==
    LET w == sfs_bmap_free(v, v.din.blocks - 1)
    IN  IF v.ret # "ok" \/ w.ret # "ok" THEN w
        ELSE [w EXCEPT !.din.blocks = @ - 1, !.dirty = TRUE]

Times(Op(_), v, n) == FoldLeft(LAMBDA w, i : Op(w), v, [i \in 1 .. n |-> i])

Resized(v, len) == IF v.ret # "ok" THEN v
                   ELSE [v EXCEPT !.din.size = len, !.dirty = TRUE]

\* The blocks of len bytes.
Needed(len) == (len + SFS_BLKSIZE - 1) \div SFS_BLKSIZE

sfs_truncfile(v, len) ==
    LET nblks == v.din.blocks
        tblks == Needed(len)
    IN  IF v.din.size = len
        THEN IF tblks = nblks THEN v ELSE [v EXCEPT !.ret = "blocks of another size"]
        ELSE IF nblks < tblks
        THEN Resized(Times(sfs_bmap_load, v, tblks - nblks), len)
        ELSE Resized(Times(sfs_bmap_truncate, v, nblks - tblks), len)

-----------------------------------------------------------------------------
Users(f) == {fd \in FDs : file[fd] # NULL /\ file[fd].ino = f}

Panics == {"block not in use", "index out of range", "blocks of another size"}

\* The volume becomes v, and v.din the inode f in memory.
Becomes(f, v) ==
    /\ sin' = [sin EXCEPT ![f] = [din |-> v.din, dirty |-> v.dirty]]
    /\ freemap' = v.freemap /\ unused_blocks' = v.unused_blocks
    /\ super_dirty' = v.super_dirty /\ entries' = v.entries
    /\ panicked' = IF v.ret \in Panics THEN v.ret ELSE panicked

Running == up /\ panicked = "no"

\* sfs_load_inode and vfs_open.
Open(fd, f, flags) ==
    LET v == IF flags = "none" THEN Volume(f) ELSE sfs_truncfile(Volume(f), 0)
    IN  /\ Running
        /\ file[fd] = NULL
        /\ Becomes(f, v)
        /\ file' = [file EXCEPT ![fd] = [ino |-> f, pos |-> 0]]
        /\ UNCHANGED <<disk, disk_super, up>>

\* file_seek with sfs_tryseek.
Seek(fd, pos) ==
    /\ Running
    /\ file[fd] # NULL
    /\ pos < SFS_MAX_FILE_SIZE
    /\ LET f == file[fd].ino
           v == IF pos > Din(f).size THEN sfs_truncfile(Volume(f), pos) ELSE Volume(f)
       IN  /\ Becomes(f, v)
           /\ file' = IF v.ret = "ok" THEN [file EXCEPT ![fd].pos = pos] ELSE file
    /\ UNCHANGED <<disk, disk_super, up>>

\* file_write: sfs_io_nolock transfers nothing, and a size that is less than
\* the position is set to it.
Write(fd) ==
    /\ Running
    /\ file[fd] # NULL
    /\ LET f == file[fd].ino
       IN  /\ file[fd].pos > Din(f).size
           /\ Becomes(f, Resized(Volume(f), file[fd].pos))
    /\ UNCHANGED <<file, disk, disk_super, up>>

\* What sfs_fsync leaves on the disk.
Saved(f) == IF sin[f].dirty THEN sin[f].din ELSE disk[f]

Fsync(fd) ==
    /\ Running
    /\ file[fd] # NULL
    /\ LET f == file[fd].ino
       IN  /\ disk' = [disk EXCEPT ![f] = Saved(f)]
           /\ sin' = [sin EXCEPT ![f].dirty = FALSE]
    /\ UNCHANGED <<file, entries, freemap, unused_blocks, super_dirty, disk_super,
                   up, panicked>>

\* file_close: the last descriptor takes the inode with it, by sfs_close and
\* sfs_reclaim.
Close(fd) ==
    /\ Running
    /\ file[fd] # NULL
    /\ file' = [file EXCEPT ![fd] = NULL]
    /\ LET f == file[fd].ino
       IN  IF Users(f) = {fd}
           THEN /\ disk' = [disk EXCEPT ![f] = Saved(f)]
                /\ sin' = [sin EXCEPT ![f] = NULL]
           ELSE UNCHANGED <<disk, sin>>
    /\ UNCHANGED <<entries, freemap, unused_blocks, super_dirty, disk_super, up,
                   panicked>>

\* fs_cleanup by the init process, when all others have gone: sfs_sync.
Shutdown ==
    /\ Running
    /\ \A fd \in FDs : file[fd] = NULL
    /\ disk_super' = IF super_dirty THEN Super ELSE disk_super
    /\ up' = FALSE
    /\ UNCHANGED <<file, sin, disk, entries, freemap, unused_blocks, super_dirty,
                   panicked>>

\* The power fails: what is in memory is gone.
Crash == /\ Crashes /\ Running
         /\ file' = [fd \in FDs |-> NULL]
         /\ sin' = [f \in Inos |-> NULL]
         /\ up' = FALSE
         /\ UNCHANGED <<disk, entries, freemap, unused_blocks, super_dirty,
                        disk_super, panicked>>

\* sfs_do_mount.
Mount ==
    /\ ~up /\ panicked = "no"
    /\ up' = TRUE
    /\ freemap' = disk_super.freemap
    /\ unused_blocks' = disk_super.unused_blocks
    /\ super_dirty' = FALSE
    /\ panicked' = IF unused_blocks' = Cardinality(freemap')
                   THEN panicked ELSE "unused_blocks is wrong"
    /\ UNCHANGED <<file, sin, disk, entries, disk_super>>

Next == \/ \E fd \in FDs : \/ \E f \in Inos, flags \in Flags : Open(fd, f, flags)
                           \/ \E pos \in Positions : Seek(fd, pos)
                           \/ Write(fd) \/ Fsync(fd) \/ Close(fd)
        \/ Shutdown \/ Crash \/ Mount

Spec == Init /\ [][Next]_vars

-----------------------------------------------------------------------------
Dins == [size : Nat, blocks : 0 .. SFS_NDIRECT + SFS_BLK_NENTRY,
         indirect : Blocks \cup {0},
         direct : [0 .. SFS_NDIRECT - 1 -> Blocks \cup {0}]]

TypeOK ==
    /\ \A fd \in FDs : file[fd] # NULL => /\ file[fd].ino \in Inos
                                          /\ file[fd].pos \in Positions \cup {0}
    /\ \A f \in Inos : /\ Din(f) \in Dins /\ disk[f] \in Dins
                       /\ sin[f] # NULL <=> Users(f) # {}
    /\ entries \in [Blocks -> [Entries -> Blocks \cup {0}]]
    /\ freemap \subseteq Blocks /\ unused_blocks \in Nat

\* The places that hold a block: direct entries, the indirect one, and the
\* entries of the indirect block.
Places(f) ==
    LET din == Din(f)
        all == {<<"direct", i, din.direct[i]>> : i \in DOMAIN din.direct}
               \cup {<<"indirect", 0, din.indirect>>}
               \cup IF din.indirect = 0 THEN {}
                    ELSE {<<"entry", i, entries[din.indirect][i]>> : i \in Entries}
    IN  {<<f, p>> : p \in {q \in all : q[3] # 0}}

AllPlaces == UNION {Places(f) : f \in Inos}

\* The free map is exact, and so is its count: a block is free if and only if
\* no inode, direct entry or indirect block holds it, and no block is held
\* twice.
FreemapExact ==
    up => /\ freemap = Blocks \ {p[2][3] : p \in AllPlaces}
          /\ Cardinality(AllPlaces) = Cardinality(Blocks \ freemap)
          /\ unused_blocks = Cardinality(freemap)

BlockAt(f, i) ==
    LET din == Din(f)
    IN  IF i < SFS_NDIRECT THEN din.direct[i]
        ELSE IF din.indirect = 0 THEN 0
        ELSE entries[din.indirect][i - SFS_NDIRECT]

\* Every block that an inode counts is there.
CountedAreMapped ==
    \A f \in Inos : \A i \in 0 .. Din(f).blocks - 1 : BlockAt(f, i) # 0

\* What has not been modified since it was read or written is on the disk,
\* except the count of blocks, which may be higher in memory (see
\* DirtyIfModified): the blocks lost with the inode are not the size's.
SavedUnlessDirty ==
    \A f \in Inos : sin[f] # NULL /\ ~sin[f].dirty
        => LET din == sin[f].din
           IN  /\ din = [disk[f] EXCEPT !.blocks = din.blocks]
               /\ disk[f].blocks <= din.blocks
               /\ din.blocks > disk[f].blocks => Needed(din.size) <= disk[f].blocks

\* The size of a file, as a stat would give it, changes only while somebody has
\* the file open: not when inodes leave the memory and come back, nor when the
\* machine is shut down and started again.
SizesPersistUnlessOpen ==
    \A f \in Inos : Din(f).size' # Din(f).size
                        => \E fd \in FDs : file'[fd] # NULL /\ file'[fd].ino = f

\* What a machine that is shut down leaves on the disk is consistent: the free
\* map and its count, whether they had to be written or not.
SuperSaved == up /\ ~super_dirty => disk_super = Super

\* The volume in memory is consistent, and what is on the disk would be after
\* what is still dirty has been written.
VolumeSound == /\ TypeOK
               /\ FreemapExact
               /\ CountedAreMapped
               /\ SavedUnlessDirty
               /\ SuperSaved

\* With one descriptor a file has the blocks that its size needs, and when the
\* disk was full perhaps more.
SizeIsBacked == \A f \in Inos : Needed(Din(f).size) <= Din(f).blocks

\* Not kept by the code, see "Disagreements" in README.md:
\* dirty is true if the inode is modified (the comment of sfs_inode).
DirtyIfModified ==
    \A f \in Inos : sin[f] # NULL /\ ~sin[f].dirty => sin[f].din = disk[f]

\* The assertions of sfs_truncfile: the file has as many blocks as its size
\* needs.  With a full disk this is not kept.
SizeMatchesBlocks == panicked # "blocks of another size"

\* Not kept by the code, see "Disagreements" in README.md: the assertion of
\* sfs_block_free, after a crash, and the panic of sfs_bmap_get_nolock.
NamedAreInUse == panicked # "block not in use"
SeeksInRange == panicked # "index out of range"

\* Not kept by the code, see "Disagreements" in README.md:
\* O_CREAT creates a file if it does not exist, and does nothing to one that
\* does.
CreatKeepsFile ==
    [][\A fd \in FDs, f \in Inos :
           Open(fd, f, "creat") => Din(f).size' = Din(f).size]_vars
=============================================================================
