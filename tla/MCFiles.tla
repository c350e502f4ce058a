------------------------------ MODULE MCFiles ------------------------------
(***************************************************************************)
(* Instances for TLC of the parts of the file system that share no state   *)
(* with each other in these models: open-file tables, the blocks of a      *)
(* volume, paths and directories, and the disk image tool.  In each        *)
(* behaviour one of them runs; a variable belongs to the part that runs    *)
(* and is NULL when that has no such variable.                             *)
(***************************************************************************)
EXTENDS Integers, FiniteSets, Sequences, TLC

CONSTANTS Two, Pair, Three,               \* things that are alike
          top, d, e, leaf, stdin, l, home,  \* directories, files, a device
          NULL

VARIABLES part,                                              \* what runs
          filesp, files_count, pwd, file, ref_count,         \* FileTable
          open_count, io, panicked,
          sin, disk, entries, freemap, unused_blocks,        \* SfsBlocks
          super_dirty, disk_super, up,
          image, dirp, cwd,                                  \* Paths
          img, inodes, path, host, phase                     \* Mksfs

tableonly == <<filesp, files_count, open_count, io>>
sfsonly   == <<sin, freemap, unused_blocks, super_dirty, disk_super, up>>
pathsonly == <<image, dirp, cwd>>
mksfsonly == <<img, inodes, path, host, phase>>
vars == <<part, tableonly, sfsonly, pathsonly, mksfsonly,
          pwd, file, ref_count, panicked, disk, entries>>

Symmetry == Permutations(Two) \cup Permutations(Pair) \cup Permutations(Three)

-----------------------------------------------------------------------------
\* Three processes with two tables; and two of them that also create files.
Table == INSTANCE FileTable WITH
    Procs <- Three, Tables <- Two, FILES_STRUCT_NENTRY <- 2, Devs <- {stdin},
    root <- top, Files <- {}, Dirs <- {top, d}, Flags <- {"none"}, MaxRefs <- 0

Creating == INSTANCE FileTable WITH
    Procs <- Pair, Tables <- Two, FILES_STRUCT_NENTRY <- 2, Devs <- {stdin},
    root <- top, Files <- {leaf}, Dirs <- {top}, Flags <- {"none", "creat", "excl"},
    MaxRefs <- 5

\* Two files on a small disk, which gets full; and one file open twice.
Volume == INSTANCE SfsBlocks WITH
    FDs <- {top}, Inos <- Two, Blocks <- 4 .. 7, SFS_BLKSIZE <- 2,
    SFS_NDIRECT <- 1, SFS_BLK_NENTRY <- 2, SFS_MAX_FILE_SIZE <- 6,
    Positions <- {1, 3, 5}, Flags <- {"none", "trunc"}, Crashes <- FALSE

Shared == INSTANCE SfsBlocks WITH
    FDs <- Pair, Inos <- {leaf}, Blocks <- 4 .. 7, SFS_BLKSIZE <- 2,
    SFS_NDIRECT <- 1, SFS_BLK_NENTRY <- 2, SFS_MAX_FILE_SIZE <- 6,
    Positions <- 1 .. 5, Flags <- {"none", "trunc"}, Crashes <- FALSE

\* Every tree of three directories: d is in top, the root, and e in either;
\* the file leaf is in one of them, or in two as hard links.
Entry(n, i) == [name |-> n, ino |-> i]

Images ==
    { [x \in {top, d, e} |->
        <<Entry(".", x),
          Entry("..", IF x = e /\ e_in_d THEN d ELSE top)>>
        \o (IF x = top THEN <<Entry("a", d)>> ELSE <<>>)
        \o (IF x = (IF e_in_d THEN d ELSE top) THEN <<Entry("bb", e)>> ELSE <<>>)
        \o (IF x \in where THEN <<Entry("ccc", leaf)>> ELSE <<>>)]
      : e_in_d \in BOOLEAN, where \in {{top}, {e}, {d, e}} }

Names == {".", "..", "a", "bb", "ccc", "stdin", "disk0"}

NameLen == [n \in Names |->
                CASE n \in {".", "a"} -> 1 [] n \in {"..", "bb"} -> 2
                  [] n = "ccc" -> 3 [] OTHER -> 5]

\* Sequences of at most n tokens without two names in a row.
PathsOf(n) ==
    {p \in UNION {[1 .. k -> Names \cup {":", "/"}] : k \in 0 .. n} :
        \A i \in 1 .. Len(p) - 1 : {p[i], p[i + 1]} \cap {":", "/"} # {}}

\* Two processes that move about and list directories; and one that looks up
\* paths of every form and asks where it is.
Moving == INSTANCE Paths WITH
    Procs <- Pair, Dirs <- {top, d, e}, Files <- {leaf}, Devs <- {stdin},
    Device <- [n \in {"disk0", "stdin"} |-> IF n = "disk0" THEN top ELSE stdin],
    root <- top, disk0 <- "disk0", Buffers <- {8},
    Paths <- {<<>>, <<"..">>, <<"a">>, <<"bb">>, <<"ccc">>, <<"/">>, <<"stdin", ":">>}

Lookups == INSTANCE Paths WITH
    Procs <- {home}, Dirs <- {top, d, e}, Files <- {leaf}, Devs <- {stdin},
    Device <- [n \in {"disk0", "stdin"} |-> IF n = "disk0" THEN top ELSE stdin],
    root <- top, disk0 <- "disk0", Buffers <- 5 .. 14, Paths <- PathsOf(3)

\* An image of 33 blocks whose free map has six bits in a block, and names of
\* which one is as long as is allowed.
Image == INSTANCE Mksfs WITH
    Files <- Two, Dirs <- Pair, Links <- {l}, Names <- {"a", "b", "long"},
    NameLen <- [n \in {"a", "b", "long", ".", ".."} |->
                  IF n = "long" THEN 7 ELSE IF n = ".." THEN 2 ELSE 1],
    FileSizes <- {0, 2, 5, 14}, ninos <- 33, SFS_BLKSIZE <- 2, SFS_BLKBITS <- 6,
    SFS_NDIRECT <- 2, SFS_BLK_NENTRY <- 2, SFS_LN_NBLKS <- 8,
    SFS_MAX_FNAME_LEN <- 7, InoSize <- 4, MaxEntries <- 4

ASSUME /\ Table!FileTableAssumption /\ Creating!FileTableAssumption
       /\ Volume!SfsAssumption /\ Shared!SfsAssumption
       /\ Moving!PathsAssumption /\ Lookups!PathsAssumption
       /\ Image!MksfsAssumption

-----------------------------------------------------------------------------
NoTable == /\ filesp = NULL /\ files_count = NULL /\ open_count = NULL
           /\ io = NULL

NoSfs == /\ sin = NULL /\ freemap = NULL /\ unused_blocks = NULL
         /\ super_dirty = NULL /\ disk_super = NULL /\ up = NULL

NoPaths == image = NULL /\ dirp = NULL /\ cwd = NULL

NoMksfs == /\ img = NULL /\ inodes = NULL /\ path = NULL /\ host = NULL
           /\ phase = NULL

Init ==
    \/ /\ \/ part = "table" /\ Table!Init
          \/ part = "creating" /\ Creating!Init
       /\ NoSfs /\ NoPaths /\ NoMksfs /\ disk = NULL /\ entries = NULL
    \/ /\ \/ part = "volume" /\ Volume!Init
          \/ part = "shared" /\ Shared!Init
       /\ NoTable /\ NoPaths /\ NoMksfs /\ pwd = NULL /\ ref_count = NULL
    \/ /\ \/ part = "moving" /\ Moving!Init
          \/ part = "lookups" /\ Lookups!Init
       /\ NoTable /\ NoSfs /\ NoMksfs
       /\ file = NULL /\ panicked = NULL /\ disk = NULL /\ entries = NULL
    \/ /\ part = "image" /\ Image!Init
       /\ NoTable /\ NoSfs /\ NoPaths
       /\ pwd = NULL /\ file = NULL /\ ref_count = NULL /\ panicked = NULL

TableStep ==
    /\ \/ part = "table" /\ Table!Next
       \/ part = "creating" /\ Creating!Next
    /\ UNCHANGED <<part, sfsonly, pathsonly, mksfsonly, disk, entries>>

VolumeStep ==
    /\ \/ part = "volume" /\ Volume!Next
       \/ part = "shared" /\ Shared!Next
    /\ UNCHANGED <<part, tableonly, pathsonly, mksfsonly, pwd, ref_count>>

PathsStep ==
    /\ \/ part = "moving" /\ Moving!Next
       \/ part = "lookups" /\ Lookups!Next
    /\ UNCHANGED <<part, tableonly, sfsonly, mksfsonly, file, panicked, disk,
                   entries>>

ImageStep ==
    /\ part = "image" /\ Image!Next
    /\ UNCHANGED <<part, tableonly, sfsonly, pathsonly, pwd, file, ref_count,
                   panicked>>

Next == TableStep \/ VolumeStep \/ PathsStep \/ ImageStep

Spec == Init /\ [][Next]_vars

-----------------------------------------------------------------------------
\* FileTable implements Descriptors, and its tables and counts are exact.
DescriptorsKept ==
    /\ [](part = "table" => Table!TablesSound)
    /\ [](part = "creating" => Creating!TypeOK /\ Creating!ReadersKeepFiles
                                 /\ Creating!TablesExact)
    /\ part = "table" => Table!Promised!Init
    /\ [][part = "table" =>
            [Table!Promised!Next]_(Table!Promised!vars)]_vars

\* SfsBlocks: the volume is consistent, also with a full disk and with a file
\* that is open twice, and sizes outlive everything but a use of the file.
VolumeKept ==
    /\ [](part = "volume" => Volume!VolumeSound /\ Volume!SizeIsBacked)
    /\ [](part = "shared" => Shared!VolumeSound /\ Shared!SizeMatchesBlocks)
    /\ [][part = "volume" => Volume!SizesPersistUnlessOpen]_vars
    /\ [][part = "shared" => Shared!SizesPersistUnlessOpen]_vars

\* Paths: names lead where they should, there and back.
PathsResolve ==
    /\ part = "moving" => Moving!TypeOK /\ Moving!RefsExact /\ Moving!ListsAll
    /\ part = "lookups" => Lookups!OneNameResolves /\ Lookups!CwdSound

\* Mksfs: the image of a tree is that tree, and the kernel can mount it.
ImageSound == part = "image" => Image!ImageSound
=============================================================================
