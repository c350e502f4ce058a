------------------------------- MODULE Paths -------------------------------
(***************************************************************************)
(* Names of files in lab8: how a path is taken apart and looked up, the    *)
(* working directory and its name, and the listing of directories:         *)
(* fs/vfs/vfslookup.c, vfspath.c, vfsdev.c, fs/file.c and the directory    *)
(* operations of fs/sfs/sfs_inode.c.                                       *)
(*                                                                         *)
(* The disk is polled and the kernel not preempted, so a call is one       *)
(* action.  Directories never change, and no slot of one is empty.  A path *)
(* is a sequence of tokens: ":", "/" and names.                            *)
(***************************************************************************)
EXTENDS Naturals, FiniteSets, FiniteSetsExt, SequencesExt

CONSTANTS Procs,
          Dirs, Files, Devs,    \* inodes
          root,                 \* of the file system on disk0
          Images,               \* slots of each directory: [name, ino]
          Device,               \* device names, and the inodes they stand for
          disk0,                \* the name of the device with the file system
          Paths,                \* what is passed as a path
          NameLen,              \* the length of a name
          Buffers,              \* lengths of the buffers for getcwd
          NULL

Nodes == Dirs \cup Files \cup Devs

PathsAssumption ==
    /\ root \in Dirs /\ disk0 \in DOMAIN Device /\ Device[disk0] = root
    /\ Images \subseteq [Dirs -> Seq([name : DOMAIN NameLen, ino : Dirs \cup Files])]
    /\ Buffers \subseteq Nat \ {0}

VARIABLES image,                \* what mksfs wrote; it stays
          pwd,                  \* of each process, NULL if there is none
          dirp,                 \* its open directory: [node, offset, seen, done]
          ref_count,            \* of the inodes
          cwd                   \* the last answer of getcwd, or NULL
vars == <<image, pwd, dirp, ref_count, cwd>>

Init == /\ image \in Images
        /\ \E p \in Procs : pwd = [q \in Procs |-> IF q = p THEN root ELSE NULL]
        /\ dirp = [p \in Procs |-> NULL]
        /\ ref_count = [n \in Nodes |-> IF n = root THEN 2
                                        ELSE IF n \in Devs THEN 1 ELSE 0]
        /\ cwd = NULL

-----------------------------------------------------------------------------
\* sfs_dirent_search_nolock in the directory d: what the name stands for.
SearchName(d, name) ==
    LET i == SelectInSeq(image[d], LAMBDA entry : entry.name = name)
    IN  IF i = 0 THEN NULL ELSE image[d][i].ino

\* sfs_dirent_findino_nolock: the name of the inode in the directory d.
NameOf(d, ino) ==
    LET i == SelectInSeq(image[d], LAMBDA entry : entry.ino = ino)
    IN  image[d][i].name

\* The skipping of slashes at the front of a subpath.
Unslashed(path) ==
    SubSeq(path, SelectInSeq(path \o <<"end">>, LAMBDA t : t # "/"), Len(path))

\* Mutant: the first colon counts, even if there is a slash before it.
FirstColon(path) == SelectInSeq(path, LAMBDA t : t = ":")

\* The first colon or slash of a path, 0 if there is none.
Separator(path) == SelectInSeq(path, LAMBDA t : t \in {":", "/"})

\* get_device for a process in the directory d: where the lookup starts, NULL
\* if there is no such device, and the path from there.
GetDevice(d, path) ==
    LET i == Separator(path)
    IN  IF i = 0 \/ (path[i] = "/" /\ i > 1)
        THEN [node |-> d, subpath |-> path]
        ELSE [node |-> IF i = 1 THEN root       \* of bootfs, or of this fs
                       ELSE IF path[1] \in DOMAIN Device THEN Device[path[1]]
                       ELSE NULL,
              subpath |-> Unslashed(SubSeq(path, i + 1, Len(path)))]

\* vfs_lookup: the inode the path leads to, or NULL.  The whole subpath is
\* the name that sfs_lookup looks for; devices have no names in them.
VfsLookup(d, path) ==
    LET from == GetDevice(d, path)
    IN  IF from.node = NULL \/ from.subpath = <<>> THEN from.node
        ELSE IF from.node \in Dirs /\ Len(from.subpath) = 1
        THEN SearchName(from.node, from.subpath[1])
        ELSE NULL

\* Changes the references: one more to each of gain, one less to each of loss.
Refs(gain, loss) ==
    ref_count' = [n \in Nodes |->
                    (ref_count[n] + IF n \in gain THEN 1 ELSE 0)
                                  - IF n \in loss THEN 1 ELSE 0]

\* vfs_set_curdir of p to another directory n.
SetCurdir(p, n) == Refs({n}, {pwd[p]})

\* vfs_chdir; nothing happens unless the path leads to a directory.
Chdir(p, path) ==
    LET n == VfsLookup(pwd[p], path)
    IN  /\ pwd[p] # NULL
        /\ n \in Dirs \ {pwd[p]}
        /\ pwd' = [pwd EXCEPT ![p] = n]
        /\ SetCurdir(p, n)
        /\ cwd' = NULL
        /\ UNCHANGED <<image, dirp>>

-----------------------------------------------------------------------------
\* The walk of sfs_namefile by ".." from n up to the root, in at most limit
\* steps: the names on the way, from the root on.
NamesTo(n, limit) ==
    LET up[k \in 0 .. limit] ==
            IF k = 0 THEN [node |-> n, names |-> <<>>]
            ELSE LET child == up[k - 1].node
                     parent == SearchName(child, "..")
                 IN  IF parent = child THEN up[k - 1]
                     ELSE [node |-> parent,
                           names |-> <<NameOf(parent, child)>> \o up[k - 1].names]
    IN  up[limit].names

\* The bytes that names take, each with a slash.
NamesLen(names) == FoldSeq(LAMBDA name, sum : sum + NameLen[name] + 1, 0, names)

\* Whether sfs_namefile has room for names in what is left of the buffer.
Fits(resid, names) == resid > 2 /\ NamesLen(names) <= resid - 2

\* vfs_getcwd by p into a buffer of len bytes.  The device's name and a colon
\* come first, and if they do not fit nothing else is tried.
GetCwd(p, len) ==
    LET start == NameLen[disk0] + 1
        names == NamesTo(pwd[p], Cardinality(Dirs))
        ok == len >= start /\ Fits(len - start, names)
    IN  /\ pwd[p] # NULL
        /\ cwd' = [node |-> pwd[p], len |-> len,
                   names |-> IF ok THEN names ELSE NULL,
                   written |-> IF ok THEN start + NamesLen(names) + 2
                               ELSE Min({len, start})]
        /\ UNCHANGED <<image, pwd, dirp, ref_count>>

-----------------------------------------------------------------------------
\* opendir: open of a path that leads to a directory, to be read from the front.
OpenDir(p, path) ==
    LET n == VfsLookup(pwd[p], path)
    IN  /\ pwd[p] # NULL /\ dirp[p] = NULL
        /\ n \in Dirs
        /\ dirp' = [dirp EXCEPT ![p] = [node |-> n, offset |-> 0,
                                        seen |-> <<>>, done |-> FALSE]]
        /\ Refs({n}, {})
        /\ cwd' = NULL
        /\ UNCHANGED <<image, pwd>>

\* sfs_getdirentry: the entry in the slot, if there is one.
Slot(d, offset) ==
    SubSeq(image[d], offset + 1, Min({offset + 1, Len(image[d])}))

\* readdir: the next entry, or the end.
ReadDir(p) ==
    /\ pwd[p] # NULL
    /\ dirp[p] # NULL
    /\ ~ dirp[p].done
    /\ LET entry == Slot(dirp[p].node, dirp[p].offset)
       IN  dirp' = [dirp EXCEPT ![p].offset = @ + Len(entry),
                                ![p].seen = @ \o entry,
                                ![p].done = (entry = <<>>)]
    /\ UNCHANGED <<image, pwd, ref_count, cwd>>

\* closedir.
CloseDir(p) ==
    /\ dirp[p] # NULL
    /\ dirp' = [dirp EXCEPT ![p] = NULL]
    /\ Refs({}, {dirp[p].node})
    /\ cwd' = NULL
    /\ UNCHANGED <<image, pwd>>

\* The references a process has.
Held(p, n) == (IF pwd[p] = n THEN 1 ELSE 0)
              + IF dirp[p] # NULL /\ dirp[p].node = n THEN 1 ELSE 0

Forked(p) == ref_count' = [n \in Nodes |-> ref_count[n] + Held(p, n)]

\* dup_files for a new process q; the offset of a listing is in user memory,
\* and is copied too.
Fork(p, q) ==
    /\ pwd[p] # NULL /\ pwd[q] = NULL
    /\ pwd' = [pwd EXCEPT ![q] = pwd[p]]
    /\ dirp' = [dirp EXCEPT ![q] = dirp[p]]
    /\ Forked(p)
    /\ cwd' = NULL
    /\ UNCHANGED image

\* files_destroy when p exits; init stays, so p is not the last.
Exit(p) ==
    /\ pwd[p] # NULL
    /\ \E q \in Procs \ {p} : pwd[q] # NULL
    /\ pwd' = [pwd EXCEPT ![p] = NULL]
    /\ dirp' = [dirp EXCEPT ![p] = NULL]
    /\ ref_count' = [n \in Nodes |-> ref_count[n] - Held(p, n)]
    /\ cwd' = NULL
    /\ UNCHANGED image

Next == \E p \in Procs :
    \/ \E path \in Paths : Chdir(p, path) \/ OpenDir(p, path)
    \/ \E len \in Buffers : GetCwd(p, len)
    \/ ReadDir(p) \/ CloseDir(p) \/ Exit(p)
    \/ \E q \in Procs \ {p} : Fork(p, q)

Spec == Init /\ [][Next]_vars

-----------------------------------------------------------------------------
\* The values of the variables.
TypeOK ==
    /\ image \in Images
    /\ pwd \in [Procs -> Dirs \cup {NULL}]
    /\ ref_count \in [Nodes -> Nat]
    /\ \A p \in Procs : dirp[p] # NULL => dirp[p].node \in Dirs

\* What names lead to from the root, one after the other.
Walk(names) == FoldLeft(SearchName, root, names)

\* getcwd climbs by ".." and by inode numbers; going down again by the names
\* it found leads to the directory it was asked for.
CwdLeadsBack ==
    cwd # NULL /\ cwd.names # NULL => Walk(cwd.names) = cwd.node

\* getcwd writes no more than the buffer holds, with the final zero.
CwdInBuffer == cwd # NULL => cwd.written <= cwd.len

\* It fails only if the buffer is too short, or just long enough for "disk0:/".
CwdFails ==
    cwd # NULL /\ cwd.names = NULL =>
        LET needed == NameLen[disk0] + 3 + NamesLen(NamesTo(cwd.node, Cardinality(Dirs)))
        IN  cwd.len < needed \/ (cwd.len = needed /\ cwd.node = root)

\* An inode has a reference for every working directory and open listing, over
\* those of its device or of bootfs: none is lost in lookups, and none stays.
RefsExact ==
    \A n \in Nodes :
        ref_count[n] = (IF n \in Devs \cup {root} THEN 1 ELSE 0)
                       + FoldSet(LAMBDA p, sum : sum + Held(p, n), 0, Procs)

\* A listing that has ended has shown every entry of the directory, and each once.
ListsAll ==
    \A p \in Procs : dirp[p] # NULL /\ dirp[p].done =>
        dirp[p].seen = image[dirp[p].node]

\* getcwd answers rightly, whatever the directory and the buffer.
CwdSound == CwdLeadsBack /\ CwdInBuffer /\ CwdFails

\* The reading of a path that vfs.h and the comments of vfslookup.c give:
\* "device:", "/" and ":" at its front say where it starts.
StartOf(d, path) ==
    IF path # <<>> /\ path[1] \in {"/", ":"} THEN root
    ELSE IF Len(path) > 1 /\ path[2] = ":"
    THEN IF path[1] \in DOMAIN Device THEN Device[path[1]] ELSE NULL
    ELSE d

\* What follows of a path after that; colons in it belong to names.
RestOf(path) ==
    IF path # <<>> /\ path[1] = ":" THEN Tail(path)
    ELSE IF Separator(path) = 2 /\ path[2] = ":" THEN SubSeq(path, 3, Len(path))
    ELSE path

\* A path that ends in its only name leads where this reading says, from every
\* directory, however many slashes come before the name.
OneNameResolves ==
    \A p \in Procs, path \in Paths :
        /\ pwd[p] # NULL
        /\ RestOf(path) # <<>> /\ Last(path) \notin {"/", ":"}
        /\ \A i \in 1 .. Len(RestOf(path)) - 1 : RestOf(path)[i] = "/"
        => LET start == StartOf(pwd[p], path)
           IN  VfsLookup(pwd[p], path) =
                   IF start \in Dirs THEN SearchName(start, Last(path)) ELSE NULL

\* Not kept by the code, see "Disagreements" in README.md:
\* "Parse path relative to the passed directory DIR, and hand back the inode
\* for the file it refers to" (sfs_lookup): a path of several names leads
\* through directories.
PathsWalk ==
    \A p \in Procs, path \in Paths :
        pwd[p] # NULL /\ Separator(path) = 2 /\ path[2] = "/" /\ Len(path) = 3
        /\ SearchName(pwd[p], path[1]) \in Dirs =>
            VfsLookup(pwd[p], path) = SearchName(SearchName(pwd[p], path[1]), path[3])
=============================================================================
