----------------------------- MODULE FileTable -----------------------------
(***************************************************************************)
(* The open-file tables of lab8 and the counts of the inodes they name:    *)
(* fs/file.c, fs/fs.c, fs/vfs/inode.c, vfsfile.c and vfspath.c, with       *)
(* copy_files and put_files of process/proc.c.                             *)
(*                                                                         *)
(* The kernel is not preempted and the disk is polled, so a system call is *)
(* one action unless it sleeps: a read of the keyboard does, and in that   *)
(* time the processes that share the table may close, open and duplicate.  *)
(* Offsets and access modes are left out.                                  *)
(***************************************************************************)
EXTENDS Naturals, FiniteSets, FiniteSetsExt

CONSTANTS Procs, Tables,        \* processes, and files_structs
          FILES_STRUCT_NENTRY,  \* the length of fd_array
          Devs, Files, Dirs,    \* inodes of the keyboard, of files, of directories
          root,                 \* the boot file system's root, one of Dirs
          Flags,                \* of open: "none", "creat", or "excl" with creat
          MaxRefs,              \* bound: an inode's references when one leaks
          NULL

Nodes == Devs \cup Files \cup Dirs
FDs == 0 .. FILES_STRUCT_NENTRY - 1

FileTableAssumption ==
    /\ root \in Dirs
    /\ FILES_STRUCT_NENTRY \in Nat
    /\ Flags \subseteq {"none", "creat", "excl"}

VARIABLES filesp,               \* proc->filesp, NULL if there is no process
          files_count,
          pwd,
          file,                 \* fd_array of each table
          ref_count, open_count,    \* of each inode
          io,                   \* the read a process sleeps in: [fd, node]
          panicked
vars == <<filesp, files_count, pwd, file, ref_count, open_count, io, panicked>>

NoFile == [status |-> "FD_NONE", node |-> NULL, open_count |-> 0]
OpenFile(n) == [status |-> "FD_OPENED", node |-> n, open_count |-> 1]

\* A device has a reference from its name, the root one from bootfs_node.
BaseRefs(n) == IF n \in Devs \cup {root} THEN 1 ELSE 0

\* After vfs_set_bootfs: one process, whose working directory is the root.
Init == \E p \in Procs, t \in Tables :
    /\ filesp = [q \in Procs |-> IF q = p THEN t ELSE NULL]
    /\ files_count = [s \in Tables |-> IF s = t THEN 1 ELSE 0]
    /\ pwd = [s \in Tables |-> IF s = t THEN root ELSE NULL]
    /\ file = [s \in Tables |-> [fd \in FDs |-> NoFile]]
    /\ ref_count = [n \in Nodes |-> BaseRefs(n) + IF n = root THEN 1 ELSE 0]
    /\ open_count = [n \in Nodes |-> 0]
    /\ io = [q \in Procs |-> NULL]
    /\ panicked = "no"

Running(p) == filesp[p] # NULL /\ io[p] = NULL /\ panicked = "no"

Opened(t) == {fd \in FDs : file[t][fd].status = "FD_OPENED"}

-----------------------------------------------------------------------------
FreeSlots(t) == {fd \in FDs : file[t][fd].status = "FD_NONE"}

\* inode_ref_inc and inode_open_inc of n, as many times as by says.
Opens(by) == /\ ref_count' = [n \in Nodes |-> ref_count[n] + by[n]]
             /\ open_count' = [n \in Nodes |-> open_count[n] + by[n]]

\* sys_open by p of a path that leads to n.
Open(p, n, flags) ==
    LET t == filesp[p]
        fd == Min(FreeSlots(t))
    IN  /\ Running(p)
        /\ FreeSlots(t) # {}
        /\ n \in Devs => flags # "creat"          \* dev_open refuses it
        /\ \/ \* -E_EXISTS before vop_open, and the reference of vfs_lookup stays
              /\ flags = "excl" /\ ref_count[n] < MaxRefs
              /\ ref_count' = [ref_count EXCEPT ![n] = @ + 1]
              /\ UNCHANGED <<file, open_count, panicked>>
           \/ \* a directory has no vop_truncate
              /\ flags = "creat" /\ n \in Dirs
              /\ panicked' = "vop_truncate is NULL"
              /\ UNCHANGED <<file, ref_count, open_count>>
           \/ /\ flags = "none" \/ (flags = "creat" /\ n \in Files)
              /\ file' = [file EXCEPT ![t][fd] = OpenFile(n)]
              /\ Opens([m \in Nodes |-> IF m = n THEN 1 ELSE 0])
              /\ UNCHANGED panicked
        /\ UNCHANGED <<filesp, files_count, pwd, io>>

\* sys_open with O_CREAT of what is not there: directories have no vop_create.
\* Without O_CREAT nothing happens.
OpenMissing(p, flags) ==
    /\ Running(p)
    /\ FreeSlots(filesp[p]) # {}
    /\ flags # "none"
    /\ panicked' = "vop_create is NULL"
    /\ UNCHANGED <<filesp, files_count, pwd, file, ref_count, open_count, io>>

DupRefs(n) == Opens([m \in Nodes |-> IF m = n THEN 1 ELSE 0])

\* sys_dup by p; to is a number of p's choice or the first free one.
Dup(p, from, to) ==
    LET t == filesp[p]
    IN  /\ Running(p)
        /\ from \in Opened(t) /\ to \in FreeSlots(t)
        /\ file' = [file EXCEPT ![t][to] = OpenFile(file[t][from].node)]
        /\ DupRefs(file[t][from].node)
        /\ UNCHANGED <<filesp, files_count, pwd, io, panicked>>

-----------------------------------------------------------------------------
\* The slots that fd_array_free frees when the open counts of fds go down.
Released(t, fds) == {fd \in fds : file[t][fd].open_count = 1}

\* vfs_close of the inodes of the freed slots, and vop_ref_dec of d.
VfsClose(t, fds, d) ==
    LET closed(n) == Cardinality({fd \in Released(t, fds) : file[t][fd].node = n})
    IN  /\ open_count' = [n \in Nodes |-> open_count[n] - closed(n)]
        /\ ref_count' = [n \in Nodes |->
                            ref_count[n] - (closed(n) + IF n = d THEN 1 ELSE 0)]

\* The table t when the open counts of fds have gone down; status[fd] is what
\* becomes of those that are still in use.
After(t, fds, status) ==
    [fd \in FDs |->
        IF fd \in Released(t, fds) THEN NoFile
        ELSE IF fd \in fds
        THEN [file[t][fd] EXCEPT !.status = status[fd], !.open_count = @ - 1]
        ELSE file[t][fd]]

AllClosed == [fd \in FDs |-> "FD_CLOSED"]

\* fd_array_close of each of fds by p.
CloseFiles(p, fds) ==
    /\ Running(p)
    /\ fds # {} /\ fds \subseteq Opened(filesp[p])
    /\ file' = [file EXCEPT ![filesp[p]] = After(filesp[p], fds, AllClosed)]
    /\ VfsClose(filesp[p], fds, NULL)
    /\ UNCHANGED <<filesp, files_count, pwd, io, panicked>>

\* sys_close.
Close(p, fd) == CloseFiles(p, {fd})

\* files_closeall, at the beginning of do_execve, spares 0 and 1.
CloseAll(p) == CloseFiles(p, Opened(filesp[p]) \ {0, 1})

-----------------------------------------------------------------------------
\* Mutant: the file that is being read is not held.
AcquireNot(p, fd) ==
    /\ Running(p)
    /\ fd \in Opened(filesp[p])
    /\ file[filesp[p]][fd].node \in Devs
    /\ io' = [io EXCEPT ![p] = [fd |-> fd, node |-> file[filesp[p]][fd].node]]
    /\ UNCHANGED <<filesp, files_count, pwd, file, ref_count, open_count, panicked>>

\* file_read of the keyboard, up to the sleep.  A read of a file does not sleep
\* and gives back at once what it acquires.  That of a directory, which has no
\* vop_read, fails an assertion and is left out.
ReadSleeps(p, fd) ==
    /\ Running(p)
    /\ fd \in Opened(filesp[p])
    /\ file[filesp[p]][fd].node \in Devs
    /\ file' = [file EXCEPT ![filesp[p]][fd].open_count = @ + 1]
    /\ io' = [io EXCEPT ![p] = [fd |-> fd, node |-> file[filesp[p]][fd].node]]
    /\ UNCHANGED <<filesp, files_count, pwd, ref_count, open_count, panicked>>

\* The rest of file_read: fd_array_release.
ReadReturns(p) ==
    /\ io[p] # NULL /\ panicked = "no"
    /\ LET t == filesp[p]
           fd == io[p].fd
       IN  /\ file' = [file EXCEPT ![t] =
                          After(t, {fd}, [e \in FDs |-> file[t][e].status])]
           /\ VfsClose(t, {fd}, NULL)
           /\ panicked' = IF \/ file[t][fd].open_count = 0
                             \/ /\ fd \in Released(t, {fd})
                                /\ file[t][fd].status # "FD_CLOSED"
                          THEN "released by nobody" ELSE panicked
    /\ io' = [io EXCEPT ![p] = NULL]
    /\ UNCHANGED <<filesp, files_count, pwd>>

\* vfs_lookup, vop_ref_inc and vop_ref_dec of vfs_chdir and vfs_set_curdir.
ChdirRefs(old, n) ==
    [m \in Nodes |-> ref_count[m] + (IF m = n /\ old # n THEN 1 ELSE 0)
                                  - (IF m = old /\ old # n THEN 1 ELSE 0)]

\* sys_chdir to n; what is no directory is refused.
Chdir(p, n) ==
    /\ Running(p)
    /\ n \in Dirs
    /\ pwd' = [pwd EXCEPT ![filesp[p]] = n]
    /\ ref_count' = ChdirRefs(pwd[filesp[p]], n)
    /\ UNCHANGED <<filesp, files_count, file, open_count, io, panicked>>

-----------------------------------------------------------------------------
\* The files that dup_files duplicates.
Duplicated(t) == Opened(t)

\* copy_files of a process q that p forks, with a table of its own.
CopyFiles(p, q, to) ==
    LET t == filesp[p]
        dups(n) == Cardinality({fd \in Duplicated(t) : file[t][fd].node = n})
    IN  /\ Running(p)
        /\ filesp[q] = NULL
        /\ files_count[to] = 0
        /\ filesp' = [filesp EXCEPT ![q] = to]
        /\ files_count' = [files_count EXCEPT ![to] = 1]
        /\ pwd' = [pwd EXCEPT ![to] = pwd[t]]
        /\ file' = [file EXCEPT ![to] =
                       [fd \in FDs |-> IF fd \in Duplicated(t)
                                       THEN OpenFile(file[t][fd].node)
                                       ELSE NoFile]]
        /\ ref_count' = [n \in Nodes |->
                            ref_count[n] + dups(n) + IF n = pwd[t] THEN 1 ELSE 0]
        /\ open_count' = [n \in Nodes |-> open_count[n] + dups(n)]
        /\ UNCHANGED <<io, panicked>>

\* copy_files with CLONE_FS.
ShareFiles(p, q) ==
    /\ Running(p)
    /\ filesp[q] = NULL
    /\ filesp' = [filesp EXCEPT ![q] = filesp[p]]
    /\ files_count' = [files_count EXCEPT ![filesp[p]] = @ + 1]
    /\ UNCHANGED <<pwd, file, ref_count, open_count, io, panicked>>

\* Whether put_files destroys the table.
Destroyed(t) == files_count[t] = 1

\* put_files of do_exit, with files_destroy if p is the last of the table.
\* Somebody is left: init never exits.
PutFiles(p) ==
    LET t == filesp[p]
        after == After(t, Opened(t), AllClosed)
    IN  /\ Running(p)
        /\ \E q \in Procs \ {p} : filesp[q] # NULL
        /\ filesp' = [filesp EXCEPT ![p] = NULL]
        /\ files_count' = [files_count EXCEPT ![t] = @ - 1]
        /\ IF Destroyed(t)
           THEN /\ file' = [file EXCEPT ![t] = after]
                /\ VfsClose(t, Opened(t), pwd[t])
                /\ pwd' = [pwd EXCEPT ![t] = NULL]
                /\ panicked' = IF \A fd \in FDs : after[fd] = NoFile
                               THEN panicked ELSE "file in use in files_destroy"
           ELSE UNCHANGED <<file, ref_count, open_count, pwd, panicked>>
        /\ UNCHANGED io

Next == \E p \in Procs :
           \/ \E n \in Nodes : Chdir(p, n) \/ \E flags \in Flags : Open(p, n, flags)
           \/ \E flags \in Flags : OpenMissing(p, flags)
           \/ \E fd \in FDs : \/ Close(p, fd) \/ ReadSleeps(p, fd)
                              \/ \E to \in FDs : Dup(p, fd, to)
           \/ CloseAll(p) \/ ReadReturns(p) \/ PutFiles(p)
           \/ \E q \in Procs : \/ ShareFiles(p, q)
                               \/ \E t \in Tables : CopyFiles(p, q, t)

Spec == Init /\ [][Next]_vars

-----------------------------------------------------------------------------
TypeOK ==
    /\ filesp \in [Procs -> Tables \cup {NULL}]
    /\ files_count \in [Tables -> Nat] /\ pwd \in [Tables -> Dirs \cup {NULL}]
    /\ \A t \in Tables, fd \in FDs :
          /\ file[t][fd].status \in {"FD_NONE", "FD_OPENED", "FD_CLOSED"}
          /\ file[t][fd].open_count \in Nat
          /\ file[t][fd].node \in Nodes <=> file[t][fd] # NoFile
    /\ ref_count \in [Nodes -> Nat] /\ open_count \in [Nodes -> Nat]

Readers(t, fd) == {p \in Procs : filesp[p] = t /\ io[p] # NULL /\ io[p].fd = fd}

\* A read that sleeps keeps its file: the slot still names the same inode,
\* though the descriptor may have been closed by another process, and the
\* count of the slot is one for each reader and one for being open.
ReadersKeepFiles ==
    /\ \A p \in Procs : io[p] # NULL => file[filesp[p]][io[p].fd].node = io[p].node
    /\ \A t \in Tables, fd \in FDs :
          file[t][fd].open_count
             = Cardinality(Readers(t, fd)) + IF fd \in Opened(t) THEN 1 ELSE 0

Slots(n) == {s \in Tables \X FDs : file[s[1]][s[2]].node = n}

\* The counts of an inode are the number of those that use it: a file too
\* many and it never leaves the memory, one too few and it leaves too early.
RefsExact ==
    \A n \in Nodes :
        /\ open_count[n] = Cardinality(Slots(n))
        /\ ref_count[n] = BaseRefs(n) + Cardinality(Slots(n))
                             + Cardinality({t \in Tables : pwd[t] = n})

\* A table lives as long as a process has it, and a dead one holds nothing.
TablesExact ==
    \A t \in Tables :
        /\ files_count[t] = Cardinality({p \in Procs : filesp[p] = t})
        /\ files_count[t] = 0 => /\ file[t] = [fd \in FDs |-> NoFile]
                                 /\ pwd[t] = NULL

\* No assertion fails: neither that of fd_array_free nor that of files_destroy.
AssertionsHold == panicked = "no"

\* Descriptors, tables, counts of inodes and sleeping reads tell the same.
TablesSound == /\ TypeOK
               /\ ReadersKeepFiles
               /\ RefsExact
               /\ TablesExact
               /\ AssertionsHold

\* What processes see of their descriptors, to each other and over time.
Promised == INSTANCE Descriptors WITH
    Permanent <- Devs \cup {root},
    table <- filesp,
    names <- [t \in Tables |-> [fd \in FDs |-> IF fd \in Opened(t)
                                               THEN file[t][fd].node ELSE NULL]],
    cwd <- pwd,
    reading <- io,
    inMemory <- {n \in Nodes : ref_count[n] > 0}

\* Not kept by the code, see "Disagreements" in README.md:
\* vop_reclaim is called when an inode is no longer in use: one that nobody
\* has open and that is nobody's directory has no reference but the system's.
UnusedAreReclaimed ==
    \A n \in Nodes : /\ Slots(n) = {}
                     /\ \A t \in Tables : pwd[t] # n
                     => ref_count[n] = BaseRefs(n)
=============================================================================
