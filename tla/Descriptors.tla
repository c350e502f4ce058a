---------------------------- MODULE Descriptors ----------------------------
(***************************************************************************)
(* What file descriptors promise.  A process has a table of them, perhaps  *)
(* shared; a read that has begun goes on with its file whatever becomes of *)
(* the descriptor, whose number is not given out again before the read     *)
(* ends; and a file is in memory as long as a descriptor, a read, a        *)
(* working directory or the system needs it, and no longer.                *)
(***************************************************************************)
EXTENDS Naturals, FiniteSetsExt

CONSTANTS Procs, Tables, FDs, Nodes, Permanent, NULL

VARIABLES table,        \* the table of each process, or NULL
          names,        \* the file of each descriptor, or NULL
          cwd,
          reading,      \* what each process reads: [fd, node], or NULL
          inMemory
vars == <<table, names, cwd, reading, inMemory>>

InUse == {n \in Nodes : \/ n \in Permanent
                        \/ \E t \in Tables, fd \in FDs : names[t][fd] = n
                        \/ \E t \in Tables : cwd[t] = n
                        \/ \E p \in Procs : reading[p] # NULL
                                             /\ reading[p].node = n}

Init == /\ \E p \in Procs, t \in Tables :
              table = [q \in Procs |-> IF q = p THEN t ELSE NULL]
        /\ names = [t \in Tables |-> [fd \in FDs |-> NULL]]
        /\ cwd \in [Tables -> Permanent \cup {NULL}]
        /\ reading = [p \in Procs |-> NULL]
        /\ inMemory = Permanent

Free(t) == {fd \in FDs : /\ names[t][fd] = NULL
                         /\ \A p \in Procs : table[p] = t /\ reading[p] # NULL
                                                => reading[p].fd # fd}

Idle(p) == table[p] # NULL /\ reading[p] = NULL

Open(p, n) ==
    /\ Idle(p) /\ Free(table[p]) # {}
    /\ names' = [names EXCEPT ![table[p]][Min(Free(table[p]))] = n]
    /\ UNCHANGED <<table, cwd, reading>>

Dup(p, from, to) ==
    /\ Idle(p) /\ names[table[p]][from] # NULL /\ to \in Free(table[p])
    /\ names' = [names EXCEPT ![table[p]][to] = names[table[p]][from]]
    /\ UNCHANGED <<table, cwd, reading>>

Close(p, fds) ==
    /\ Idle(p)
    /\ names' = [names EXCEPT ![table[p]] =
                    [fd \in FDs |-> IF fd \in fds THEN NULL ELSE @[fd]]]
    /\ UNCHANGED <<table, cwd, reading>>

ReadBegins(p, fd) ==
    /\ Idle(p) /\ names[table[p]][fd] # NULL
    /\ reading' = [reading EXCEPT ![p] =
                      [fd |-> fd, node |-> names[table[p]][fd]]]
    /\ UNCHANGED <<table, names, cwd>>

ReadEnds(p) == /\ reading[p] # NULL
               /\ reading' = [reading EXCEPT ![p] = NULL]
               /\ UNCHANGED <<table, names, cwd>>

Chdir(p, d) == /\ Idle(p)
               /\ cwd' = [cwd EXCEPT ![table[p]] = d]
               /\ UNCHANGED <<table, names, reading>>

\* A child with a copy of the table.
Fork(p, q, t) ==
    /\ Idle(p) /\ table[q] = NULL /\ \A r \in Procs : table[r] # t
    /\ table' = [table EXCEPT ![q] = t]
    /\ names' = [names EXCEPT ![t] = names[table[p]]]
    /\ cwd' = [cwd EXCEPT ![t] = cwd[table[p]]]
    /\ UNCHANGED reading

\* A child that shares the table.
Clone(p, q) == /\ Idle(p) /\ table[q] = NULL
               /\ table' = [table EXCEPT ![q] = table[p]]
               /\ UNCHANGED <<names, cwd, reading>>

Exit(p) ==
    /\ Idle(p)
    /\ table' = [table EXCEPT ![p] = NULL]
    /\ IF \E q \in Procs \ {p} : table[q] = table[p]
       THEN UNCHANGED <<names, cwd>>
       ELSE /\ names' = [names EXCEPT ![table[p]] = [fd \in FDs |-> NULL]]
            /\ cwd' = [cwd EXCEPT ![table[p]] = NULL]
    /\ UNCHANGED reading

Step(p) ==
    \/ \E n \in Nodes : Open(p, n) \/ Chdir(p, n)
    \/ \E fd, to \in FDs : Dup(p, fd, to)
    \/ \E fds \in SUBSET FDs : Close(p, fds)
    \/ \E fd \in FDs : ReadBegins(p, fd)
    \/ ReadEnds(p) \/ Exit(p)
    \/ \E q \in Procs : Clone(p, q) \/ \E t \in Tables : Fork(p, q, t)

Next == (\E p \in Procs : Step(p)) /\ inMemory' = InUse'

Spec == Init /\ [][Next]_vars
=============================================================================
