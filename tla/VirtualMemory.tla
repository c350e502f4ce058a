--------------------------- MODULE VirtualMemory ---------------------------
(***************************************************************************)
(* What virtual memory promises its processes, whatever becomes of frames, *)
(* page tables and the swap disk below: every address space is a private   *)
(* map from pages to contents.  A page is NULL until it is first used and  *)
(* then holds an arbitrary value; from then on it changes by the writes of *)
(* the processes in that space alone, fork copies it, and exec begins a    *)
(* new one.                                                                *)
(***************************************************************************)
CONSTANTS Procs, Spaces, Pages, Values, NULL

VARIABLES space,           \* the address space of each process, or NULL
          mem              \* the contents of every space

vars == <<space, mem>>

Empty == [a \in Pages |-> NULL]

Init == /\ space = [p \in Procs |-> NULL]
        /\ mem = [s \in Spaces |-> Empty]

\* A page holds what happened to be in its frame when it is first used.
Touch(p, a) ==
    /\ space[p] # NULL /\ mem[space[p]][a] = NULL
    /\ \E v \in Values : mem' = [mem EXCEPT ![space[p]][a] = v]
    /\ UNCHANGED space

Write(p, a, v) ==
    /\ space[p] # NULL /\ mem[space[p]][a] # NULL
    /\ mem' = [mem EXCEPT ![space[p]][a] = v]
    /\ UNCHANGED space

\* What becomes of the memory when p leaves its space: the last user frees it.
Left(p) ==
    IF space[p] # NULL /\ \A q \in Procs \ {p} : space[q] # space[p]
    THEN [mem EXCEPT ![space[p]] = Empty]
    ELSE mem

Unused(s) == s \notin {space[p] : p \in Procs}

Exec(p, s) ==
    /\ \A q \in Procs \ {p} : space[q] # s
    /\ mem'[s] \in [Pages -> Values \cup {NULL}]
    /\ mem' = [Left(p) EXCEPT ![s] = mem'[s]]
    /\ space' = [space EXCEPT ![p] = s]

Fork(p, child, s) ==
    /\ space[p] # NULL /\ space[child] = NULL /\ Unused(s)
    /\ mem' = [mem EXCEPT ![s] = mem[space[p]]]
    /\ space' = [space EXCEPT ![child] = s]

Clone(p, child) ==
    /\ space[p] # NULL /\ space[child] = NULL
    /\ space' = [space EXCEPT ![child] = space[p]]
    /\ UNCHANGED mem

Exit(p) ==
    /\ space[p] # NULL
    /\ mem' = Left(p)
    /\ space' = [space EXCEPT ![p] = NULL]

Next == \E p \in Procs :
            \/ \E a \in Pages : \/ Touch(p, a)
                                \/ \E v \in Values : Write(p, a, v)
            \/ \E s \in Spaces : Exec(p, s)
            \/ \E child \in Procs :
                    \/ Clone(p, child)
                    \/ \E s \in Spaces : Fork(p, child, s)
            \/ Exit(p)

Spec == Init /\ [][Next]_vars
=============================================================================
