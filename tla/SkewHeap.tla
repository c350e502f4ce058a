------------------------------ MODULE SkewHeap ------------------------------
(***************************************************************************)
(* The skew heap of lab6, libs/skew_heap.h: a binary heap with parent      *)
(* pointers that skew_heap_merge swings about, so that any entry can be    *)
(* removed.  Entries are compared by proc_stride_comp_f, whose strides     *)
(* wrap around: of two strides the smaller is the one from which the other *)
(* is reached in less than half the range.                                 *)
(*                                                                         *)
(* The scheduler that would use it is an exercise, without code: entries   *)
(* are inserted with any stride and removed in any order here, but all     *)
(* strides lie in half the range, as proc_stride_comp_f needs it.          *)
(***************************************************************************)
EXTENDS Integers, FiniteSets

CONSTANTS Entries, Range,       \* strides are numbers below Range, an even number
          NULL

SkewHeapAssumption == Range \in Nat \ {0} /\ Range % 2 = 0

Strides == 0 .. Range - 1

VARIABLES heap,                 \* parent, left and right of each entry
          root,                 \* the run queue's lab6_run_pool
          stride,               \* of each entry
          members               \* history: the entries inserted and not removed
vars == <<heap, root, stride, members>>

Node == [parent |-> NULL, left |-> NULL, right |-> NULL]

Init == /\ heap = [e \in Entries |-> Node]
        /\ root = NULL
        /\ stride = [e \in Entries |-> 0]
        /\ members = {}

-----------------------------------------------------------------------------
\* Mutant: strides are compared as they are.
BeforeUnwrapped(s, t) == s < t

\* proc_stride_comp_f(a, b) = -1 for entries with strides s and t: the signed
\* difference of two words is negative.
Before(s, t) == (s - t + Range) % Range >= Range \div 2

\* The end of a round of skew_heap_merge: the children of top change sides,
\* and l, the old right child merged with the other heap, becomes the left.
Swung(h, top, l) ==
    LET swung == [h EXCEPT ![top].left = l, ![top].right = h[top].left]
    IN  [swung EXCEPT ![l].parent = top]

\* skew_heap_merge of the heaps at a and b: the pointers, and the new top.
RECURSIVE Merge(_, _, _, _)
Merge(h, key, a, b) ==
    IF a = NULL THEN [heap |-> h, top |-> b]
    ELSE IF b = NULL THEN [heap |-> h, top |-> a]
    ELSE LET top == IF Before(key[a], key[b]) THEN a ELSE b
             rest == IF top = a THEN Merge(h, key, h[a].right, b)
                                ELSE Merge(h, key, a, h[b].right)
         IN  [heap |-> Swung(rest.heap, top, rest.top), top |-> top]

\* The pointers to and from rep, which takes the place of e.
Replaced(h, e, rep) ==
    LET p == h[e].parent
        up == IF rep = NULL THEN h ELSE [h EXCEPT ![rep].parent = p]
    IN  IF p = NULL THEN up
        ELSE IF up[p].left = e THEN [up EXCEPT ![p].left = rep]
        ELSE [up EXCEPT ![p].right = rep]

\* skew_heap_insert of e with the stride s.
Insert(e, s) ==
    LET key == [stride EXCEPT ![e] = s]
        merged == Merge([heap EXCEPT ![e] = Node], key, root, e)
    IN  /\ e \notin members
        /\ \E low \in Strides : \A m \in members \cup {e} :
              (key[m] - low + Range) % Range < Range \div 2
        /\ stride' = key
        /\ heap' = merged.heap /\ root' = merged.top
        /\ members' = members \cup {e}

\* skew_heap_remove of e.  Its own fields are not read before it is inserted
\* again, which sets them; here they are cleared.
Remove(e) ==
    LET merged == Merge(heap, stride, heap[e].left, heap[e].right)
    IN  /\ e \in members
        /\ heap' = [Replaced(merged.heap, e, merged.top) EXCEPT ![e] = Node]
        /\ root' = IF heap[e].parent = NULL THEN merged.top ELSE root
        /\ members' = members \ {e}
        /\ stride' = [stride EXCEPT ![e] = 0]

Next == \E e \in Entries : Remove(e) \/ \E s \in Strides : Insert(e, s)

Spec == Init /\ [][Next]_vars

-----------------------------------------------------------------------------
Children(e) == {heap[e].left, heap[e].right} \ {NULL}

\* The entries below those of a set, themselves included.
RECURSIVE Below(_)
Below(S) == LET T == S \cup UNION {Children(e) : e \in S}
            IN  IF T = S THEN S ELSE Below(T)

\* The heap holds what was inserted and not removed: nothing is cut off when
\* children change sides.
HoldsMembers == Below({root} \ {NULL}) = members

\* It is a tree, and the parent pointers, with which skew_heap_remove finds the
\* place of an entry, agree with the children.
ParentsExact ==
    /\ \A e \in members :
          IF e = root THEN heap[e].parent = NULL
          ELSE heap[e].parent # NULL /\ e \in Children(heap[e].parent)
    /\ \A e \in members : \A f \in Children(e) : heap[f].parent = e
    /\ \A e \in members :
          heap[e].left # NULL => heap[e].left # heap[e].right

\* The entry at the root is one with the least stride, as strides wrap around:
\* every other stride is less than half the range ahead of it.
RootIsFirst ==
    \A e \in members : (stride[e] - stride[root] + Range) % Range < Range \div 2

\* The run pool is a heap of what was inserted.
PoolSound == HoldsMembers /\ ParentsExact /\ RootIsFirst
=============================================================================
