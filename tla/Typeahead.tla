----------------------------- MODULE Typeahead -----------------------------
(***************************************************************************)
(* What the keyboard promises those who read it: every character is given  *)
(* to one reader, in the order of typing, and Room of them are kept until  *)
(* somebody reads.  One that comes when there is no room replaces the      *)
(* oldest, so that the reader gets it first.                               *)
(***************************************************************************)
EXTENDS Naturals, Sequences

CONSTANTS Readers, Chars, Room

VARIABLES queue,      \* the characters nobody has read
          got         \* what each reader's call has read so far
vars == <<queue, got>>

Init == queue = <<>> /\ got = [r \in Readers |-> <<>>]

Type(c) ==
    /\ queue' = IF Len(queue) < Room THEN Append(queue, c)
                                     ELSE [queue EXCEPT ![1] = c]
    /\ UNCHANGED got

Read(r) ==
    \E n \in 1 .. Len(queue) :
        /\ got' = [got EXCEPT ![r] = @ \o SubSeq(queue, 1, n)]
        /\ queue' = SubSeq(queue, n + 1, Len(queue))

\* The call returns with what it has.
Return(r) == got' = [got EXCEPT ![r] = <<>>] /\ UNCHANGED queue

Next == \/ \E c \in Chars : Type(c)
        \/ \E r \in Readers : Read(r) \/ Return(r)

Spec == Init /\ [][Next]_vars
=============================================================================
