--------------------------- MODULE SequenceLemmas ---------------------------
(***************************************************************************)
(* What the proofs need to know about the sequences that stand for the     *)
(* kernel's linked lists: which elements a list holds after an insertion   *)
(* at its head, a removal, or the transfer of a whole list, and that no    *)
(* element is on it twice.                                                 *)
(***************************************************************************)
EXTENDS Integers, Sequences, SequencesExt, FiniteSetTheorems, TLAPS

\* A sequence is the function of its elements.
LEMMA SequenceIs ==
  ASSUME NEW S, NEW s \in Seq(S), NEW n, n = Len(s)
  PROVE  s = [i \in 1 .. n |-> s[i]]
<1>1. s \in [1 .. n -> S]
  OBVIOUS
<1>2. QED
  BY <1>1, Zenon

\* Putting an element at the head of a sequence shifts the others by one.
LEMMA ConsProperties ==
  ASSUME NEW S, NEW s \in Seq(S), NEW p \in S
  PROVE  /\ <<p>> \o s \in Seq(S)
         /\ Len(<<p>> \o s) = Len(s) + 1
         /\ \A i \in 1 .. Len(s) + 1 :
               (<<p>> \o s)[i] = IF i = 1 THEN p ELSE s[i - 1]
OBVIOUS

\* The elements of a concatenation.
LEMMA ConcatElements ==
  ASSUME NEW S, NEW a \in Seq(S), NEW b \in Seq(S)
  PROVE  /\ a \o b \in Seq(S)
         /\ Len(a \o b) = Len(a) + Len(b)
         /\ \A j \in 1 .. Len(a) + Len(b) :
               (a \o b)[j] = IF j <= Len(a) THEN a[j] ELSE b[j - Len(a)]
OBVIOUS

\* RemoveAt closes the gap: the elements behind position i move up by one.
LEMMA RemoveAtProperties ==
  ASSUME NEW S, NEW s \in Seq(S), NEW i \in 1 .. Len(s)
  PROVE  /\ RemoveAt(s, i) \in Seq(S)
         /\ Len(RemoveAt(s, i)) = Len(s) - 1
         /\ \A j \in 1 .. Len(s) - 1 :
               RemoveAt(s, i)[j] = IF j < i THEN s[j] ELSE s[j + 1]
<1>1. /\ SubSeq(s, 1, i - 1) \in Seq(S)
      /\ Len(SubSeq(s, 1, i - 1)) = i - 1
      /\ \A j \in 1 .. i - 1 : SubSeq(s, 1, i - 1)[j] = s[j]
  OBVIOUS
<1>2. /\ SubSeq(s, i + 1, Len(s)) \in Seq(S)
      /\ Len(SubSeq(s, i + 1, Len(s))) = Len(s) - i
      /\ \A j \in 1 .. Len(s) - i : SubSeq(s, i + 1, Len(s))[j] = s[i + j]
  OBVIOUS
<1> DEFINE a == SubSeq(s, 1, i - 1)
           b == SubSeq(s, i + 1, Len(s))
<1>3. RemoveAt(s, i) = a \o b
  BY DEF RemoveAt
<1>4. /\ a \o b \in Seq(S)
      /\ Len(a \o b) = Len(a) + Len(b)
      /\ \A j \in 1 .. Len(a) + Len(b) :
            (a \o b)[j] = IF j <= Len(a) THEN a[j] ELSE b[j - Len(a)]
  <2>1. a \in Seq(S) /\ b \in Seq(S)
    BY <1>1, <1>2
  <2> HIDE DEF a, b
  <2>2. QED
    BY <2>1, ConcatElements
<1>5. Len(a) = i - 1 /\ Len(b) = Len(s) - i /\ Len(s) \in Nat
  BY <1>1, <1>2
<1>6. ASSUME NEW j \in 1 .. Len(s) - 1
      PROVE  (a \o b)[j] = IF j < i THEN s[j] ELSE s[j + 1]
  <2>1. CASE j < i
    <3>1. j \in 1 .. i - 1
      BY <2>1
    <3>2. (a \o b)[j] = a[j]
      <4> HIDE DEF a, b
      <4> QED BY <1>4, <1>5, <2>1
    <3>3. QED
      BY <1>1, <2>1, <3>1, <3>2
  <2>2. CASE ~(j < i)
    <3>1. /\ j - (i - 1) \in 1 .. Len(s) - i
          /\ i + (j - (i - 1)) = j + 1
      BY <2>2, <1>5
    <3>2. (a \o b)[j] = b[j - (i - 1)]
      <4> HIDE DEF a, b
      <4> QED BY <1>4, <1>5, <2>2
    <3>3. b[j - (i - 1)] = s[i + (j - (i - 1))]
      BY <1>2, <3>1
    <3>4. QED
      BY <2>2, <3>1, <3>2, <3>3
  <2>3. QED
    BY <2>1, <2>2
<1>7. QED
  <2> HIDE DEF a, b
  <2> QED BY <1>3, <1>4, <1>5, <1>6

\* A process linked at the head of a list that does not hold it yet.
LEMMA ConsSet ==
  ASSUME NEW S, NEW s \in Seq(S), NEW p \in S, IsInjective(s), p \notin ToSet(s)
  PROVE  /\ <<p>> \o s \in Seq(S)
         /\ Len(<<p>> \o s) = Len(s) + 1
         /\ ToSet(<<p>> \o s) = ToSet(s) \cup {p}
         /\ IsInjective(<<p>> \o s)
<1> DEFINE r == <<p>> \o s
<1>1. /\ r \in Seq(S)
      /\ Len(r) = Len(s) + 1
      /\ \A i \in 1 .. Len(s) + 1 : r[i] = IF i = 1 THEN p ELSE s[i - 1]
  BY ConsProperties
<1>2. /\ Len(s) \in Nat
      /\ DOMAIN s = 1 .. Len(s)
      /\ DOMAIN r = 1 .. Len(s) + 1
  BY <1>1
<1> HIDE DEF r
<1>3. \A i \in 1 .. Len(s) : i + 1 \in 1 .. Len(s) + 1 /\ r[i + 1] = s[i]
  BY <1>1, <1>2
<1>4. ToSet(r) \subseteq ToSet(s) \cup {p}
  <2> SUFFICES ASSUME NEW i \in 1 .. Len(s) + 1, i # 1
               PROVE  r[i] \in ToSet(s)
    BY <1>1, <1>2 DEF ToSet
  <2>1. i - 1 \in 1 .. Len(s) /\ r[i] = s[i - 1]
    BY <1>1, <1>2
  <2>2. QED
    BY <2>1, <1>2 DEF ToSet
<1>5. ToSet(s) \subseteq ToSet(r)
  BY <1>2, <1>3 DEF ToSet
<1>6. p \in ToSet(r)
  <2>1. 1 \in 1 .. Len(s) + 1 /\ r[1] = p
    BY <1>1, <1>2
  <2>2. QED
    BY <2>1, <1>2 DEF ToSet
<1>7. IsInjective(r)
  <2> SUFFICES ASSUME NEW i \in 1 .. Len(s) + 1, NEW j \in 1 .. Len(s) + 1,
                      r[i] = r[j]
               PROVE  i = j
    BY <1>2 DEF IsInjective
  <2>1. ASSUME NEW k \in 1 .. Len(s) + 1, k # 1
        PROVE  k - 1 \in 1 .. Len(s) /\ r[k] = s[k - 1] /\ r[k] # p
    <3>1. k - 1 \in 1 .. Len(s) /\ r[k] = s[k - 1]
      BY <1>1, <1>2, <2>1
    <3>2. QED
      BY <3>1, <1>2 DEF ToSet
  <2>2. r[1] = p
    BY <1>1, <1>2
  <2>3. CASE i = 1 \/ j = 1
    BY <2>1, <2>2, <2>3
  <2>4. CASE i # 1 /\ j # 1
    <3>1. /\ i - 1 \in DOMAIN s
          /\ j - 1 \in DOMAIN s
          /\ s[i - 1] = s[j - 1]
      BY <2>1, <2>4, <1>2
    <3>2. i - 1 = j - 1
      BY <3>1 DEF IsInjective
    <3>3. QED
      BY <3>2
  <2>5. QED
    BY <2>3, <2>4
<1>8. QED
  BY <1>1, <1>4, <1>5, <1>6, <1>7 DEF r

\* A process taken off a list that holds it once.
LEMMA RemoveSet ==
  ASSUME NEW S, NEW s \in Seq(S), IsInjective(s), NEW i \in 1 .. Len(s)
  PROVE  /\ RemoveAt(s, i) \in Seq(S)
         /\ Len(RemoveAt(s, i)) = Len(s) - 1
         /\ ToSet(RemoveAt(s, i)) = ToSet(s) \ {s[i]}
         /\ IsInjective(RemoveAt(s, i))
<1> DEFINE r == RemoveAt(s, i)
           up(n) == IF n < i THEN n ELSE n + 1
           down(n) == IF n < i THEN n ELSE n - 1
<1>1. /\ r \in Seq(S)
      /\ Len(r) = Len(s) - 1
      /\ \A j \in 1 .. Len(s) - 1 : r[j] = IF j < i THEN s[j] ELSE s[j + 1]
  BY RemoveAtProperties
<1>2. /\ Len(s) \in Nat
      /\ DOMAIN s = 1 .. Len(s)
      /\ DOMAIN r = 1 .. Len(s) - 1
  BY <1>1
<1> HIDE DEF r
<1>3. \A j \in 1 .. Len(s) - 1 :
         up(j) \in 1 .. Len(s) /\ up(j) # i /\ r[j] = s[up(j)]
  BY <1>1, <1>2
<1>4. \A j \in 1 .. Len(s) : j # i =>
         down(j) \in 1 .. Len(s) - 1 /\ r[down(j)] = s[j]
  BY <1>1, <1>2
<1>5. \A j, k \in 1 .. Len(s) - 1 : up(j) = up(k) => j = k
  BY <1>2
<1> HIDE DEF up, down
<1>6. \A j, k \in 1 .. Len(s) : s[j] = s[k] => j = k
  BY <1>2 DEF IsInjective
<1>7. ToSet(r) \subseteq ToSet(s) \ {s[i]}
  BY <1>2, <1>3, <1>6 DEF ToSet
<1>8. ToSet(s) \ {s[i]} \subseteq ToSet(r)
  BY <1>2, <1>4 DEF ToSet
<1>9. IsInjective(r)
  BY <1>2, <1>3, <1>5, <1>6 DEF IsInjective
<1>10. QED
  BY <1>1, <1>7, <1>8, <1>9 DEF r

\* A process appended to a list that does not hold it yet.
LEMMA AppendSet ==
  ASSUME NEW S, NEW s \in Seq(S), NEW p \in S, IsInjective(s), p \notin ToSet(s)
  PROVE  /\ Append(s, p) \in Seq(S)
         /\ Append(s, p) # <<>>
         /\ ToSet(Append(s, p)) = ToSet(s) \cup {p}
         /\ IsInjective(Append(s, p))
<1> DEFINE r == Append(s, p)
<1>1. /\ r \in Seq(S)
      /\ Len(r) = Len(s) + 1
      /\ \A i \in 1 .. Len(s) : r[i] = s[i]
      /\ r[Len(s) + 1] = p
  OBVIOUS
<1>2. /\ Len(s) \in Nat
      /\ DOMAIN s = 1 .. Len(s)
      /\ DOMAIN r = 1 .. Len(s) + 1
  BY <1>1
<1> HIDE DEF r
<1>3. \A i \in 1 .. Len(s) + 1 : i \notin 1 .. Len(s) => i = Len(s) + 1
  BY <1>2
<1>4. \A i \in 1 .. Len(s) : s[i] # p
  BY <1>2 DEF ToSet
<1>5. ToSet(r) \subseteq ToSet(s) \cup {p}
  BY <1>1, <1>2, <1>3 DEF ToSet
<1>6. ToSet(s) \subseteq ToSet(r)
  <2>1. \A i \in 1 .. Len(s) : i \in 1 .. Len(s) + 1
    BY <1>2
  <2>2. QED
    BY <2>1, <1>1, <1>2 DEF ToSet
<1>7. p \in ToSet(r)
  <2>1. Len(s) + 1 \in 1 .. Len(s) + 1
    BY <1>2
  <2>2. QED
    BY <2>1, <1>1, <1>2 DEF ToSet
<1>8. IsInjective(r)
  BY <1>1, <1>2, <1>3, <1>4 DEF IsInjective
<1>9. r # <<>>
  BY <1>1, <1>2
<1>10. QED
  BY <1>1, <1>5, <1>6, <1>7, <1>8, <1>9 DEF r

\* Whoever is not on a list cannot be taken off it.
LEMMA RemoveAbsent ==
  ASSUME NEW S, NEW s \in Seq(S), NEW p, p \notin ToSet(s)
  PROVE  RemoveFirst(s, p) = s
<1>1. ~ \E i \in 1 .. Len(s) : s[i] = p
  BY DEF ToSet
<1>2. QED
  BY <1>1 DEF RemoveFirst

\* Taking off the first element leaves the tail.
LEMMA RemoveHead ==
  ASSUME NEW S, NEW s \in Seq(S), s # <<>>
  PROVE  RemoveAt(s, 1) = Tail(s) /\ s[1] = Head(s)
<1>1. Len(s) \in Nat /\ 1 \in 1 .. Len(s)
  OBVIOUS
<1>2. /\ RemoveAt(s, 1) \in Seq(S)
      /\ Len(RemoveAt(s, 1)) = Len(s) - 1
      /\ \A j \in 1 .. Len(s) - 1 :
            RemoveAt(s, 1)[j] = IF j < 1 THEN s[j] ELSE s[j + 1]
  BY <1>1, RemoveAtProperties
<1>3. \A j \in 1 .. Len(s) - 1 : RemoveAt(s, 1)[j] = s[j + 1]
  BY <1>1, <1>2
<1>4. /\ Tail(s) \in Seq(S)
      /\ Len(Tail(s)) = Len(s) - 1
      /\ \A j \in 1 .. Len(s) - 1 : Tail(s)[j] = s[j + 1]
  OBVIOUS
<1>5. QED
  BY <1>2, <1>3, <1>4

\* Two sequences without repetitions and without common elements, joined.
LEMMA ConcatSet ==
  ASSUME NEW S, NEW s \in Seq(S), NEW t \in Seq(S),
         IsInjective(s), IsInjective(t),
         \A x \in ToSet(s) : x \notin ToSet(t)
  PROVE  /\ s \o t \in Seq(S)
         /\ IsInjective(s \o t)
         /\ ToSet(s \o t) = ToSet(s) \cup ToSet(t)
<1> DEFINE c == s \o t
           m == Len(s)
           n == Len(t)
<1>1. /\ c \in Seq(S) /\ Len(c) = m + n
      /\ \A j \in 1 .. m + n : c[j] = IF j <= m THEN s[j] ELSE t[j - m]
      /\ m \in Nat /\ n \in Nat
  BY ConcatElements
<1>2. /\ DOMAIN c = 1 .. m + n
      /\ DOMAIN s = 1 .. m /\ DOMAIN t = 1 .. n
  BY <1>1
<1>3. /\ \A i, j \in 1 .. m : s[i] = s[j] => i = j
      /\ \A i, j \in 1 .. n : t[i] = t[j] => i = j
      /\ \A i \in 1 .. m, j \in 1 .. n : s[i] # t[j]
  BY <1>2 DEF IsInjective, ToSet
<1> HIDE DEF c, m, n
<1>4. /\ \A i \in 1 .. m : i \in 1 .. m + n /\ c[i] = s[i]
      /\ \A i \in 1 .. n : m + i \in 1 .. m + n /\ c[m + i] = t[i]
      /\ \A j \in 1 .. m + n :
            \/ j \in 1 .. m /\ c[j] = s[j]
            \/ j - m \in 1 .. n /\ c[j] = t[j - m]
  BY <1>1
<1>5. ToSet(c) = ToSet(s) \cup ToSet(t)
  BY <1>2, <1>4 DEF ToSet
<1>6. \A i, j \in 1 .. m + n : c[i] = c[j] => i = j
  <2> SUFFICES ASSUME NEW i \in 1 .. m + n, NEW j \in 1 .. m + n, c[i] = c[j]
               PROVE  i = j
    OBVIOUS
  <2>1. CASE i \in 1 .. m /\ j \in 1 .. m
    BY <1>3, <1>4, <2>1
  <2>2. CASE i \in 1 .. m /\ j \notin 1 .. m
    BY <1>3, <1>4, <2>2
  <2>3. CASE i \notin 1 .. m /\ j \in 1 .. m
    BY <1>3, <1>4, <2>3
  <2>4. CASE i \notin 1 .. m /\ j \notin 1 .. m
    <3>1. i - m \in 1 .. n /\ j - m \in 1 .. n /\ t[i - m] = t[j - m]
      BY <1>4, <2>4
    <3>2. i - m = j - m
      BY <1>3, <3>1
    <3>3. QED
      BY <1>1, <3>2
  <2>5. QED
    BY <2>1, <2>2, <2>3, <2>4
<1>7. QED
  BY <1>1, <1>2, <1>5, <1>6 DEF c, IsInjective

\* A list moved in reverse to the head of another one.
LEMMA ReverseConcatSet ==
  ASSUME NEW S, NEW s \in Seq(S), NEW t \in Seq(S),
         IsInjective(s), IsInjective(t), ToSet(s) \cap ToSet(t) = {}
  PROVE  /\ Reverse(s) \o t \in Seq(S)
         /\ ToSet(Reverse(s) \o t) = ToSet(s) \cup ToSet(t)
         /\ IsInjective(Reverse(s) \o t)
<1> DEFINE r == Reverse(s)
           c == r \o t
           m == Len(s)
           n == Len(t)
<1>1. /\ r \in Seq(S)
      /\ Len(r) = m
      /\ \A i \in 1 .. m : r[i] = s[(m - i) + 1]
  BY DEF Reverse
<1>2. /\ m \in Nat /\ n \in Nat
      /\ DOMAIN s = 1 .. m
      /\ DOMAIN t = 1 .. n
  OBVIOUS
<1>3. /\ c \in Seq(S)
      /\ Len(c) = m + n
      /\ \A j \in 1 .. m + n : c[j] = IF j <= m THEN r[j] ELSE t[j - m]
  <2>1. r \in Seq(S) /\ Len(r) = m
    BY <1>1
  <2> HIDE DEF r, m
  <2>2. /\ r \o t \in Seq(S)
        /\ Len(r \o t) = Len(r) + Len(t)
        /\ \A j \in 1 .. Len(r) + Len(t) :
              (r \o t)[j] = IF j <= Len(r) THEN r[j] ELSE t[j - Len(r)]
    BY <2>1, ConcatElements
  <2>3. QED
    BY <2>1, <2>2
<1>4. DOMAIN c = 1 .. m + n
  BY <1>3
<1> HIDE DEF r, c, m, n
<1> DEFINE back(j) == (m - j) + 1
<1>5. \A j \in 1 .. m : /\ j \in 1 .. m + n
                       /\ back(j) \in 1 .. m
                       /\ back(back(j)) = j
                       /\ c[j] = s[back(j)]
  BY <1>1, <1>2, <1>3
<1>6. \A j \in 1 .. m + n : j \notin 1 .. m =>
         j - m \in 1 .. n /\ c[j] = t[j - m]
  BY <1>2, <1>3
<1>7. \A j \in 1 .. n : j + m \in 1 .. m + n /\ c[j + m] = t[j]
  BY <1>2, <1>3
<1>8. \A j, k \in 1 .. m : s[j] = s[k] => j = k
  BY <1>2 DEF IsInjective
<1>9. \A j, k \in 1 .. n : t[j] = t[k] => j = k
  BY <1>2 DEF IsInjective
<1>10. \A j \in 1 .. m, k \in 1 .. n : s[j] # t[k]
  BY <1>2 DEF ToSet
<1>11. ToSet(c) \subseteq ToSet(s) \cup ToSet(t)
  <2> HIDE DEF back
  <2> QED BY <1>2, <1>4, <1>5, <1>6 DEF ToSet
<1>12. ToSet(s) \cup ToSet(t) \subseteq ToSet(c)
  <2>1. \A j \in 1 .. m : s[j] = c[back(j)] /\ back(j) \in 1 .. m + n
    <3> HIDE DEF back
    <3> QED BY <1>5
  <2> HIDE DEF back
  <2>2. ToSet(s) \subseteq ToSet(c)
    BY <2>1, <1>2, <1>4 DEF ToSet
  <2>3. ToSet(t) \subseteq ToSet(c)
    <3>1. \A j \in 1 .. n : t[j] = c[j + m] /\ j + m \in 1 .. m + n
      BY <1>7
    <3>2. QED
      BY <3>1, <1>2, <1>4 DEF ToSet
  <2>4. QED
    BY <2>2, <2>3
<1>13. IsInjective(c)
  <2> SUFFICES ASSUME NEW j \in 1 .. m + n, NEW k \in 1 .. m + n, c[j] = c[k]
               PROVE  j = k
    BY <1>4 DEF IsInjective
  <2> HIDE DEF back
  <2>1. CASE j \in 1 .. m /\ k \in 1 .. m
    BY <2>1, <1>5, <1>8
  <2>2. CASE j \notin 1 .. m /\ k \notin 1 .. m
    <3>1. j - m = k - m
      BY <2>2, <1>6, <1>9
    <3>2. QED
      BY <3>1, <1>2
  <2>3. CASE j \in 1 .. m /\ k \notin 1 .. m
    BY <2>3, <1>5, <1>6, <1>10
  <2>4. CASE j \notin 1 .. m /\ k \in 1 .. m
    BY <2>4, <1>5, <1>6, <1>10
  <2>5. QED
    BY <2>1, <2>2, <2>3, <2>4
<1>14. QED
  BY <1>3, <1>11, <1>12, <1>13 DEF r, c

\* A set of naturals that is not empty has a least element.  The library's
\* induction theorems cannot be instantiated here, but its well-founded order
\* on finite sets can: the intervals 0 .. k take the place of the numbers.
LEMMA MinInSet ==
  ASSUME NEW T \in SUBSET Nat, T # {}
  PROVE  Min(T) \in T /\ \A j \in T : Min(T) <= j
<1> DEFINE R == StrictSubsetOrdering(Nat)
           F == {0 .. k : k \in T}
<1>1. F \subseteq FiniteSubsetsOf(Nat) /\ F # {}
  <2>1. \A k \in T : 0 .. k \in FiniteSubsetsOf(Nat)
    BY FS_Interval DEF FiniteSubsetsOf
  <2>2. QED
    BY <2>1
<1>2. PICK U \in F : \A V \in F : <<V, U>> \notin R
  <2>1. IsWellFoundedOn(R, FiniteSubsetsOf(Nat))
    BY FS_StrictSubsetOrderingWellFounded
  <2> HIDE DEF R, F
  <2>2. QED
    BY <1>1, <2>1, WFMin
<1>3. PICK k \in T : U = 0 .. k
  OBVIOUS
<1>4. ASSUME NEW j \in T, j < k
      PROVE  FALSE
  <2>1. /\ 0 .. j \subseteq Nat
        /\ 0 .. k \subseteq Nat
        /\ 0 .. j \subseteq 0 .. k
        /\ k \in 0 .. k
        /\ k \notin 0 .. j
    BY <1>4
  <2>2. <<0 .. j, 0 .. k>> \in R
    BY <2>1 DEF StrictSubsetOrdering
  <2>3. QED
    BY <2>2, <1>2, <1>3
<1>5. \A j \in T : k <= j
  BY <1>4
<1>6. QED
  BY <1>5 DEF Min

\* RemoveFirst takes off the element at its only position.
LEMMA RemoveFirstAt ==
  ASSUME NEW S, NEW s \in Seq(S), IsInjective(s), NEW i \in 1 .. Len(s)
  PROVE  RemoveFirst(s, s[i]) = RemoveAt(s, i)
<1> DEFINE I == {j \in 1 .. Len(s) : s[j] = s[i]}
<1>1. I = {i}
  BY DEF IsInjective
<1>2. Min(I) = i
  BY <1>1 DEF Min
<1>3. SelectInSeq(s, LAMBDA v : v = s[i]) = i
  BY <1>1, <1>2 DEF SelectInSeq
<1>4. QED
  BY <1>3 DEF RemoveFirst

\* Inserting an element shifts those from its place on.
LEMMA InsertAtProperties ==
  ASSUME NEW S, NEW s \in Seq(S), NEW i \in 1 .. Len(s) + 1, NEW e \in S
  PROVE  /\ InsertAt(s, i, e) \in Seq(S)
         /\ Len(InsertAt(s, i, e)) = Len(s) + 1
         /\ \A j \in 1 .. Len(s) + 1 :
               InsertAt(s, i, e)[j] = IF j < i THEN s[j]
                                      ELSE IF j = i THEN e ELSE s[j - 1]
<1> DEFINE front == SubSeq(s, 1, i - 1)
           back  == SubSeq(s, i, Len(s))
<1>1. Len(s) \in Nat /\ i \in Nat /\ i >= 1 /\ i <= Len(s) + 1
  OBVIOUS
<1>2. /\ front \in Seq(S) /\ Len(front) = i - 1
      /\ \A j \in 1 .. i - 1 : front[j] = s[j]
  BY <1>1
<1>3. /\ back \in Seq(S) /\ Len(back) = Len(s) - i + 1
      /\ \A j \in 1 .. Len(s) - i + 1 : back[j] = s[i + j - 1]
  BY <1>1
<1> HIDE DEF front, back
<1>4. <<e>> \in Seq(S) /\ Len(<<e>>) = 1 /\ <<e>>[1] = e
  OBVIOUS
<1>5. /\ front \o <<e>> \in Seq(S) /\ Len(front \o <<e>>) = i
      /\ \A j \in 1 .. i : (front \o <<e>>)[j] = IF j < i THEN s[j] ELSE e
  <2>1. Len(front) + 1 = i
    BY <1>1, <1>2
  <2>2. QED
    BY <1>1, <1>2, <1>4, <2>1, ConcatElements
<1> DEFINE first == front \o <<e>>
<1> HIDE DEF first
<1>6. /\ first \in Seq(S) /\ Len(first) = i
      /\ \A j \in 1 .. i : first[j] = IF j < i THEN s[j] ELSE e
  BY <1>5 DEF first
<1>7. /\ first \o back \in Seq(S) /\ Len(first \o back) = Len(s) + 1
      /\ \A j \in 1 .. Len(s) + 1 :
            (first \o back)[j] = IF j <= i THEN first[j] ELSE back[j - i]
  <2>1. Len(first) + Len(back) = Len(s) + 1
    BY <1>1, <1>3, <1>6
  <2>2. /\ first \o back \in Seq(S) /\ Len(first \o back) = Len(first) + Len(back)
        /\ \A j \in 1 .. Len(first) + Len(back) :
              (first \o back)[j] = IF j <= Len(first) THEN first[j]
                                   ELSE back[j - Len(first)]
    BY <1>3, <1>6, ConcatElements
  <2>3. QED
    BY <1>6, <2>1, <2>2
<1>8. InsertAt(s, i, e) = first \o back
  BY DEF InsertAt, first, front, back
<1>9. ASSUME NEW j \in 1 .. Len(s) + 1
      PROVE  (first \o back)[j] = IF j < i THEN s[j] ELSE IF j = i THEN e ELSE s[j - 1]
  <2>1. CASE j <= i
    BY <1>1, <1>6, <1>7, <2>1
  <2>2. CASE j > i
    <3>1. j - i \in 1 .. Len(s) - i + 1 /\ i + (j - i) - 1 = j - 1
      BY <1>1, <2>2
    <3>2. back[j - i] = s[j - 1]
      BY <1>3, <3>1
    <3>3. QED
      BY <1>1, <1>7, <2>2, <3>2
  <2>3. j \in Nat /\ (j <= i \/ j > i)
    BY <1>1
  <2>4. QED
    BY <2>1, <2>2, <2>3
<1>10. QED
  BY <1>7, <1>8, <1>9

\* The front of a sequence, and what is behind it.
LEMMA PrefixElements ==
  ASSUME NEW S, NEW s \in Seq(S), NEW n \in 0 .. Len(s)
  PROVE  /\ SubSeq(s, 1, n) \in Seq(S)
         /\ Len(SubSeq(s, 1, n)) = n
         /\ \A i \in 1 .. n : SubSeq(s, 1, n)[i] = s[i]
OBVIOUS

LEMMA SuffixElements ==
  ASSUME NEW S, NEW s \in Seq(S), NEW n \in 0 .. Len(s)
  PROVE  /\ SubSeq(s, n + 1, Len(s)) \in Seq(S)
         /\ Len(SubSeq(s, n + 1, Len(s))) = Len(s) - n
         /\ \A i \in 1 .. Len(s) - n : SubSeq(s, n + 1, Len(s))[i] = s[n + i]
OBVIOUS

\* Appending keeps the elements.
LEMMA AppendElements ==
  ASSUME NEW S, NEW s \in Seq(S), NEW e \in S
  PROVE  /\ Append(s, e) \in Seq(S)
         /\ Len(Append(s, e)) = Len(s) + 1
         /\ \A j \in 1 .. Len(s) + 1 :
               Append(s, e)[j] = IF j <= Len(s) THEN s[j] ELSE e
OBVIOUS

-----------------------------------------------------------------------------
(***************************************************************************)
(* Folds.  What FoldLeft computes is a recursive function on the sets of   *)
(* positions; that it exists, and what it is at each position, follows by  *)
(* induction, which here is the least number that is not in a set.         *)
(***************************************************************************)

\* Induction along an interval of the naturals.
LEMMA IntervalInduction ==
  ASSUME NEW N \in Nat, NEW S, 0 \in S,
         \A n \in 0 .. N : n < N /\ n \in S => n + 1 \in S
  PROVE  0 .. N \subseteq S
<1> DEFINE T == {n \in 0 .. N : n \notin S}
<1>1. SUFFICES ASSUME T # {} PROVE FALSE
  OBVIOUS
<1>2. T \in SUBSET Nat
  OBVIOUS
<1>3. Min(T) \in T /\ \A j \in T : Min(T) <= j
  <2> HIDE DEF T
  <2>1. QED
    BY <1>1, <1>2, MinInSet
<1>4. PICK m \in 0 .. N : m \notin S /\ \A j \in 0 .. N : j < m => j \in S
  BY <1>3
<1>5. m # 0 /\ m - 1 \in 0 .. N /\ m - 1 \in S
  BY <1>4
<1>6. QED
  BY <1>4, <1>5

\* The greatest element of a set of positions.
LEMMA MaxInSet ==
  ASSUME NEW N \in Nat, NEW T \in SUBSET (1 .. N), T # {}
  PROVE  Max(T) \in T /\ \A j \in T : j <= Max(T)
<1> DEFINE S == {n \in 0 .. N : T \cap 1 .. n # {} => \E m \in T : \A j \in T \cap 1 .. n : j <= m}
<1>1. 0 \in S
  OBVIOUS
<1>2. ASSUME NEW n \in 0 .. N, n < N, n \in S
      PROVE  n + 1 \in S
  <2>1. CASE n + 1 \in T
    <3>1. \A j \in T \cap 1 .. n + 1 : j <= n + 1
      OBVIOUS
    <3>2. QED
      BY <2>1, <3>1
  <2>2. CASE n + 1 \notin T
    <3>1. T \cap 1 .. n + 1 = T \cap 1 .. n
      BY <2>2
    <3>2. QED
      BY <1>2, <3>1
  <2>3. QED
    BY <2>1, <2>2
<1>3. N \in S
  <2> HIDE DEF S
  <2>1. 0 .. N \subseteq S
    BY <1>1, <1>2, IntervalInduction
  <2>2. QED
    BY <2>1
<1>4. T \cap 1 .. N = T
  OBVIOUS
<1>5. \E m \in T : \A j \in T : j <= m
  BY <1>3, <1>4
<1>6. QED
  BY <1>5 DEF Max

\* it is the recursive function in MapThenFoldSet, for a sequence F of steps.
IsFold(it, N, base, F) ==
    \A s \in SUBSET (1 .. N) :
        it[s] = IF s = {} THEN base ELSE F[Max(s)][it[s \ {Max(s)}]]

\* The same, where F says what the steps do to elements of X only.
FoldsWithin(it, N, X, base, F) ==
    /\ it[{}] = base
    /\ \A s \in SUBSET (1 .. N) :
          s # {} /\ it[s \ {Max(s)}] \in X => it[s] = F[Max(s)][it[s \ {Max(s)}]]

\* g lists what it computes, position by position.
IsRun(g, it, N, base, F) ==
    /\ g[0] = base
    /\ g[N] = it[1 .. N]
    /\ \A i \in 1 .. N : g[i] = F[i][g[i - 1]]

\* What a fold over the positions 1 .. N computes is defined: the recursive
\* function exists.
LEMMA FoldExists ==
  ASSUME NEW N \in Nat, NEW X, NEW base \in X, NEW F \in [1 .. N -> [X -> X]]
  PROVE  \E it \in [SUBSET (1 .. N) -> X] : IsFold(it, N, base, F)
<1> DEFINE Good(n, it) ==
             \A s \in SUBSET (1 .. n) :
               it[s] = IF s = {} THEN base ELSE F[Max(s)][it[s \ {Max(s)}]]
           S == {n \in 0 .. N : \E it \in [SUBSET (1 .. n) -> X] : Good(n, it)}
<1>1. 0 \in S
  <2>1. [s \in SUBSET (1 .. 0) |-> base] \in [SUBSET (1 .. 0) -> X]
    OBVIOUS
  <2>2. SUBSET (1 .. 0) = {{}}
    OBVIOUS
  <2>3. Good(0, [s \in SUBSET (1 .. 0) |-> base])
    BY <2>2
  <2>4. 0 \in 0 .. N
    OBVIOUS
  <2>5. QED
    <3> HIDE DEF Good
    <3>1. QED
      BY <2>1, <2>3, <2>4
<1>2. ASSUME NEW n \in 0 .. N, n < N, n \in S
      PROVE  n + 1 \in S
  <2>1. PICK it \in [SUBSET (1 .. n) -> X] : Good(n, it)
    BY <1>2
  <2> DEFINE low(s) == s \ {n + 1}
             new == [s \in SUBSET (1 .. n + 1) |->
                       IF n + 1 \in s THEN F[n + 1][it[low(s)]] ELSE it[s]]
  <2>2. n + 1 \in 1 .. N /\ n \in Nat
    BY <1>2
  <2>3. \A s \in SUBSET (1 .. n + 1) : /\ low(s) \in SUBSET (1 .. n)
                                       /\ n + 1 \notin s => s \in SUBSET (1 .. n)
    BY <2>2
  <2>4. new \in [SUBSET (1 .. n + 1) -> X]
    BY <2>2, <2>3
  <2>5. ASSUME NEW s \in SUBSET (1 .. n + 1), s # {}
        PROVE  new[s] = F[Max(s)][new[s \ {Max(s)}]]
    <3>0. n + 1 \in Nat
      BY <2>2
    <3>1. Max(s) \in s /\ \A j \in s : j <= Max(s)
      BY <3>0, <2>5, MaxInSet
    <3>2. CASE n + 1 \in s
      <4>1. Max(s) = n + 1
        <5>1. n + 1 <= Max(s) /\ Max(s) \in 1 .. n + 1
          BY <3>1, <3>2
        <5>2. \A m \in 1 .. n + 1 : n + 1 <= m => m = n + 1
          BY <2>2
        <5>3. QED
          BY <5>1, <5>2
      <4>2. low(s) \in SUBSET (1 .. n + 1) /\ n + 1 \notin low(s)
        OBVIOUS
      <4>3. new[low(s)] = it[low(s)]
        BY <4>2
      <4>4. new[s] = F[n + 1][it[low(s)]]
        BY <3>2
      <4>5. QED
        BY <4>1, <4>3, <4>4
    <3>3. CASE n + 1 \notin s
      <4>1. s \in SUBSET (1 .. n) /\ s \ {Max(s)} \in SUBSET (1 .. n)
        BY <2>3, <3>3
      <4>2. it[s] = F[Max(s)][it[s \ {Max(s)}]]
        BY <2>1, <2>5, <4>1
      <4>3. new[s] = it[s] /\ new[s \ {Max(s)}] = it[s \ {Max(s)}]
        BY <3>3, <4>1
      <4>4. QED
        BY <4>2, <4>3
    <3>4. QED
      BY <3>2, <3>3
  <2>6. new[{}] = base
    <3>1. {} \in SUBSET (1 .. n) /\ {} \in SUBSET (1 .. n + 1)
      OBVIOUS
    <3>2. it[{}] = base
      BY <2>1, <3>1
    <3>3. QED
      BY <3>1, <3>2
  <2>7. Good(n + 1, new)
    <3> HIDE DEF new
    <3>1. QED
      BY <2>5, <2>6
  <2>8. n + 1 \in 0 .. N
    BY <2>2
  <2>9. QED
    <3> HIDE DEF new, Good
    <3>1. QED
      BY <2>4, <2>7, <2>8
<1>3. N \in S
  <2> HIDE DEF S
  <2>1. 0 .. N \subseteq S
    BY <1>1, <1>2, IntervalInduction
  <2>2. QED
    BY <2>1
<1>4. QED
  BY <1>3 DEF IsFold

\* What a fold leaves behind it at each position of the sequence.
LEMMA FoldPrefixes ==
  ASSUME NEW N \in Nat, NEW X, NEW base \in X, NEW F \in [1 .. N -> [X -> X]],
         NEW it, FoldsWithin(it, N, X, base, F)
  PROVE  \E g \in [0 .. N -> X] : IsRun(g, it, N, base, F)
<1> DEFINE S == {n \in 0 .. N : it[1 .. n] \in X}
           g == [n \in 0 .. N |-> it[1 .. n]]
<1>1. 1 .. 0 = {} /\ 0 \in 0 .. N /\ N \in 0 .. N
  OBVIOUS
<1>2. 0 \in S
  BY <1>1 DEF FoldsWithin
<1>3. ASSUME NEW n \in 0 .. N, n < N
      PROVE  /\ Max(1 .. n + 1) = n + 1
             /\ (1 .. n + 1) \ {n + 1} = 1 .. n
             /\ 1 .. n + 1 \in SUBSET (1 .. N)
             /\ 1 .. n + 1 # {}
             /\ n + 1 \in 1 .. N
  <2>1. n + 1 \in 1 .. n + 1 /\ \A j \in 1 .. n + 1 : j <= n + 1
    OBVIOUS
  <2>2. \A m \in 1 .. n + 1 : (\A j \in 1 .. n + 1 : j <= m) => m = n + 1
    BY <2>1
  <2>3. Max(1 .. n + 1) = n + 1
    BY <2>1, <2>2 DEF Max
  <2>4. QED
    BY <1>3, <2>1, <2>3
<1>4. ASSUME NEW n \in 0 .. N, n < N, n \in S
      PROVE  it[1 .. n + 1] = F[n + 1][it[1 .. n]] /\ n + 1 \in S
  <2>1. it[1 .. n] \in X
    BY <1>4
  <2>2. it[1 .. n + 1] = F[n + 1][it[1 .. n]]
    BY <1>3, <1>4, <2>1 DEF FoldsWithin
  <2>3. F[n + 1] \in [X -> X]
    BY <1>3, <1>4
  <2>4. n + 1 \in 0 .. N
    BY <1>4
  <2>5. QED
    BY <2>1, <2>2, <2>3, <2>4
<1>5. 0 .. N \subseteq S
  <2> HIDE DEF S
  <2>1. QED
    BY <1>2, <1>4, IntervalInduction
<1>6. g \in [0 .. N -> X] /\ g[0] = base /\ g[N] = it[1 .. N]
  BY <1>1, <1>5 DEF FoldsWithin
<1>7. ASSUME NEW i \in 1 .. N
      PROVE  g[i] = F[i][g[i - 1]]
  <2>1. i - 1 \in 0 .. N /\ i - 1 < N /\ (i - 1) + 1 = i /\ i \in 0 .. N
    OBVIOUS
  <2>2. i - 1 \in S
    BY <1>5, <2>1
  <2>3. it[1 .. (i - 1) + 1] = F[(i - 1) + 1][it[1 .. i - 1]]
    BY <1>4, <2>1, <2>2
  <2>4. QED
    BY <2>1, <2>3
<1>8. QED
  <2> HIDE DEF g
  <2>1. QED
    BY <1>6, <1>7 DEF IsRun
=============================================================================
