-------------------------- MODULE ChunkedSendProofs --------------------------
(***************************************************************************)
(* A call that sends its chunks one after the other behaves as one request *)
(* would, for every request, every size limit and both forms of retry.     *)
(***************************************************************************)
EXTENDS ChunkedSend, BatchingProofs, SequenceTheorems, FiniteSetTheorems

(* Sequences of items. *)

LEMMA Associative ==
    \A s, t, u \in Seq(Nat) : (s \o t) \o u = s \o (t \o u)
  BY SMTT(60)

LEMMA JoinType ==
    ASSUME NEW S, NEW s \in Seq(S), NEW t \in Seq(S)
    PROVE  s \o t \in Seq(S)
  OBVIOUS

\* Pushing two blocks to the head, one item after the other, is pushing both as one.
LEMMA ReverseJoined ==
    ASSUME NEW S, NEW s \in Seq(S), NEW t \in Seq(S)
    PROVE  Reverse(s \o t) = Reverse(t) \o Reverse(s)
  BY DEF Reverse

\* Items are numbered from 1, and adjacent slices join.
LEMMA SliceIs ==
    ASSUME NEW a \in Nat, NEW b \in Nat, a <= b
    PROVE  /\ Slice(a, b) \in Seq(Nat \ {0}) /\ Slice(a, b) \in Seq(Nat)
           /\ Len(Slice(a, b)) = b - a
           /\ (Slice(a, b) = <<>>) <=> (a = b)
           /\ \A i \in 1..(b - a) : Slice(a, b)[i] = a + i
<1> DEFINE s == Slice(a, b)
<1>1. /\ s \in Seq(Nat \ {0}) /\ s \in Seq(Nat) /\ Len(s) = b - a
      /\ \A i \in 1..(b - a) : s[i] = a + i
  BY DEF Slice
<1>2. s = <<>> <=> Len(s) = 0
  BY <1>1
<1> HIDE DEF s
<1>3. (s = <<>>) <=> (a = b)
  BY <1>1, <1>2
<1> QED
  BY <1>1, <1>3 DEF s

LEMMA SlicesJoin ==
    ASSUME NEW a \in Nat, NEW b \in Nat, NEW c \in Nat, a <= b, b <= c
    PROVE  Slice(a, b) \o Slice(b, c) = Slice(a, c)
  BY DEF Slice

\* What is inserted behind the first part of a sequence.
LEMMA InsertBetween ==
    ASSUME NEW S, NEW L \in Seq(S), NEW R \in Seq(S), NEW A \in Seq(S)
    PROVE  InsertedAt(L \o R, Len(L), A) = L \o A \o R
<1>1. SubSeq(L \o R, 1, Len(L)) = L
  OBVIOUS
<1>2. SubSeq(L \o R, Len(L) + 1, Len(L \o R)) = R
  OBVIOUS
<1> QED
  BY <1>1, <1>2 DEF InsertedAt

\* Sequences with the same elements are equal.
LEMMA SameElements ==
    ASSUME NEW S, NEW s \in Seq(S), NEW t \in Seq(S), Len(s) = Len(t),
           \A i \in 1..Len(s) : s[i] = t[i]
    PROVE  s = t
  OBVIOUS

\* A sequence can be parted anywhere.
LEMMA Parted ==
    ASSUME NEW S, NEW s \in Seq(S), NEW i \in 0..Len(s)
    PROVE  \E L, R \in Seq(S) : s = L \o R /\ Len(L) = i
<1> DEFINE n == Len(s)
           L == SubSeq(s, 1, i)
           R == SubSeq(s, i + 1, n)
<1>1. /\ n \in Nat /\ i \in 0..n
      /\ \A j \in 1..n : s[j] \in S
  OBVIOUS
<1>2. (\A j \in 1..i : s[j] \in S) /\ (\A j \in (i + 1)..n : s[j] \in S)
  BY <1>1
<1>3. /\ L \in Seq(S) /\ Len(L) = i
      /\ \A j \in 1..i : L[j] = s[j]
  BY <1>1, <1>2
<1>4. /\ R \in Seq(S) /\ Len(R) = n - i
      /\ \A j \in 1..(n - i) : R[j] = s[i + j]
  <2>1. i + 1 \in Int /\ n \in Int
    BY <1>1
  <2>2. /\ R \in Seq(S) /\ Len(R) = IF i + 1 <= n THEN n - (i + 1) + 1 ELSE 0
        /\ \A j \in 1..(n - (i + 1) + 1) : R[j] = s[(i + 1) + j - 1]
    BY <1>2, <2>1, SubSeqProperties
  <2> HIDE DEF n, R
  <2>3. Len(R) = n - i
    BY <1>1, <2>2
  <2>4. ASSUME NEW j \in 1..(n - i) PROVE R[j] = s[i + j]
    <3>1. j \in 1..(n - (i + 1) + 1) /\ (i + 1) + j - 1 = i + j
      BY <1>1
    <3> QED
      BY <2>2, <3>1
  <2> QED
    BY <2>2, <2>3, <2>4
<1> HIDE DEF L, R
<1>5. /\ L \o R \in Seq(S) /\ Len(L \o R) = n
      /\ \A j \in 1..n : (L \o R)[j] = IF j <= i THEN L[j] ELSE R[j - i]
  <2>1. i + (n - i) = n
    BY <1>1
  <2>2. /\ L \o R \in Seq(S) /\ Len(L \o R) = i + (n - i)
        /\ \A j \in 1..(i + (n - i)) : (L \o R)[j] = IF j <= i THEN L[j] ELSE R[j - i]
    BY <1>3, <1>4, ConcatProperties
  <2> QED
    BY <2>1, <2>2
<1>6. ASSUME NEW j \in 1..n PROVE (L \o R)[j] = s[j]
  <2> HIDE DEF n
  <2>1. CASE j <= i
    <3>1. j \in 1..i /\ j \in 1..n
      BY <1>1, <2>1
    <3>2. (L \o R)[j] = L[j]
      BY <1>5, <2>1, <3>1
    <3> QED
      BY <1>3, <3>1, <3>2
  <2>2. CASE j > i
    <3>1. j - i \in 1..(n - i) /\ i + (j - i) = j
      BY <1>1, <2>2
    <3>2. (L \o R)[j] = R[j - i]
      <4>1. ~(j <= i)
        BY <1>1, <2>2
      <4> QED
        BY <1>5, <4>1
    <3> QED
      BY <1>4, <3>1, <3>2
  <2>3. j <= i \/ j > i
    BY <1>1
  <2> QED
    BY <2>1, <2>2, <2>3
<1>7. L \o R = s
  BY <1>5, <1>6, SameElements
<1> QED
  BY <1>3, <1>4, <1>7

-----------------------------------------------------------------------------
(* The container on a node. *)

\* The value that insertions before and after refer to is there, once.
KeepsValue(s) == \E L, R \in Seq(Nat \ {0}) : s = L \o <<0>> \o R

\* So it is clear where they go.
LEMMA PivotFound ==
    ASSUME NEW L \in Seq(Nat \ {0}), NEW R \in Seq(Nat \ {0})
    PROVE  Pivot(L \o <<0>> \o R) = Len(L) + 1
<1> DEFINE H == L \o <<0>>
           s == H \o R
           n == Len(L)
<1>1. /\ H \in Seq(Nat) /\ Len(H) = n + 1 /\ n \in Nat /\ H[n + 1] = 0
      /\ \A i \in 1..n : H[i] # 0
      /\ R \in Seq(Nat)
  OBVIOUS
<1>2. Len(s) = n + 1 + Len(R) /\ Len(R) \in Nat
  BY <1>1
<1> HIDE DEF H, n
<1>3. s[n + 1] = 0
  BY <1>1
<1>4. ASSUME NEW i \in 1..Len(s), i # n + 1 PROVE s[i] # 0
  <2>1. CASE i <= n
    <3>1. s[i] = H[i]
      BY <1>1, <1>2, <2>1
    <3> QED
      BY <1>1, <1>2, <2>1, <3>1
  <2>2. CASE i > n
    <3>1. i - (n + 1) \in 1..Len(R)
      BY <1>1, <1>2, <1>4, <2>2
    <3>2. s[i] = R[i - (n + 1)]
      BY <1>1, <1>2, <2>2, <3>1, SMTT(60)
    <3> QED
      BY <3>1, <3>2
  <2> QED
    BY <1>1, <1>2, <2>1, <2>2
<1>5. n + 1 \in 1..Len(s)
  BY <1>1, <1>2
<1> HIDE DEF s
<1>6. Pivot(s) = n + 1
  BY <1>3, <1>4, <1>5 DEF Pivot
<1> QED
  BY <1>6 DEF s, n, H

\* The node has a place for items sent with position pos.
Reach(s, pos) ==
    /\ request.op \in {"before", "after"} => KeepsValue(s)
    /\ request.op = "position" /\ pos # MaxPos => pos \in 0..Len(s)

\* Where the items go.
LEMMA AppliedBefore ==
    ASSUME NEW L \in Seq(Nat \ {0}), NEW R \in Seq(Nat \ {0}), NEW A \in Seq(Nat \ {0}),
           NEW pos, request.op = "before"
    PROVE  Applied(L \o <<0>> \o R, A, pos) = (L \o A) \o <<0>> \o R
<1> DEFINE s == L \o <<0>> \o R
           Z == <<0>> \o R
<1>1. Z \in Seq(Nat) /\ s = L \o Z /\ L \in Seq(Nat) /\ A \in Seq(Nat)
  OBVIOUS
<1>2. InsertedAt(s, Pivot(s) - 1, A) = L \o A \o Z
  <2>1. Pivot(s) - 1 = Len(L)
    BY PivotFound
  <2>2. InsertedAt(L \o Z, Len(L), A) = L \o A \o Z
    BY <1>1, InsertBetween, ZenonT(60)
  <2> HIDE DEF s, Z
  <2> QED
    BY <1>1, <2>1, <2>2
<1>3. L \o A \o Z = (L \o A) \o <<0>> \o R
  BY SMTT(60)
<1>4. CASE A = <<>>
  BY <1>4 DEF Applied
<1>5. CASE A # <<>>
  BY <1>2, <1>3, <1>5 DEF Applied
<1> QED
  BY <1>4, <1>5

LEMMA AppliedAfter ==
    ASSUME NEW L \in Seq(Nat \ {0}), NEW R \in Seq(Nat \ {0}), NEW A \in Seq(Nat \ {0}),
           NEW pos, request.op = "after"
    PROVE  Applied(L \o <<0>> \o R, A, pos) = L \o <<0>> \o (A \o R)
<1> DEFINE H == L \o <<0>>
           s == H \o R
<1>1. H \in Seq(Nat) /\ Len(H) = Len(L) + 1 /\ R \in Seq(Nat) /\ A \in Seq(Nat)
  OBVIOUS
<1>2. InsertedAt(s, Pivot(s), A) = H \o A \o R
  <2>1. Pivot(s) = Len(H)
    BY <1>1, PivotFound
  <2> QED
    BY <1>1, <2>1, InsertBetween, ZenonT(60)
<1>3. H \o A \o R = L \o <<0>> \o (A \o R)
  BY SMTT(60)
<1>4. CASE A = <<>>
  BY <1>3, <1>4 DEF Applied
<1>5. CASE A # <<>>
  BY <1>2, <1>3, <1>5 DEF Applied
<1> QED
  BY <1>4, <1>5

-----------------------------------------------------------------------------
(* How often an item is stored. *)

Occurrences(s, i) == {j \in DOMAIN s : s[j] = i}

\* Sets of the same size, by a function that pairs their elements.
LEMMA SameSize ==
    ASSUME NEW S, NEW T, IsFiniteSet(S), NEW f \in [S -> T],
           \A x, y \in S : f[x] = f[y] => x = y,
           \A t \in T : \E x \in S : f[x] = t
    PROVE  IsFiniteSet(T) /\ Cardinality(T) = Cardinality(S)
<1>1. f \in Bijection(S, T)
  BY DEF Bijection, Injection, Surjection, IsInjective
<1> QED
  BY <1>1, FS_Bijection DEF ExistsBijection

LEMMA OccurrencesFinite ==
    ASSUME NEW S, NEW s \in Seq(S), NEW i
    PROVE  /\ Occurrences(s, i) \subseteq 1..Len(s)
           /\ IsFiniteSet(Occurrences(s, i))
           /\ Cardinality(Occurrences(s, i)) \in Nat
<1>1. Len(s) \in Nat /\ Occurrences(s, i) \in SUBSET (1..Len(s))
  BY DEF Occurrences
<1>2. IsFiniteSet(1..Len(s))
  BY <1>1, FS_Interval
<1>3. IsFiniteSet(Occurrences(s, i))
  BY <1>1, <1>2, FS_Subset
<1> QED
  BY <1>1, <1>3, FS_CardinalityType

\* Occurrences in two sequences add up.
LEMMA OccurrencesJoin ==
    ASSUME NEW S, NEW s \in Seq(S), NEW t \in Seq(S), NEW i
    PROVE  Cardinality(Occurrences(s \o t, i)) =
               Cardinality(Occurrences(s, i)) + Cardinality(Occurrences(t, i))
<1> DEFINE m == Len(s)
           n == Len(t)
           A == Occurrences(s, i)
           B == Occurrences(t, i)
           C == {m + j : j \in B}
           st == s \o t
           f == [j \in B |-> m + j]
<1>1. /\ m \in Nat /\ n \in Nat /\ st \in Seq(S) /\ Len(st) = m + n
      /\ DOMAIN st = 1..(m + n) /\ DOMAIN s = 1..m /\ DOMAIN t = 1..n
  OBVIOUS
<1>2. \A j \in 1..(m + n) : st[j] = IF j <= m THEN s[j] ELSE t[j - m]
  BY ConcatProperties
<1>3. /\ A = {j \in 1..m : s[j] = i} /\ B = {j \in 1..n : t[j] = i}
      /\ Occurrences(st, i) = {j \in 1..(m + n) : st[j] = i}
  BY <1>1 DEF Occurrences
<1>4. IsFiniteSet(A) /\ IsFiniteSet(B)
  BY OccurrencesFinite
<1> HIDE DEF m, n, A, B, st
<1>5. Occurrences(st, i) = A \cup C
  <2>1. ASSUME NEW j \in Occurrences(st, i) PROVE j \in A \cup C
    <3>0. j \in 1..(m + n) /\ st[j] = i
      BY <1>3, <2>1
    <3>1. CASE j <= m
      <4>1. j \in 1..m
        BY <1>1, <3>0, <3>1
      <4>2. s[j] = i
        BY <1>2, <3>0, <3>1
      <4> QED
        BY <1>3, <4>1, <4>2
    <3>2. CASE ~(j <= m)
      <4>1. j - m \in 1..n /\ j = m + (j - m)
        BY <1>1, <3>0, <3>2
      <4>2. t[j - m] = i
        BY <1>2, <3>0, <3>2
      <4>3. j - m \in B
        BY <1>3, <4>1, <4>2
      <4> QED
        BY <4>1, <4>3
    <3> QED
      BY <3>1, <3>2
  <2>2. ASSUME NEW j \in A PROVE j \in Occurrences(st, i)
    <3>1. j \in 1..m /\ s[j] = i /\ j \in 1..(m + n) /\ j <= m
      BY <1>1, <1>3, <2>2
    <3> QED
      BY <1>2, <1>3, <3>1
  <2>3. ASSUME NEW j \in B PROVE m + j \in Occurrences(st, i)
    <3>1. j \in 1..n /\ t[j] = i
      BY <1>3, <2>3
    <3>2. m + j \in 1..(m + n) /\ ~(m + j <= m) /\ (m + j) - m = j
      BY <1>1, <3>1
    <3> QED
      BY <1>2, <1>3, <3>1, <3>2
  <2> QED
    BY <2>1, <2>2, <2>3
<1>6. A \cap C = {}
  <2>1. ASSUME NEW j \in B PROVE ~(m + j <= m)
    BY <1>1, <1>3, <2>1
  <2>2. ASSUME NEW j \in A PROVE j <= m
    BY <1>1, <1>3, <2>2
  <2> QED
    BY <2>1, <2>2
<1>7. IsFiniteSet(C) /\ Cardinality(C) = Cardinality(B)
  <2>1. f \in [B -> C] /\ \A x \in C : \E y \in B : f[y] = x
    OBVIOUS
  <2>2. \A x, y \in B : f[x] = f[y] => x = y
    BY <1>1, <1>3
  <2> QED
    BY <1>4, <2>1, <2>2, SameSize
<1>8. Cardinality(A) \in Nat /\ Cardinality(B) \in Nat
  BY <1>4, FS_CardinalityType
<1>9. Cardinality(A \cup C) = Cardinality(A) + Cardinality(C) - Cardinality(A \cap C)
  BY <1>4, <1>7, FS_Union
<1>10. Cardinality(Occurrences(st, i)) = Cardinality(A) + Cardinality(B)
  <2>1. Cardinality(A \cap C) = 0
    BY <1>6, FS_EmptySet
  <2> HIDE DEF C
  <2> QED
    BY <1>5, <1>7, <1>8, <1>9, <2>1
<1> QED
  BY <1>10 DEF st, A, B

\* The order does not matter.
LEMMA OccurrencesReverse ==
    ASSUME NEW S, NEW s \in Seq(S), NEW i
    PROVE  Cardinality(Occurrences(Reverse(s), i)) = Cardinality(Occurrences(s, i))
<1> DEFINE n == Len(s)
           r == Reverse(s)
           A == Occurrences(s, i)
           B == Occurrences(r, i)
           f == [j \in A |-> n - j + 1]
<1>1. /\ n \in Nat /\ DOMAIN s = 1..n /\ DOMAIN r = 1..n
      /\ \A j \in 1..n : r[j] = s[n - j + 1]
  BY DEF Reverse
<1>2. A = {j \in 1..n : s[j] = i} /\ B = {j \in 1..n : r[j] = i}
  BY <1>1 DEF Occurrences
<1>3. IsFiniteSet(A)
  BY OccurrencesFinite
<1> HIDE DEF n, r, A, B
<1>4. \A j \in 1..n : n - j + 1 \in 1..n /\ n - (n - j + 1) + 1 = j
  BY <1>1
<1>5. f \in [A -> B]
  BY <1>1, <1>2, <1>4
<1>6. \A x, y \in A : f[x] = f[y] => x = y
  BY <1>1, <1>2
<1>7. ASSUME NEW j \in B PROVE \E x \in A : f[x] = j
  <2>1. n - j + 1 \in A
    BY <1>1, <1>2, <1>4
  <2> QED
    BY <1>2, <1>4, <2>1
<1>8. Cardinality(B) = Cardinality(A)
  BY <1>3, <1>5, <1>6, <1>7, SameSize
<1> QED
  BY <1>8 DEF A, B, r

\* A slice has each of its items once.
LEMMA OccurrencesSlice ==
    ASSUME NEW a \in Nat, NEW b \in Nat, a <= b, NEW i \in Nat
    PROVE  Cardinality(Occurrences(Slice(a, b), i)) = IF i \in (a + 1)..b THEN 1 ELSE 0
<1> DEFINE A == Occurrences(Slice(a, b), i)
<1>1. A = {j \in 1..(b - a) : a + j = i}
  BY DEF Slice, Occurrences
<1> HIDE DEF A
<1>2. CASE i \in (a + 1)..b
  <2>1. A = {i - a}
    BY <1>1, <1>2
  <2> QED
    BY <1>2, <2>1, FS_Singleton DEF A
<1>3. CASE i \notin (a + 1)..b
  <2>1. A = {}
    BY <1>1, <1>3
  <2> QED
    BY <1>3, <2>1, FS_EmptySet DEF A
<1> QED
  BY <1>2, <1>3

-----------------------------------------------------------------------------
(* What one request does to the container. *)

\* Its items, in one order or the other, are put in at one place.
LEMMA AppliedSplits ==
    ASSUME NEW s \in Seq(Nat), NEW A \in Seq(Nat \ {0}), NEW pos \in Int \cup {NoPos},
           Reach(s, pos), OperationType(request)
    PROVE  \E L, R \in Seq(Nat), B \in {A, Reverse(A)} :
               s = L \o R /\ Applied(s, A, pos) = L \o B \o R
<1>0. A \in Seq(Nat) /\ <<>> \in Seq(Nat) /\ Reverse(A) \in Seq(Nat)
  BY ReverseType
<1>1. CASE A = <<>>
  <2>1. s = s \o <<>> /\ Applied(s, A, pos) = s \o A \o <<>>
    BY <1>1 DEF Applied
  <2> QED
    BY <1>0, <2>1
<1>2. CASE A # <<>> /\ request.op = "head"
  <2>1. s = <<>> \o s /\ Applied(s, A, pos) = <<>> \o Reverse(A) \o s
    BY <1>0, <1>2, SMTT(60) DEF Applied
  <2> QED
    BY <1>0, <2>1
<1>3. CASE A # <<>> /\ request.op = "before"
  <2>1. PICK L, R \in Seq(Nat \ {0}) : s = L \o <<0>> \o R
    BY <1>3 DEF Reach, KeepsValue
  <2>2. Applied(L \o <<0>> \o R, A, pos) = (L \o A) \o <<0>> \o R
    BY <1>3, AppliedBefore, SMTT(60)
  <2> DEFINE Z == <<0>> \o R
  <2>3. L \in Seq(Nat) /\ R \in Seq(Nat) /\ <<0>> \in Seq(Nat) /\ L \o A \in Seq(Nat)
    BY <1>0
  <2>4. Z \in Seq(Nat) /\ \A q \in Seq(Nat) : q \o <<0>> \o R = q \o Z
    <3>1. Z \in Seq(Nat)
      BY <2>3
    <3>2. ASSUME NEW q \in Seq(Nat) PROVE q \o <<0>> \o R = q \o Z
      BY <2>3, Associative, ZenonT(60)
    <3> QED
      BY <3>1, <3>2
  <2> HIDE DEF Z
  <2>5. s = L \o Z /\ Applied(s, A, pos) = L \o A \o Z
    BY <2>1, <2>2, <2>3, <2>4
  <2> QED
    BY <1>0, <2>3, <2>4, <2>5
<1>4. CASE A # <<>> /\ request.op = "after"
  <2>1. PICK L, R \in Seq(Nat \ {0}) : s = L \o <<0>> \o R
    BY <1>4 DEF Reach, KeepsValue
  <2>2. Applied(L \o <<0>> \o R, A, pos) = L \o <<0>> \o (A \o R)
    BY <1>4, AppliedAfter, SMTT(60)
  <2> DEFINE H == L \o <<0>>
  <2>3. H \in Seq(Nat) /\ R \in Seq(Nat)
    OBVIOUS
  <2>4. s = H \o R /\ Applied(s, A, pos) = H \o (A \o R)
    BY <2>1, <2>2
  <2> HIDE DEF H
  <2>5. (H \o A) \o R = H \o (A \o R)
    <3>1. H \in Seq(Nat) /\ A \in Seq(Nat) /\ R \in Seq(Nat)
      BY <1>0, <2>3
    <3> QED
      BY <3>1, Associative, ZenonT(60)
  <2>6. Applied(s, A, pos) = H \o A \o R
    BY <2>4, <2>5
  <2> QED
    BY <1>0, <2>3, <2>4, <2>6
<1>5. CASE A # <<>> /\ request.op = "position" /\ pos # MaxPos
  <2>1. pos \in 0..Len(s) /\ Applied(s, A, pos) = InsertedAt(s, pos, A)
    BY <1>5 DEF Applied, Reach
  <2>2. PICK L, R \in Seq(Nat) : s = L \o R /\ Len(L) = pos
    BY <2>1, Parted, ZenonT(60)
  <2>3. InsertedAt(s, pos, A) = L \o A \o R
    BY <1>0, <2>2, InsertBetween, ZenonT(60)
  <2> QED
    BY <2>1, <2>2, <2>3
<1>6. CASE A # <<>> /\ request.op = "position" /\ pos = MaxPos
  <2>1. s = s \o <<>> /\ Applied(s, A, pos) = s \o A \o <<>>
    BY <1>0, <1>6, SMTT(60) DEF Applied
  <2> QED
    BY <1>0, <2>1
<1>7. CASE A # <<>> /\ request.op = "tail"
  <2>1. s = s \o <<>> /\ Applied(s, A, pos) = s \o A \o <<>>
    BY <1>0, <1>7, SMTT(60) DEF Applied
  <2> QED
    BY <1>0, <2>1
<1> QED
  BY <1>1, <1>2, <1>3, <1>4, <1>5, <1>6, <1>7, Zenon DEF OperationType

\* So the container grows by them, and holds each of them once more.
LEMMA AppliedGrows ==
    ASSUME NEW s \in Seq(Nat), NEW A \in Seq(Nat \ {0}), NEW pos \in Int \cup {NoPos},
           Reach(s, pos), OperationType(request)
    PROVE  /\ Applied(s, A, pos) \in Seq(Nat)
           /\ Len(Applied(s, A, pos)) = Len(s) + Len(A)
           /\ \A i : Cardinality(Occurrences(Applied(s, A, pos), i)) =
                        Cardinality(Occurrences(s, i)) + Cardinality(Occurrences(A, i))
<1>1. PICK L \in Seq(Nat), R \in Seq(Nat), B \in {A, Reverse(A)} :
               s = L \o R /\ Applied(s, A, pos) = L \o B \o R
  BY AppliedSplits
<1>2. /\ A \in Seq(Nat) /\ B \in Seq(Nat) /\ Len(B) = Len(A)
      /\ \A i : Cardinality(Occurrences(B, i)) = Cardinality(Occurrences(A, i))
  <2>1. A \in Seq(Nat) /\ Reverse(A) \in Seq(Nat) /\ Len(Reverse(A)) = Len(A)
    <3>1. A \in Seq(Nat)
      OBVIOUS
    <3>2. Len(Reverse(A)) = Len(A)
      BY DEF Reverse
    <3> QED
      BY <3>1, <3>2, ReverseType
  <2> QED
    BY <2>1, OccurrencesReverse
<1>3. L \o B \in Seq(Nat) /\ (L \o B) \o R \in Seq(Nat)
  BY <1>2
<1>4. Len((L \o B) \o R) = Len(L \o R) + Len(A)
  <2>1. /\ Len((L \o B) \o R) = Len(L \o B) + Len(R) /\ Len(L \o B) = Len(L) + Len(B)
        /\ Len(L \o R) = Len(L) + Len(R)
    BY <1>2, <1>3, ConcatProperties
  <2>2. Len(L) \in Nat /\ Len(R) \in Nat /\ Len(A) \in Nat
    OBVIOUS
  <2> QED
    BY <1>2, <2>1, <2>2
<1>5. ASSUME NEW i
      PROVE  Cardinality(Occurrences((L \o B) \o R, i)) =
                 Cardinality(Occurrences(L \o R, i)) + Cardinality(Occurrences(A, i))
  <2>1. Cardinality(Occurrences((L \o B) \o R, i)) =
            Cardinality(Occurrences(L \o B, i)) + Cardinality(Occurrences(R, i))
    BY <1>3, OccurrencesJoin
  <2>2. Cardinality(Occurrences(L \o B, i)) =
            Cardinality(Occurrences(L, i)) + Cardinality(Occurrences(B, i))
    BY <1>2, OccurrencesJoin
  <2>3. Cardinality(Occurrences(L \o R, i)) =
            Cardinality(Occurrences(L, i)) + Cardinality(Occurrences(R, i))
    BY OccurrencesJoin
  <2>4. /\ Cardinality(Occurrences(L, i)) \in Nat /\ Cardinality(Occurrences(R, i)) \in Nat
        /\ Cardinality(Occurrences(A, i)) \in Nat
    BY <1>2, OccurrencesFinite
  <2> QED
    BY <1>2, <2>1, <2>2, <2>3, <2>4
<1> QED
  BY <1>1, <1>3, <1>4, <1>5

\* The value that others are inserted before or after stays, once.
LEMMA ValueStays ==
    ASSUME NEW s \in Seq(Nat), NEW A \in Seq(Nat \ {0}), NEW pos,
           request.op \in {"before", "after"}, KeepsValue(s)
    PROVE  KeepsValue(Applied(s, A, pos))
<1>1. PICK L, R \in Seq(Nat \ {0}) : s = L \o <<0>> \o R
  BY DEF KeepsValue
<1>2. L \o A \in Seq(Nat \ {0}) /\ A \o R \in Seq(Nat \ {0})
  OBVIOUS
<1>3. CASE request.op = "before"
  <2>1. Applied(s, A, pos) = (L \o A) \o <<0>> \o R
    BY <1>1, <1>3, AppliedBefore
  <2> QED
    BY <1>2, <2>1 DEF KeepsValue
<1>4. CASE request.op = "after"
  <2>1. Applied(s, A, pos) = L \o <<0>> \o (A \o R)
    BY <1>1, <1>4, AppliedAfter, SMTT(60)
  <2> QED
    BY <1>2, <2>1 DEF KeepsValue
<1> QED
  BY <1>3, <1>4

\* Two blocks inserted one behind the other.
LEMMA InsertedAgain ==
    ASSUME NEW s \in Seq(Nat), NEW i \in 0..Len(s), NEW A \in Seq(Nat), NEW B \in Seq(Nat)
    PROVE  InsertedAt(InsertedAt(s, i, A), i + Len(A), B) = InsertedAt(s, i, A \o B)
<1>1. PICK L \in Seq(Nat), R \in Seq(Nat) : s = L \o R /\ Len(L) = i
  BY Parted, ZenonT(60)
<1>2. L \o A \in Seq(Nat) /\ Len(L \o A) = i + Len(A) /\ A \o B \in Seq(Nat)
  BY <1>1, ConcatProperties
<1>3. InsertedAt(L \o R, Len(L), A) = (L \o A) \o R
  BY InsertBetween
<1>4. InsertedAt(L \o R, Len(L), A \o B) = L \o (A \o B) \o R
  BY <1>2, InsertBetween, ZenonT(60)
<1>5. InsertedAt((L \o A) \o R, Len(L \o A), B) = (L \o A) \o B \o R
  BY <1>2, InsertBetween, ZenonT(60)
<1>6. (L \o A) \o B = L \o (A \o B)
  BY Associative, ZenonT(60)
<1> QED
  BY <1>1, <1>2, <1>3, <1>4, <1>5, <1>6

\* Two blocks before or after a value.
LEMMA BeforeAgain ==
    ASSUME NEW s, KeepsValue(s), NEW A \in Seq(Nat \ {0}), NEW B \in Seq(Nat \ {0}),
           NEW p, NEW q, request.op = "before"
    PROVE  Applied(Applied(s, A, p), B, q) = Applied(s, A \o B, p)
<1>1. PICK L \in Seq(Nat \ {0}), R \in Seq(Nat \ {0}) : s = L \o <<0>> \o R
  BY DEF KeepsValue
<1> DEFINE LA == L \o A
           AB == A \o B
<1>2. LA \in Seq(Nat \ {0}) /\ AB \in Seq(Nat \ {0})
  BY JoinType
<1>3. Applied(L \o <<0>> \o R, A, p) = LA \o <<0>> \o R
  BY AppliedBefore, SMTT(60)
<1> HIDE DEF LA, AB
<1>4. Applied(LA \o <<0>> \o R, B, q) = (LA \o B) \o <<0>> \o R
  BY <1>2, AppliedBefore, SMTT(60)
<1>5. Applied(L \o <<0>> \o R, AB, p) = (L \o AB) \o <<0>> \o R
  BY <1>2, AppliedBefore, SMTT(60)
<1> USE DEF LA, AB
<1>6. (L \o A) \o B = L \o (A \o B)
  <2>1. L \in Seq(Nat) /\ A \in Seq(Nat) /\ B \in Seq(Nat)
    OBVIOUS
  <2> QED
    BY <2>1, Associative, Zenon
<1> QED
  BY <1>1, <1>3, <1>4, <1>5, <1>6

LEMMA AfterAgain ==
    ASSUME NEW s, KeepsValue(s), NEW A \in Seq(Nat \ {0}), NEW B \in Seq(Nat \ {0}),
           NEW p, NEW q, request.op = "after"
    PROVE  Applied(Applied(s, A, p), B, q) = Applied(s, B \o A, p)
<1>1. PICK L \in Seq(Nat \ {0}), R \in Seq(Nat \ {0}) : s = L \o <<0>> \o R
  BY DEF KeepsValue
<1> DEFINE AR == A \o R
           BA == B \o A
<1>2. AR \in Seq(Nat \ {0}) /\ BA \in Seq(Nat \ {0})
  BY JoinType
<1>3. Applied(L \o <<0>> \o R, A, p) = L \o <<0>> \o AR
  BY AppliedAfter, SMTT(60)
<1> HIDE DEF AR, BA
<1>4. Applied(L \o <<0>> \o AR, B, q) = L \o <<0>> \o (B \o AR)
  BY <1>2, AppliedAfter, SMTT(60)
<1>5. Applied(L \o <<0>> \o R, BA, p) = L \o <<0>> \o (BA \o R)
  BY <1>2, AppliedAfter, SMTT(60)
<1> USE DEF AR, BA
<1>6. (B \o A) \o R = B \o (A \o R)
  <2>1. R \in Seq(Nat) /\ A \in Seq(Nat) /\ B \in Seq(Nat)
    OBVIOUS
  <2> QED
    BY <2>1, Associative, Zenon
<1> QED
  BY <1>1, <1>3, <1>4, <1>5, <1>6

\* Two requests do what one does, if the second is sent with the position behind the
\* first one's items, and if after a value the last items are sent first.
LEMMA AppliedAgain ==
    ASSUME NEW s \in Seq(Nat), NEW A \in Seq(Nat \ {0}), NEW B \in Seq(Nat \ {0}),
           OperationType(request), request.pos \in Int \cup {NoPos},
           A = <<>> \/ Reach(s, request.pos),
           NEW q, request.op = "position" =>
                      IF request.pos = MaxPos THEN q = MaxPos
                      ELSE q = request.pos + Len(A) /\ q # MaxPos /\ request.pos \in Int
    PROVE  Applied(Applied(s, A, request.pos), B, q) =
               Applied(s, IF request.after THEN B \o A ELSE A \o B, request.pos)
<1> DEFINE p == request.pos
           AB == IF request.after THEN B \o A ELSE A \o B
<1>0. /\ A \in Seq(Nat) /\ B \in Seq(Nat) /\ A \o B \in Seq(Nat) /\ B \o A \in Seq(Nat)
      /\ A \o B \in Seq(Nat \ {0}) /\ B \o A \in Seq(Nat \ {0})
      /\ Reverse(A) \in Seq(Nat) /\ Reverse(B) \in Seq(Nat)
      /\ Reverse(A \o B) = Reverse(B) \o Reverse(A)
  <2>1. A \in Seq(Nat) /\ B \in Seq(Nat)
    OBVIOUS
  <2>2. A \o B \in Seq(Nat) /\ B \o A \in Seq(Nat)
    BY <2>1, JoinType
  <2>3. A \o B \in Seq(Nat \ {0}) /\ B \o A \in Seq(Nat \ {0})
    BY JoinType
  <2>4. Reverse(A) \in Seq(Nat) /\ Reverse(B) \in Seq(Nat)
    BY <2>1, ReverseType
  <2>5. Reverse(A \o B) = Reverse(B) \o Reverse(A)
    BY ReverseJoined
  <2> QED
    BY <2>1, <2>2, <2>3, <2>4, <2>5
<1>1. CASE B = <<>>
  <2>1. AB = A
    BY <1>0, <1>1
  <2> QED
    BY <1>1, <2>1 DEF Applied
<1>2. CASE A = <<>>
  <2>1. AB = B /\ Applied(s, A, p) = s
    BY <1>0, <1>2 DEF Applied
  <2>2. request.op = "position" => q = p
    <3>1. Len(A) = 0
      BY <1>2
    <3> QED
      BY <3>1
  <2> QED
    BY <2>1, <2>2 DEF Applied
<1>3. ASSUME A # <<>>, B # <<>>
      PROVE  AB # <<>> /\ (request.op # "after" => AB = A \o B) /\
             (request.op = "after" => AB = B \o A)
  <2>1. A \o B # <<>> /\ B \o A # <<>>
    BY <1>0, <1>3
  <2> QED
    BY <2>1 DEF OperationType
<1>4. CASE A # <<>> /\ B # <<>> /\ request.op = "head"
  <2>1. /\ Applied(s, A, p) = Reverse(A) \o s
        /\ Applied(Reverse(A) \o s, B, q) = Reverse(B) \o (Reverse(A) \o s)
        /\ Applied(s, AB, p) = Reverse(A \o B) \o s
    BY <1>3, <1>4 DEF Applied
  <2>2. Reverse(B) \o (Reverse(A) \o s) = (Reverse(B) \o Reverse(A)) \o s
    BY <1>0, Associative, ZenonT(60)
  <2> QED
    BY <1>0, <2>1, <2>2
<1>5. CASE A # <<>> /\ B # <<>> /\ request.op = "tail"
  <2>1. /\ Applied(s, A, p) = s \o A
        /\ Applied(s \o A, B, q) = (s \o A) \o B
        /\ Applied(s, AB, p) = s \o (A \o B)
    BY <1>3, <1>5 DEF Applied
  <2>2. (s \o A) \o B = s \o (A \o B)
    BY <1>0, Associative, ZenonT(60)
  <2> QED
    BY <2>1, <2>2
<1>6. CASE A # <<>> /\ B # <<>> /\ request.op = "before"
  <2>1. Applied(Applied(s, A, p), B, q) = Applied(s, A \o B, p)
    BY <1>6, BeforeAgain DEF Reach
  <2> QED
    BY <1>3, <1>6, <2>1
<1>7. CASE A # <<>> /\ B # <<>> /\ request.op = "after"
  <2>1. Applied(Applied(s, A, p), B, q) = Applied(s, B \o A, p)
    BY <1>7, AfterAgain DEF Reach
  <2> QED
    BY <1>3, <1>7, <2>1
<1>8. CASE A # <<>> /\ B # <<>> /\ request.op = "position" /\ p = MaxPos
  <2>1. /\ Applied(s, A, p) = s \o A
        /\ Applied(s \o A, B, q) = (s \o A) \o B
        /\ Applied(s, AB, p) = s \o (A \o B)
    BY <1>3, <1>8 DEF Applied
  <2>2. (s \o A) \o B = s \o (A \o B)
    BY <1>0, Associative, Zenon
  <2> QED
    BY <2>1, <2>2
<1>9. CASE A # <<>> /\ B # <<>> /\ request.op = "position" /\ p # MaxPos
  <2>1. p \in 0..Len(s) /\ q = p + Len(A)
    BY <1>9 DEF Reach
  <2>2. InsertedAt(InsertedAt(s, p, A), q, B) = InsertedAt(s, p, A \o B)
    BY <1>0, <2>1, InsertedAgain
  <2>3. /\ Applied(s, A, p) = InsertedAt(s, p, A)
        /\ \A t : Applied(t, B, q) = InsertedAt(t, q, B)
        /\ Applied(s, AB, p) = InsertedAt(s, p, A \o B)
    BY <1>3, <1>9 DEF Applied
  <2> QED
    BY <2>2, <2>3
<1> HIDE DEF AB
<1> QED
  BY <1>1, <1>2, <1>4, <1>5, <1>6, <1>7, <1>8, <1>9, Zenon DEF OperationType

-----------------------------------------------------------------------------
(* The chunks in the order they are sent. *)

\* The items of the first k chunks sent are From(k)+1 .. To(k).
From(k) == IF request.after THEN (IF k = 0 THEN request.length ELSE chunks[k][1]) ELSE 0
To(k) == IF request.after THEN request.length ELSE (IF k = 0 THEN 0 ELSE chunks[k][2])

Sent(k) == Slice(From(k), To(k))

\* The next chunk continues what the ones before it have begun, at its end or, after a
\* value, at its beginning; the last one completes the request.
LEMMA SendOrder ==
    ASSUME PlanInv, phase = "planned"
    PROVE  /\ request.length \in Nat
           /\ Len(chunks) \in Nat \ {0}
           /\ request.length = 0 => Len(chunks) = 1
           /\ \A k \in 1..Len(chunks) :
                 /\ chunks[k][1] \in Nat /\ chunks[k][2] \in Nat
                 /\ chunks[k][2] <= request.length
                 /\ IF request.length = 0 THEN chunks[k][1] = 0 /\ chunks[k][2] = 0
                                          ELSE chunks[k][1] < chunks[k][2]
           /\ \A k \in 1..Len(chunks) :
                 IF request.after THEN chunks[k][2] = From(k - 1) ELSE chunks[k][1] = To(k - 1)
           /\ From(Len(chunks)) = 0 /\ To(Len(chunks)) = request.length
<1> DEFINE n == Len(chunks)
<1>0. RequestType(request) /\ request.length \in Nat /\ request.after \in BOOLEAN
  BY RequestAssumption DEF PlanInv, PlanTypeOK, RequestType
<1>1. chunks \in Seq((0..request.length) \X (0..request.length))
  BY DEF PlanInv, PlanTypeOK
<1>2. ChunksPartition
  BY PlanConsequences
<1>3. chunks # <<>> /\ start = request.length
  BY <1>2 DEF ChunksPartition
<1>4. n \in Nat \ {0} /\ \A k \in 1..n : chunks[k] \in (0..request.length) \X (0..request.length)
  BY <1>1, <1>3
<1>5. ASSUME request.length = 0 PROVE n = 1
  <2>1. PICK cs \in Seq((0..request.length) \X (0..request.length)) :
              /\ Len(chunks) = Len(cs)
              /\ \/ Forward(cs, start) /\ (phase = "planned" => cs # <<>> /\ request.length # 0)
                 \/ phase = "planned" /\ request.length = 0 /\ cs = <<<<0, 0>>>>
    BY InOrderIsForward
  <2>2. cs = <<<<0, 0>>>>
    BY <1>5, <2>1
  <2> QED
    BY <2>1, <2>2
<1> HIDE DEF n
<1>6. \A k \in 1..n :
          /\ InOrder(k) = IF request.after THEN chunks[n + 1 - k] ELSE chunks[k]
          /\ n + 1 - k \in 1..n /\ n + 1 - (n + 1 - k) = k
  BY <1>4 DEF InOrder, n
<1>7. /\ InOrder(1)[1] = 0 /\ InOrder(n)[2] = request.length
      /\ request.length > 0 => \A i \in 1..n : InOrder(i)[1] < InOrder(i)[2]
      /\ \A i \in 1..(n - 1) : InOrder(i)[2] = InOrder(i + 1)[1]
  BY <1>2, <1>3 DEF ChunksPartition, n
<1>8. ASSUME NEW k \in 1..n
      PROVE  /\ chunks[k][1] \in Nat /\ chunks[k][2] \in Nat
             /\ chunks[k][2] <= request.length
             /\ IF request.length = 0 THEN chunks[k][1] = 0 /\ chunks[k][2] = 0
                                      ELSE chunks[k][1] < chunks[k][2]
  <2>1. chunks[k] \in (0..request.length) \X (0..request.length)
    BY <1>4
  <2>2. chunks[k][1] \in 0..request.length /\ chunks[k][2] \in 0..request.length
    BY <2>1
  <2>3. ASSUME request.length # 0 PROVE chunks[k][1] < chunks[k][2]
    <3>1. \A i \in 1..n : InOrder(i)[1] < InOrder(i)[2]
      BY <1>0, <1>7, <2>3
    <3>2. chunks[k] = IF request.after THEN InOrder(n + 1 - k) ELSE InOrder(k)
      BY <1>6
    <3> QED
      BY <1>6, <3>1, <3>2
  <2> QED
    BY <1>0, <2>2, <2>3
<1>9. 1 \in 1..n /\ n \in 1..n /\ n + 1 - 1 = n /\ n + 1 - n = 1
  BY <1>4
<1>10. ASSUME NEW k \in 1..n
       PROVE  IF request.after THEN chunks[k][2] = From(k - 1) ELSE chunks[k][1] = To(k - 1)
  <2>1. CASE k = 1
    <3>1. IF request.after THEN chunks[1][2] = request.length ELSE chunks[1][1] = 0
      BY <1>6, <1>7, <1>9
    <3> QED
      BY <2>1, <3>1 DEF From, To
  <2>2. CASE k # 1 /\ ~request.after
    <3>1. k - 1 \in 1..(n - 1) /\ k - 1 \in 1..n /\ (k - 1) + 1 = k /\ k - 1 # 0
      BY <1>4, <2>2
    <3>2. InOrder(k - 1)[2] = InOrder(k)[1]
      BY <1>7, <3>1
    <3> QED
      BY <1>6, <2>2, <3>1, <3>2 DEF To
  <2>3. CASE k # 1 /\ request.after
    <3>1. /\ n + 1 - k \in 1..(n - 1) /\ n + 1 - k \in 1..n
          /\ (n + 1 - k) + 1 \in 1..n
          /\ n + 1 - ((n + 1 - k) + 1) = k - 1 /\ k - 1 # 0
      BY <1>4, <2>3
    <3>2. InOrder(n + 1 - k)[2] = InOrder((n + 1 - k) + 1)[1]
      BY <1>7, <3>1
    <3> QED
      BY <1>6, <2>3, <3>1, <3>2 DEF From
  <2> QED
    BY <2>1, <2>2, <2>3
<1>11. From(n) = 0 /\ To(n) = request.length
  <2>1. IF request.after THEN chunks[n][1] = 0 ELSE chunks[n][2] = request.length
    BY <1>6, <1>7, <1>9
  <2> QED
    BY <1>4, <2>1 DEF From, To
<1> QED
  BY <1>0, <1>4, <1>5, <1>8, <1>10, <1>11 DEF n

\* What is sent so far, as a slice of the request.
LEMMA SentSoFar ==
    ASSUME PlanInv, phase = "planned", NEW k \in 0..Len(chunks)
    PROVE  /\ From(k) \in Nat /\ To(k) \in Nat /\ From(k) <= To(k) /\ To(k) <= request.length
           /\ k = 0 => From(k) = To(k)
           /\ request.length > 0 /\ k > 0 => From(k) < To(k)
           /\ FirstItems(k) = Sent(k)
<1> DEFINE n == Len(chunks)
<1>1. n \in Nat \ {0} /\ request.length \in Nat /\ request.after \in BOOLEAN
  BY SendOrder, RequestAssumption DEF PlanInv, PlanTypeOK, RequestType
<1> HIDE DEF n
<1>2. \A i \in 1..n :
          /\ chunks[i][1] \in Nat /\ chunks[i][2] \in Nat
          /\ chunks[i][2] <= request.length
          /\ IF request.length = 0 THEN chunks[i][1] = 0 /\ chunks[i][2] = 0
                                   ELSE chunks[i][1] < chunks[i][2]
  BY SendOrder DEF n
<1>3. IF request.after THEN chunks[1][2] = request.length ELSE chunks[1][1] = 0
  <2>1. 1 \in 1..n
    BY <1>1
  <2>2. IF request.after THEN chunks[1][2] = From(1 - 1) ELSE chunks[1][1] = To(1 - 1)
    BY <2>1, SendOrder DEF n
  <2> QED
    BY <2>2 DEF From, To
<1>4. CASE k = 0
  BY <1>1, <1>4 DEF From, To, FirstItems, Sent, Slice
<1>5. CASE k # 0
  <2>1. k \in 1..n
    BY <1>1, <1>5 DEF n
  <2>2. FirstItems(k) = Sent(k)
    BY <1>3, <1>5 DEF FirstItems, Sent, From, To
  <2>3. CASE request.after
    BY <1>1, <1>2, <1>5, <2>1, <2>2, <2>3 DEF From, To
  <2>4. CASE ~request.after
    BY <1>1, <1>2, <1>5, <2>1, <2>2, <2>4 DEF From, To
  <2> QED
    BY <2>3, <2>4
<1> QED
  BY <1>4, <1>5

\* What the next chunk adds to it.
LEMMA NextChunk ==
    ASSUME PlanInv, phase = "planned", NEW k \in 1..Len(chunks)
    PROVE  /\ chunks[k][1] \in Nat /\ chunks[k][2] \in Nat /\ chunks[k][1] <= chunks[k][2]
           /\ chunks[k][2] <= request.length
           /\ Count(k) \in Nat /\ (Count(k) = 0 <=> request.length = 0)
           /\ k - 1 \in 0..Len(chunks)
           /\ To(k) - From(k) = (To(k - 1) - From(k - 1)) + Count(k)
           /\ IF request.after
                 THEN From(k) = chunks[k][1] /\ From(k - 1) = chunks[k][2] /\ To(k) = To(k - 1)
                 ELSE To(k) = chunks[k][2] /\ To(k - 1) = chunks[k][1] /\ From(k) = From(k - 1)
<1> DEFINE n == Len(chunks)
           a == chunks[k][1]
           b == chunks[k][2]
<1>1. /\ n \in Nat \ {0} /\ request.length \in Nat
      /\ a \in Nat /\ b \in Nat /\ b <= request.length
      /\ IF request.length = 0 THEN a = 0 /\ b = 0 ELSE a < b
      /\ IF request.after THEN b = From(k - 1) ELSE a = To(k - 1)
  BY SendOrder
<1>2. Count(k) = b - a /\ k - 1 \in 0..n /\ k \in 0..n /\ k # 0
  BY DEF Count
<1>3. IF request.after
        THEN From(k) = a /\ From(k - 1) = b /\ To(k) = To(k - 1)
        ELSE To(k) = b /\ To(k - 1) = a /\ From(k) = From(k - 1)
  BY <1>1, <1>2 DEF From, To
<1>4. From(k) \in Nat /\ To(k) \in Nat /\ From(k - 1) \in Nat /\ To(k - 1) \in Nat
  BY <1>2, SentSoFar
<1> HIDE DEF n, a, b
<1>5. To(k) - From(k) = (To(k - 1) - From(k - 1)) + Count(k)
  BY <1>1, <1>2, <1>3, <1>4, SMTT(60)
<1>6. a <= b /\ Count(k) \in Nat /\ (Count(k) = 0 <=> request.length = 0)
  BY <1>1, <1>2
<1> QED
  BY <1>1, <1>2, <1>3, <1>5, <1>6 DEF n, a, b

\* Sent behind the others, or before them.
LEMMA SentNext ==
    ASSUME PlanInv, phase = "planned", NEW k \in 1..Len(chunks)
    PROVE  LET chunk == Slice(chunks[k][1], chunks[k][2])
           IN  Sent(k) = IF request.after THEN chunk \o Sent(k - 1) ELSE Sent(k - 1) \o chunk
<1>1. k \in 0..Len(chunks) /\ k - 1 \in 0..Len(chunks)
  BY NextChunk
<1>2. /\ From(k) \in Nat /\ To(k) \in Nat /\ From(k) <= To(k)
      /\ From(k - 1) \in Nat /\ To(k - 1) \in Nat /\ From(k - 1) <= To(k - 1)
  BY <1>1, SentSoFar
<1>3. /\ chunks[k][1] \in Nat /\ chunks[k][2] \in Nat /\ chunks[k][1] <= chunks[k][2]
      /\ IF request.after
           THEN From(k) = chunks[k][1] /\ From(k - 1) = chunks[k][2] /\ To(k) = To(k - 1)
           ELSE To(k) = chunks[k][2] /\ To(k - 1) = chunks[k][1] /\ From(k) = From(k - 1)
  BY NextChunk
<1>4. CASE request.after
  <2>1. Slice(From(k), From(k - 1)) \o Slice(From(k - 1), To(k - 1)) = Slice(From(k), To(k - 1))
    <3>1. From(k) <= From(k - 1)
      BY <1>3, <1>4
    <3> QED
      BY <1>2, <3>1, SlicesJoin
  <2> QED
    BY <1>3, <1>4, <2>1 DEF Sent
<1>5. CASE ~request.after
  <2>1. Slice(From(k - 1), To(k - 1)) \o Slice(To(k - 1), To(k)) = Slice(From(k - 1), To(k))
    <3>1. To(k - 1) <= To(k)
      BY <1>3, <1>5
    <3> QED
      BY <1>2, <3>1, SlicesJoin
  <2> QED
    BY <1>3, <1>5, <2>1 DEF Sent
<1> QED
  BY <1>4, <1>5

-----------------------------------------------------------------------------
(* The invariant of the loop. *)

Kinds == {"none", "success", "false", "partial", "unavailable", "error", "value_error",
          "too_large", "cancelled", "stub_error"}

SendTypeOK ==
    /\ node \in Nodes /\ next \in Nat \ {0}
    /\ acknowledged \in Nat /\ done \in Nat /\ total \in Nat
    /\ wire \in {"idle", "ready", "flight", "stored", "refused"}
    /\ outcome \in [kind : Kinds, chunks : Nat, items : Nat]
    /\ outcome.kind = "none" => outcome = Undecided
    /\ store \in [Nodes -> Seq(Nat)] /\ before \in Seq(Nat)
    /\ confirmed \in [Nodes -> Nat]
    /\ missing \in Nat

\* The value that insertions refer to is on every node.
Anchored ==
    request.op \in {"before", "after"} =>
        KeepsValue(before) /\ \A n \in Nodes : KeepsValue(store[n])

\* Until the first chunk may be sent nothing has happened.
Untouched ==
    wire = "idle" =>
        /\ next = 1 /\ acknowledged = 0 /\ done = 0 /\ total = 0 /\ missing = 0
        /\ store[node] = before
        /\ outcome.kind \in {"none", "value_error", "error"}

\* The counters are those of the chunks before the next.
Counted ==
    wire # "idle" =>
        /\ phase = "planned" /\ ContinuationsFit
        /\ next <= Len(chunks) + 1
        /\ acknowledged = IF ~Creates /\ request.length = 0 THEN 0 ELSE next - 1
        /\ done = To(next - 1) - From(next - 1)
        /\ missing <= done /\ total <= MaxCount
        /\ Creates => total = 0
        /\ ~Creates => total = done - missing
        /\ wire # "ready" => outcome = Undecided /\ next <= Len(chunks) /\ ~Skips(next)
        /\ outcome.kind = "success" => next = Len(chunks) + 1

\* Only the node in use has confirmed anything, and an operation that is repeated
\* nothing at all.
Confirmed ==
    /\ confirmed[node] = acknowledged
    /\ \A n \in Nodes \ {node} : confirmed[n] = 0
    /\ outcome.kind = "unavailable" => wire = "ready" /\ next = 1 /\ acknowledged = 0

LoopInv == PlanInv /\ Placed /\ SendTypeOK /\ Anchored /\ Untouched /\ Counted /\ Confirmed

\* The node has grown by the items acknowledged, less those it answered with 0, and by
\* the chunk it has stored before its reply; when a call has failed by that chunk or not.
Grows ==
    wire # "idle" =>
        /\ outcome.kind \in {"none", "success"} => Grown = (done - missing) + Size
        /\ \/ Grown = done - missing
           \/ next <= Len(chunks) /\ Grown = (done - missing) + Count(next)

\* The node holds what one request with the first k chunks' items leaves.
Holds(k) ==
    /\ store[node] = Unchunked(Sent(k))
    /\ Sent(k) = <<>> \/ Reach(before, request.pos)

Contents ==
    wire # "idle" =>
        /\ wire = "refused" => ~(Creates /\ next = 1)
        /\ Creates /\ next > 1 => missing + Count(1) <= done
        /\ outcome.kind = "none" /\ missing = 0 => Holds(IF wire = "stored" THEN next ELSE next - 1)
        /\ outcome.kind = "success" /\ missing = 0 => Holds(next - 1)
        /\ Strict => /\ missing = 0
                     /\ Holds(next - 1) \/ (next <= Len(chunks) /\ Holds(next))

\* What the error says, against the chunks that were acknowledged.
Told ==
    /\ outcome.kind = "false" => store[node] = before
    /\ acknowledged > 0 =>
          outcome.kind \in {"none", "success", "partial", "stub_error", "cancelled"}
    /\ outcome.kind = "partial" =>
          /\ wire = "ready" /\ outcome.chunks >= 1
          /\ \/ outcome.chunks = next - 1 /\ outcome.items = done
             \/ /\ outcome.chunks = next /\ next <= Len(chunks)
                /\ outcome.items = done + Count(next)
                /\ Grown = outcome.items - missing

SendInv == LoopInv /\ Grows /\ Contents /\ Told

\* The lists that plan() may return for the request.
Plan(ds) ==
    \E cs : /\ ds = InSendOrder(cs)
            /\ IF request.length = 0 THEN cs = <<<<0, 0>>>>
               ELSE Forward(cs, request.length) /\ cs # <<>>

Times(s, i) == Cardinality(Occurrences(s, i))

Once(S, i) == IF i \in S THEN 1 ELSE 0

\* The items of the first k chunks, and of the first chunk of a plan.
SentItems(k) == (From(k) + 1)..To(k)
FirstChunk(ds) == (ds[1][1] + 1)..ds[1][2]

\* How many chunks the node has got, while none was refused.
Reached == IF wire = "stored" THEN next ELSE next - 1

\* At most the items sent so far are there once more than before.
Repeated ==
    \A i \in 1..request.length :
        /\ Times(store[node], i) <= Times(before, i) + 1
        /\ wire # "idle" /\ outcome.kind = "none" =>
              Times(store[node], i) <= Times(before, i) + Once(SentItems(Reached), i)
        /\ outcome.kind = "unavailable" =>
              Times(store[node], i) <= Times(before, i) + Once(FirstChunk(chunks), i)

\* What the first node may have handed to the second: the first chunk.
Handed ==
    /\ node = 1 => before = Original
    /\ \A n \in Nodes : n > node => store[n] = Original
    /\ node = 2 =>
          /\ \A i \in 1..request.length : Times(store[1], i) <= 1
          /\ \E ds : /\ Plan(ds)
                     /\ \A i \in 1..request.length : Times(before, i) <= Once(FirstChunk(ds), i)

RepeatInv == LoopInv /\ Repeated /\ Handed

-----------------------------------------------------------------------------
(* The loop keeps it. *)

LEMMA RequestIs ==
    ASSUME PlanInv
    PROVE  /\ RequestType(request) /\ OperationType(request)
           /\ request.pos \in Int \cup {NoPos} /\ request.length \in Nat
  BY RequestAssumption, OperationAssumption, SizeAssumption
     DEF PlanInv, PlanTypeOK, RequestType

\* What the plan and the request say stays when they do.
LEMMA PlanKept ==
    ASSUME UNCHANGED plan_vars
    PROVE  /\ UNCHANGED <<Creates, Strict, Original, ContinuationsFit>>
           /\ \A k : UNCHANGED <<From(k), To(k), Sent(k), Count(k), Skips(k)>>
           /\ \A s, A, p : UNCHANGED <<Applied(s, A, p), Reach(s, p)>>
           /\ \A ds : UNCHANGED <<Plan(ds)>>
<1>0. UNCHANGED <<request, phase, index, start, lo, hi, chunks>>
  BY DEF plan_vars
<1>1. UNCHANGED <<Creates, Strict, Original, ContinuationsFit>>
  BY <1>0 DEF Creates, Strict, Original, ContinuationsFit, ContinuationBytes
<1>2. \A k : UNCHANGED <<From(k), To(k), Sent(k), Count(k), Skips(k)>>
  BY <1>0 DEF From, To, Sent, Count, Skips, Creates
<1>3. \A s, A, p : UNCHANGED <<Applied(s, A, p), Reach(s, p)>>
  BY <1>0 DEF Applied, Reach
<1>4. \A ds : UNCHANGED <<Plan(ds)>>
  BY <1>0 DEF Plan, InSendOrder, Forward, Fits, Reserved, PositionBytes, PositionOf, Positioned
<1> QED
  BY <1>1, <1>2, <1>3, <1>4

\* A second try begins with a new plan.
LEMMA PlanInvAlways ==
    ASSUME PlanInv, Placed, [Next]_vars
    PROVE  PlanInv' /\ Placed'
<1>1. CASE [PlanStep]_plan_vars
  BY <1>1, PlanInvStep, PlacedStep
<1>2. CASE \E replicated \in BOOLEAN : Fallback(replicated)
  <2>1. PlanInit' /\ Placed'
    BY <1>2 DEF Fallback, PlanInit, Placed, PlanInv, PlanTypeOK
  <2>2. PlanInit' => PlanInv'
    BY PlanInvInit, PTL
  <2> QED
    BY <2>1, <2>2
<1> QED
  BY <1>1, <1>2
     DEF Next, vars, Start, PlanFails, Skip, Send, Succeed, NotSent, ServerStores, ServerRefuses,
         RpcFails, AddReply, CreateReply, Cancelled, StubLost

LEMMA LoopInit == Init => LoopInv
<1> SUFFICES ASSUME Init PROVE LoopInv
  OBVIOUS
<1>1. PlanInv /\ Placed
  BY PlanInvInit DEF Init, PlanInit, Placed
<1>2. OperationType(request)
  BY <1>1, RequestIs
<1>3. Original \in Seq(Nat) /\ node \in Nodes
  BY EndpointAssumption DEF Init, Original, Nodes
<1>4. SendTypeOK
  BY <1>3 DEF Init, SendTypeOK, Undecided, Kinds
<1>5. Anchored
  <2>1. KeepsValue(<<0>>)
    <3>1. <<>> \in Seq(Nat \ {0}) /\ <<0>> = <<>> \o <<0>> \o <<>>
      OBVIOUS
    <3> QED
      BY <3>1 DEF KeepsValue
  <2>2. request.op \in {"before", "after"} => Original = <<0>>
    BY <1>2 DEF OperationType, Original, Creates
  <2> QED
    BY <2>1, <2>2 DEF Init, Anchored
<1>6. Untouched /\ Counted /\ Confirmed
  BY <1>3 DEF Init, Untouched, Counted, Confirmed, Undecided
<1> QED
  BY <1>1, <1>4, <1>5, <1>6 DEF LoopInv

\* The steps before the loop.
LEMMA LoopBegins ==
    ASSUME LoopInv, (PlanStep /\ UNCHANGED sendVars) \/ Start \/ PlanFails \/ UNCHANGED vars
    PROVE  (SendTypeOK /\ Anchored /\ Untouched /\ Counted /\ Confirmed)'
<1> USE DEF LoopInv
<1>1. CASE PlanStep /\ UNCHANGED sendVars
  <2>1. UNCHANGED sendVars /\ UNCHANGED request
    BY <1>1 DEF PlanStep, CheckHeader, CheckItem, StartCutting, Cut, Probe, Emit, Planned,
       PlanExpires, Reject
  <2>2. wire = "idle"
    BY <1>1 DEF Counted, SendTypeOK, PlanStep, CheckHeader, CheckItem, StartCutting, Cut, Probe,
       Emit, Planned, PlanExpires
  <2>3. (SendTypeOK /\ Anchored)'
    BY <2>1 DEF SendTypeOK, Anchored, sendVars, KeepsValue
  <2>4. (Untouched /\ Counted /\ Confirmed)'
    BY <2>1, <2>2 DEF Untouched, Counted, Confirmed, sendVars
  <2> QED
    BY <2>3, <2>4
<1>2. CASE Start
  <2>1. /\ UNCHANGED plan_vars /\ phase = "planned" /\ wire = "idle" /\ outcome = Undecided
        /\ UNCHANGED <<node, next, acknowledged, done, total, store, before, confirmed, missing>>
    BY <1>2 DEF Start
  <2>2. \/ ContinuationsFit /\ wire' = "ready" /\ outcome' = Undecided
        \/ outcome' = Result("value_error") /\ wire' = "idle"
    BY <1>2 DEF Start
  <2>3. (SendTypeOK /\ Anchored)'
    BY <2>1, <2>2 DEF SendTypeOK, Anchored, Result, Undecided, Kinds, plan_vars
  <2>4. (Untouched /\ Confirmed)'
    BY <2>1, <2>2 DEF Untouched, Confirmed, Result, Undecided
  <2>5. Counted'
    <3>1. CASE wire' = "idle"
      BY <3>1 DEF Counted
    <3>2. CASE wire' = "ready"
      <4>1. /\ phase' = "planned" /\ ContinuationsFit' /\ next' = 1 /\ total' = 0 /\ done' = 0
            /\ missing' = 0
            /\ acknowledged' = 0 /\ outcome' = Undecided /\ UNCHANGED <<request, chunks>>
        BY <2>1, <2>2, <3>2, PlanKept DEF Untouched, plan_vars
      <4>2. Len(chunks) \in Nat /\ MaxCount \in Nat /\ request.length \in Nat
        BY <2>1, SendOrder, EndpointAssumption
      <4>3. To(0)' = From(0)' /\ From(0)' \in Nat
        BY <4>1, <4>2 DEF To, From
      <4> QED
        BY <3>2, <4>1, <4>2, <4>3 DEF Counted, Undecided, To, From
    <3> QED
      BY <2>1, <2>2, <3>1, <3>2
  <2> QED
    BY <2>3, <2>4, <2>5
<1>3. CASE PlanFails
  <2>1. /\ UNCHANGED plan_vars /\ wire = "idle" /\ wire' = "idle"
        /\ UNCHANGED <<node, next, acknowledged, done, total, store, before, confirmed, missing>>
        /\ outcome' = Result("value_error") \/ outcome' = Result("error")
    BY <1>3 DEF PlanFails, Counted, SendTypeOK
  <2>2. (SendTypeOK /\ Anchored)'
    BY <2>1 DEF SendTypeOK, Anchored, Result, Kinds, plan_vars
  <2>3. (Untouched /\ Confirmed)' /\ Counted'
    BY <2>1 DEF Untouched, Confirmed, Counted, Result
  <2> QED
    BY <2>2, <2>3
<1>4. CASE UNCHANGED vars
  <2>1. UNCHANGED plan_vars /\ UNCHANGED sendVars
    BY <1>4 DEF vars
  <2>2. (SendTypeOK /\ Anchored)'
    BY <2>1 DEF SendTypeOK, Anchored, sendVars, KeepsValue, plan_vars
  <2>3. (Untouched /\ Confirmed)'
    BY <2>1 DEF Untouched, Confirmed, sendVars
  <2>4. Counted'
    BY <2>1, PlanKept DEF Counted, sendVars, plan_vars, To, From, Creates, Skips, Count
  <2> QED
    BY <2>2, <2>3, <2>4
<1> QED
  BY <1>1, <1>2, <1>3, <1>4

\* The steps of one chunk that move no counter.
LEMMA LoopRuns ==
    ASSUME LoopInv, wire # "idle", wire' # "idle",
           UNCHANGED plan_vars,
           UNCHANGED <<node, next, acknowledged, done, total, before, confirmed, missing>>,
           (SendTypeOK /\ Anchored)',
           wire' # "ready" => outcome' = Undecided /\ next <= Len(chunks) /\ ~Skips(next),
           outcome'.kind = "success" => next = Len(chunks) + 1,
           outcome'.kind = "unavailable" => wire' = "ready" /\ next = 1 /\ acknowledged = 0
    PROVE  (Untouched /\ Counted /\ Confirmed)'
<1>1. Untouched' /\ Confirmed'
  BY DEF LoopInv, Untouched, Confirmed
<1>2. Counted'
  BY PlanKept DEF LoopInv, Counted, plan_vars, To, From, Creates, Skips, Count
<1> QED
  BY <1>1, <1>2

\* A node can place the chunk it stores.
LEMMA ChunkReaches ==
    ASSUME LoopInv, ServerStores
    PROVE  /\ next \in 1..Len(chunks)
           /\ Slice(chunks[next][1], chunks[next][2]) \in Seq(Nat \ {0})
           /\ PositionOf(chunks[next][1]) \in Int \cup {NoPos}
           /\ Reach(store[node], PositionOf(chunks[next][1]))
           /\ store[node] \in Seq(Nat) /\ node \in Nodes
<1>1. /\ wire = "flight" /\ phase = "planned" /\ next <= Len(chunks)
      /\ request.op = "position" =>
            PositionOf(chunks[next][1]) \in 0..Len(store[node]) \cup {MaxPos}
  BY DEF ServerStores, LoopInv, Counted
<1>2. next \in 1..Len(chunks)
  BY <1>1, SendOrder DEF LoopInv, SendTypeOK
<1>3. chunks[next][1] \in Nat /\ chunks[next][2] \in Nat /\ chunks[next][1] <= chunks[next][2]
  BY <1>1, <1>2, NextChunk DEF LoopInv
<1>4. PositionOf(chunks[next][1]) \in Int \cup {NoPos}
  BY <1>3, RequestIs DEF LoopInv, PositionOf, Positioned
<1>5. store[node] \in Seq(Nat) /\ node \in Nodes
  BY DEF LoopInv, SendTypeOK
<1>6. Reach(store[node], PositionOf(chunks[next][1]))
  BY <1>1, <1>5 DEF LoopInv, Anchored, Reach
<1> QED
  BY <1>2, <1>3, <1>4, <1>5, <1>6, SliceIs

\* Sending, and what comes back.
LEMMA LoopSends ==
    ASSUME LoopInv,
           \/ Send \/ Succeed \/ ServerStores \/ ServerRefuses
           \/ \E kind \in {"error", "too_large"} : NotSent(kind)
           \/ \E kind \in {"unavailable", "error"} : RpcFails(kind)
           \/ Cancelled \/ StubLost
    PROVE  (SendTypeOK /\ Anchored /\ Untouched /\ Counted /\ Confirmed)'
<1> USE DEF LoopInv
<1>0. ASSUME NEW kind \in Kinds \ {"none"}
      PROVE  /\ Failure(kind) \in [kind : Kinds \ {"none"}, chunks : Nat, items : Nat]
             /\ Failure(kind).kind = "unavailable" => kind = "unavailable" /\ acknowledged = 0
             /\ Failure(kind).kind = "success" => kind = "success"
  BY DEF Failure, PartialOperationError, Result, Kinds, SendTypeOK
<1>1. CASE Send
  <2>1. (SendTypeOK /\ Anchored)'
    BY <1>1 DEF Send, SendTypeOK, Anchored, plan_vars, KeepsValue
  <2> QED
    BY <1>1, <2>1, LoopRuns DEF Send, Ready, Undecided
<1>2. CASE Succeed
  <2>1. (SendTypeOK /\ Anchored)'
    BY <1>2 DEF Succeed, SendTypeOK, Anchored, plan_vars, KeepsValue, Result, Kinds
  <2>2. next = Len(chunks) + 1
    BY <1>2, SendOrder DEF Succeed, Ready, Counted, SendTypeOK
  <2> QED
    BY <1>2, <2>1, <2>2, LoopRuns DEF Succeed, Ready, Undecided, Result
<1>3. CASE ServerRefuses
  <2>1. (SendTypeOK /\ Anchored)'
    BY <1>3 DEF ServerRefuses, SendTypeOK, Anchored, plan_vars, KeepsValue
  <2> QED
    BY <1>3, <2>1, LoopRuns DEF ServerRefuses, Counted, Undecided
<1>4. ASSUME NEW kind \in {"error", "too_large"}, NotSent(kind)
      PROVE  (SendTypeOK /\ Anchored /\ Untouched /\ Counted /\ Confirmed)'
  <2>1. outcome' = Failure(kind) /\ kind \in Kinds \ {"none"} /\ wire = "ready" /\ wire' = "ready"
    BY <1>4 DEF NotSent, Ready, Kinds
  <2>2. (SendTypeOK /\ Anchored)'
    <3>1. outcome' \in [kind : Kinds \ {"none"}, chunks : Nat, items : Nat]
      BY <1>0, <2>1
    <3>2. SendTypeOK'
      BY <1>4, <2>1, <3>1 DEF NotSent, SendTypeOK
    <3>3. Anchored'
      BY <1>4 DEF NotSent, Anchored, plan_vars, KeepsValue
    <3> QED
      BY <3>2, <3>3
  <2>3. outcome'.kind # "unavailable" /\ outcome'.kind # "success"
    BY <1>0, <1>4, <2>1
  <2> QED
    BY <1>4, <2>1, <2>2, <2>3, LoopRuns DEF NotSent
<1>5. ASSUME NEW kind \in {"unavailable", "error"}, RpcFails(kind)
      PROVE  (SendTypeOK /\ Anchored /\ Untouched /\ Counted /\ Confirmed)'
  <2>1. /\ outcome' = Failure(kind) /\ kind \in Kinds \ {"none"} /\ wire' = "ready"
        /\ wire \in {"flight", "stored", "refused"}
    BY <1>5 DEF RpcFails, Kinds
  <2>2. (SendTypeOK /\ Anchored)'
    <3>1. outcome' \in [kind : Kinds \ {"none"}, chunks : Nat, items : Nat]
      BY <1>0, <2>1
    <3>2. SendTypeOK'
      BY <1>5, <2>1, <3>1 DEF RpcFails, SendTypeOK
    <3>3. Anchored'
      BY <1>5 DEF RpcFails, Anchored, plan_vars, KeepsValue
    <3> QED
      BY <3>2, <3>3
  <2>3. outcome'.kind # "success"
    BY <1>0, <1>5, <2>1
  <2>4. ASSUME outcome'.kind = "unavailable" PROVE next = 1 /\ acknowledged = 0
    <3>1. acknowledged = 0
      BY <1>0, <2>1, <2>4
    <3>2. next \in 1..Len(chunks) /\ ~Skips(next) /\ phase = "planned"
      BY <2>1, SendOrder DEF Counted, SendTypeOK
    <3>3. ~(~Creates /\ request.length = 0)
      BY <3>2, NextChunk DEF Skips
    <3> QED
      BY <2>1, <3>1, <3>3 DEF Counted, SendTypeOK
  <2> QED
    BY <1>5, <2>1, <2>2, <2>3, <2>4, LoopRuns DEF RpcFails
<1>6. CASE ServerStores
  <2> DEFINE chunk == Slice(chunks[next][1], chunks[next][2])
             pos == PositionOf(chunks[next][1])
  <2>1. /\ chunk \in Seq(Nat \ {0}) /\ pos \in Int \cup {NoPos} /\ Reach(store[node], pos)
        /\ store[node] \in Seq(Nat) /\ node \in Nodes /\ OperationType(request)
    BY <1>6, ChunkReaches, RequestIs
  <2>2. /\ wire = "flight" /\ wire' = "stored"
        /\ store' = [store EXCEPT ![node] = Applied(store[node], chunk, pos)]
        /\ UNCHANGED plan_vars
        /\ UNCHANGED <<node, next, acknowledged, done, total, outcome, before, confirmed, missing>>
    BY <1>6 DEF ServerStores
  <2> HIDE DEF chunk, pos
  <2>3. Applied(store[node], chunk, pos) \in Seq(Nat)
    BY <2>1, AppliedGrows
  <2>4. SendTypeOK'
    BY <2>2, <2>3 DEF SendTypeOK
  <2>5. Anchored'
    <3>1. ASSUME request.op \in {"before", "after"}
          PROVE  KeepsValue(before) /\ \A n \in Nodes : KeepsValue(store'[n])
      <4>1. KeepsValue(Applied(store[node], chunk, pos))
        BY <2>1, <3>1, ValueStays DEF Anchored
      <4> QED
        BY <2>2, <3>1, <4>1 DEF Anchored, SendTypeOK
    <3> QED
      BY <2>2, <3>1 DEF Anchored, plan_vars, KeepsValue
  <2>6. next <= Len(chunks) /\ ~Skips(next) /\ outcome = Undecided
    BY <2>2 DEF Counted
  <2> QED
    BY <2>2, <2>4, <2>5, <2>6, LoopRuns DEF Undecided
<1>7. CASE Cancelled \/ StubLost
  <2>1. /\ UNCHANGED plan_vars /\ wire # "idle" /\ wire' = "ready"
        /\ UNCHANGED <<node, next, acknowledged, done, total, store, before, confirmed, missing>>
        /\ outcome' = Result("cancelled") \/ outcome' = Result("stub_error")
    BY <1>7 DEF Cancelled, StubLost, Ready
  <2>2. SendTypeOK'
    BY <2>1 DEF SendTypeOK, Result, Kinds
  <2>3. Anchored'
    BY <2>1 DEF Anchored, plan_vars, KeepsValue
  <2> QED
    BY <2>1, <2>2, <2>3, LoopRuns DEF Result
<1> QED
  BY <1>1, <1>2, <1>3, <1>4, <1>5, <1>6, <1>7

\* A reply is counted, and the loop goes on or stops.
LEMMA LoopReplies ==
    ASSUME LoopInv, AddReply \/ CreateReply \/ Skip
    PROVE  (SendTypeOK /\ Anchored /\ Untouched /\ Counted /\ Confirmed)'
<1> USE DEF LoopInv
<1>1. /\ UNCHANGED plan_vars /\ UNCHANGED <<node, store, before>>
      /\ wire # "idle" /\ wire' = "ready" /\ phase = "planned" /\ outcome = Undecided
      /\ next \in 1..Len(chunks) /\ next \in Nat /\ Len(chunks) \in Nat
  BY SendOrder DEF AddReply, CreateReply, Skip, Ready, Counted, SendTypeOK, Stop, Advance
<1>2. /\ Count(next) \in Nat /\ (Count(next) = 0 <=> request.length = 0)
      /\ To(next) - From(next) = done + Count(next)
  BY <1>1, NextChunk DEF Counted
<1>3. acknowledged = IF ~Creates /\ request.length = 0 THEN 0 ELSE next - 1
  BY <1>1 DEF Counted
<1>4. Size \in Nat /\ Size <= Count(next)
  BY <1>2 DEF Size
<1>5. \/ /\ next' = next + 1 /\ outcome' = Undecided
         /\ done' = done + Count(next)
         /\ acknowledged' = IF ~Creates /\ request.length = 0 THEN 0 ELSE next
         /\ confirmed' = [confirmed EXCEPT ![node] = acknowledged']
         /\ missing' = missing + (Count(next) - Size)
      \/ /\ UNCHANGED <<next, acknowledged, done, confirmed, missing>>
         /\ outcome' \in [kind : {"false", "partial"}, chunks : Nat, items : Nat]
  <2>1. CASE Skip
    <3>1. wire = "ready" /\ ~Creates /\ Count(next) = 0 /\ Size = 0
      BY <2>1 DEF Skip, Skips, Ready, Size
    <3>2. missing' = missing + (Count(next) - Size)
      BY <2>1, <3>1 DEF Skip, SendTypeOK
    <3> QED
      BY <1>1, <1>2, <1>3, <2>1, <3>1, <3>2 DEF Skip, SendTypeOK, Confirmed
  <2>2. CASE AddReply \/ CreateReply
    <3>1. ~Skips(next)
      BY <1>1, <2>2 DEF AddReply, CreateReply, Counted
    <3>2. ASSUME Advance
          PROVE  /\ next' = next + 1 /\ outcome' = Undecided
                 /\ done' = done + Count(next)
                 /\ acknowledged' = IF ~Creates /\ request.length = 0 THEN 0 ELSE next
                 /\ confirmed' = [confirmed EXCEPT ![node] = acknowledged']
                 /\ missing' = missing + (Count(next) - Size)
      <4>1. acknowledged = next - 1 /\ acknowledged + 1 = next
        BY <1>1, <1>2, <1>3, <3>1 DEF Skips
      <4>2. confirmed[node] + 1 = next
        BY <4>1 DEF Confirmed
      <4> QED
        BY <1>1, <1>2, <3>1, <3>2, <4>1, <4>2 DEF Advance, Skips
    <3>3. ASSUME NEW result \in [kind : {"false", "partial"}, chunks : Nat, items : Nat],
                 Stop(result)
          PROVE  /\ UNCHANGED <<next, acknowledged, done, confirmed, missing>>
                 /\ outcome' \in [kind : {"false", "partial"}, chunks : Nat, items : Nat]
      BY <3>3 DEF Stop
    <3>4. /\ Overflowed \in [kind : {"false", "partial"}, chunks : Nat, items : Nat]
          /\ Refusal \in [kind : {"false", "partial"}, chunks : Nat, items : Nat]
          /\ PartialOperationError(acknowledged, done)
                \in [kind : {"false", "partial"}, chunks : Nat, items : Nat]
      <4>1. acknowledged \in Nat /\ done \in Nat /\ done + Count(next) \in Nat
        BY <1>2 DEF SendTypeOK
      <4> QED
        BY <4>1 DEF Overflowed, Refusal, PartialOperationError, Result
    <3>5. Advance \/ Stop(Overflowed) \/ Stop(Refusal) \/ Stop(PartialOperationError(acknowledged, done))
      BY <2>2 DEF AddReply, CreateReply
    <3> QED
      BY <3>2, <3>3, <3>4, <3>5
  <2> QED
    BY <2>1, <2>2
<1>6. /\ total' \in Nat /\ (Creates => total' = 0) /\ total' <= MaxCount
      /\ missing' \in Nat /\ missing' <= done'
      /\ ~Creates => total' = done' - missing'
  <2>1. /\ total \in Nat /\ missing \in Nat /\ missing <= done /\ total <= MaxCount
        /\ Creates => total = 0
        /\ ~Creates => total = done - missing
    BY <1>1 DEF Counted, SendTypeOK
  <2>2. \/ total' = total /\ (next' = next + 1 => Creates \/ Size = 0)
        \/ ~Creates /\ ~CountOverflows /\ total' = total + Size /\ (Size = 0 \/ next' = next + 1)
    <3>1. CASE Skip
      BY <1>1, <3>1 DEF Skip, Skips, Ready, Size
    <3>2. CASE CreateReply
      BY <3>2 DEF CreateReply
    <3>3. CASE AddReply
      BY <1>1, <3>3 DEF AddReply, Advance, Stop, Refused
    <3> QED
      BY <3>1, <3>2, <3>3
  <2>3. done \in Nat /\ MaxCount \in Nat /\ next \in Nat
    BY EndpointAssumption DEF SendTypeOK
  <2>4. \/ /\ next' = next + 1 /\ done' = done + Count(next)
           /\ missing' = missing + (Count(next) - Size)
        \/ next' = next /\ done' = done /\ missing' = missing
    BY <1>5
  <2> QED
    BY <1>2, <1>4, <2>1, <2>2, <2>3, <2>4, SMTT(60) DEF CountOverflows
<1>7. SendTypeOK'
  <2>1. next' \in Nat \ {0} /\ acknowledged' \in Nat /\ done' \in Nat
    BY <1>1, <1>2, <1>5, SMTT(60) DEF SendTypeOK
  <2>2. /\ outcome' \in [kind : Kinds, chunks : Nat, items : Nat]
        /\ outcome'.kind = "none" => outcome' = Undecided
    BY <1>5 DEF Undecided, Kinds
  <2>3. confirmed' \in [Nodes -> Nat]
    BY <1>1, <1>5, <2>1 DEF SendTypeOK
  <2> QED
    BY <1>1, <1>6, <2>1, <2>2, <2>3 DEF SendTypeOK
<1>8. Anchored' /\ Untouched'
  BY <1>1 DEF Anchored, Untouched, plan_vars, KeepsValue
<1>9. Confirmed'
  <2>1. outcome'.kind \in {"none", "false", "partial"}
    BY <1>5 DEF Undecided
  <2>2. confirmed'[node] = acknowledged'
    BY <1>5 DEF Confirmed, SendTypeOK
  <2>3. \A n \in Nodes \ {node} : confirmed'[n] = 0
    BY <1>5 DEF Confirmed, SendTypeOK
  <2> QED
    BY <1>1, <2>1, <2>2, <2>3 DEF Confirmed
<1>10. Counted'
  <2>1. /\ UNCHANGED <<Creates, ContinuationsFit>> /\ UNCHANGED <<chunks, request, phase>>
        /\ \A k : UNCHANGED <<From(k), To(k)>>
    BY <1>1, PlanKept DEF plan_vars
  <2>2. ContinuationsFit
    BY <1>1 DEF Counted
  <2>3. done = To(next - 1) - From(next - 1)
    BY <1>1 DEF Counted
  <2>5. next' <= Len(chunks) + 1
    BY <1>1, <1>5
  <2>6. acknowledged' = IF ~Creates /\ request.length = 0 THEN 0 ELSE next' - 1
    BY <1>1, <1>3, <1>5
  <2>7. done' = To(next' - 1) - From(next' - 1)
    BY <1>1, <1>2, <1>5, <2>3
  <2>8. outcome'.kind # "success"
    BY <1>5 DEF Undecided
  <2> QED
    BY <1>1, <1>6, <2>1, <2>2, <2>5, <2>6, <2>7, <2>8 DEF Counted
<1> QED
  BY <1>7, <1>8, <1>9, <1>10

\* The second try begins where the first one did, on a node that has confirmed nothing.
LEMMA LoopRepeats ==
    ASSUME LoopInv, NEW replicated \in BOOLEAN, Fallback(replicated)
    PROVE  (SendTypeOK /\ Anchored /\ Untouched /\ Counted /\ Confirmed)'
<1> USE DEF LoopInv
<1> DEFINE held == IF replicated THEN store[node] ELSE store[node + 1]
<1>1. /\ node = 1 /\ node' = 2 /\ Nodes = {1, 2} /\ outcome.kind = "unavailable"
      /\ next' = 1 /\ acknowledged' = 0 /\ done' = 0 /\ total' = 0 /\ missing' = 0
      /\ wire' = "idle" /\ outcome' = Undecided
      /\ store' = [store EXCEPT ![2] = held] /\ before' = held
      /\ UNCHANGED <<request, confirmed>>
  <2>1. node \in 1..Endpoints /\ node < Endpoints /\ Endpoints \in {1, 2}
    BY EndpointAssumption DEF Fallback, SendTypeOK, Nodes
  <2>2. node = 1 /\ Endpoints = 2 /\ node + 1 = 2
    BY <2>1
  <2>3. Nodes = {1, 2}
    BY <2>2 DEF Nodes
  <2> QED
    BY <2>2, <2>3 DEF Fallback, Repeatable
<1>2. store[1] \in Seq(Nat) /\ store[2] \in Seq(Nat) /\ store \in [{1, 2} -> Seq(Nat)]
  BY <1>1 DEF SendTypeOK
<1>3. held \in Seq(Nat)
  BY <1>1, <1>2
<1>4. SendTypeOK'
  <2>1. confirmed' \in [Nodes -> Nat]
    BY <1>1 DEF SendTypeOK
  <2>2. store' \in [Nodes -> Seq(Nat)]
    BY <1>1, <1>2, <1>3
  <2> QED
    BY <1>1, <1>3, <2>1, <2>2 DEF SendTypeOK, Undecided, Kinds
<1>5. Anchored'
  <2>1. ASSUME request.op \in {"before", "after"}
        PROVE  KeepsValue(held) /\ \A n \in Nodes : KeepsValue(store[n])
    BY <1>1, <2>1 DEF Anchored
  <2>2. ASSUME request.op \in {"before", "after"}
        PROVE  KeepsValue(held) /\ \A n \in Nodes : KeepsValue(store'[n])
    BY <1>1, <1>2, <2>1, <2>2
  <2> QED
    BY <1>1, <2>2 DEF Anchored, KeepsValue
<1>6. Untouched' /\ Counted'
  BY <1>1, <1>2 DEF Untouched, Counted, Undecided
<1>7. Confirmed'
  <2>1. acknowledged = 0 /\ confirmed[1] = acknowledged /\ confirmed[2] = 0
    BY <1>1 DEF Confirmed
  <2> QED
    BY <1>1, <2>1 DEF Confirmed, Undecided
<1> QED
  BY <1>4, <1>5, <1>6, <1>7

LEMMA LoopStep == LoopInv /\ [Next]_vars => LoopInv'
<1> SUFFICES ASSUME LoopInv, [Next]_vars PROVE LoopInv'
  OBVIOUS
<1>1. PlanInv' /\ Placed'
  BY PlanInvAlways DEF LoopInv
<1>2. (SendTypeOK /\ Anchored /\ Untouched /\ Counted /\ Confirmed)'
  BY LoopBegins, LoopSends, LoopReplies, LoopRepeats DEF Next
<1> QED
  BY <1>1, <1>2 DEF LoopInv

THEOREM LoopInvariant == Spec => []LoopInv
<1>1. Init => LoopInv
  BY LoopInit
<1>2. LoopInv /\ [Next]_vars => LoopInv'
  BY LoopStep
<1> QED
  BY <1>1, <1>2, PTL DEF Spec

\* "NeverTooLarge": the preflight is enough, because a chunk of an addition is planned with
\* the size it is sent with, and the continuations of a creation are all checked at Start.
THEOREM PreflightIsEnough == Spec => []NeverTooLarge
<1>1. LoopInv => NeverTooLarge
  <2> SUFFICES ASSUME LoopInv, wire # "idle", NEW i \in next..Len(chunks)
               PROVE  SentBytes(i) <= MaxRpcSize
    BY DEF NeverTooLarge
  <2>1. phase = "planned" /\ ContinuationsFit /\ i \in 1..Len(chunks) /\ i \in Nat
    BY SendOrder DEF LoopInv, Counted, SendTypeOK
  <2>2. CASE Creates /\ i > 1
    <3>1. i \in 2..Len(chunks)
      BY <2>1, <2>2
    <3> QED
      BY <2>1, <2>2, <3>1 DEF ContinuationsFit, SentBytes
  <2>3. CASE ~(Creates /\ i > 1)
    <3>1. Reserved(chunks[i][1], chunks[i][2]) <= MaxRpcSize
      BY <2>1, PlanConsequences DEF LoopInv, ChunksFit, Fits
    <3>2. /\ chunks[i][1] \in 0..request.length /\ chunks[i][2] \in 0..request.length
      BY <2>1 DEF LoopInv, PlanInv, PlanTypeOK
    <3>3. Reserved(chunks[i][1], chunks[i][2]) \in Int
      BY <3>2, RequestIs, Sizes DEF LoopInv
    <3>4. request.reserve \in Nat
      BY RequestIs DEF LoopInv, RequestType
    <3> QED
      BY <2>3, <3>1, <3>3, <3>4, SizeAssumption DEF SentBytes, Bytes
  <2> QED
    BY <2>2, <2>3
<1> QED
  BY <1>1, LoopInvariant, PTL

-----------------------------------------------------------------------------
(* What the node holds, and what the caller is told. *)

LEMMA NothingSent ==
    ASSUME PlanInv, phase = "planned"
    PROVE  /\ Sent(0) = <<>> /\ From(0) = To(0)
           /\ \A s, pos : Applied(s, <<>>, pos) = s
<1>1. 0 \in 0..Len(chunks)
  BY SendOrder
<1>2. From(0) = To(0) /\ From(0) \in Nat
  BY <1>1, SentSoFar
<1>3. Sent(0) = <<>>
  BY <1>2, SliceIs DEF Sent
<1> QED
  BY <1>2, <1>3 DEF Applied

\* The container has grown by the items it holds.
LEMMA HoldsGrown ==
    ASSUME LoopInv, phase = "planned", NEW k \in 0..Len(chunks), Holds(k)
    PROVE  Grown = To(k) - From(k)
<1>1. /\ From(k) \in Nat /\ To(k) \in Nat /\ From(k) <= To(k)
      /\ before \in Seq(Nat) /\ OperationType(request) /\ request.pos \in Int \cup {NoPos}
  BY SentSoFar, RequestIs DEF LoopInv, SendTypeOK
<1>2. Sent(k) \in Seq(Nat \ {0}) /\ Len(Sent(k)) = To(k) - From(k)
  BY <1>1, SliceIs DEF Sent
<1>3. Len(store[node]) = Len(before) + Len(Sent(k))
  <2>1. CASE Sent(k) = <<>>
    <3>1. store[node] = before
      BY <2>1 DEF Holds, Unchunked, Applied
    <3> QED
      BY <1>1, <2>1, <3>1
  <2>2. CASE Reach(before, request.pos)
    BY <1>1, <1>2, <2>2, AppliedGrows DEF Holds, Unchunked
  <2> QED
    BY <2>1, <2>2 DEF Holds
<1>4. Len(before) \in Nat /\ Len(Sent(k)) \in Nat
  BY <1>1, <1>2
<1> QED
  BY <1>1, <1>2, <1>3, <1>4 DEF Grown

\* One chunk more.
LEMMA ChunkStored ==
    ASSUME LoopInv, ServerStores
    PROVE  /\ Grown' = Grown + Count(next)
           /\ Holds(next - 1) => Holds(next)'
<1> DEFINE chunk == Slice(chunks[next][1], chunks[next][2])
           q == PositionOf(chunks[next][1])
           p == request.pos
           A == Sent(next - 1)
<1>1. /\ next \in 1..Len(chunks) /\ chunk \in Seq(Nat \ {0}) /\ q \in Int \cup {NoPos}
      /\ Reach(store[node], q) /\ store[node] \in Seq(Nat) /\ node \in Nodes
  BY ChunkReaches
<1>2. PlanInv /\ Placed /\ phase = "planned" /\ before \in Seq(Nat) /\ store \in [Nodes -> Seq(Nat)]
  BY DEF LoopInv, Counted, SendTypeOK, ServerStores
<1>3. /\ RequestType(request) /\ OperationType(request) /\ p \in Int \cup {NoPos}
      /\ request.length \in Nat
  BY <1>2, RequestIs
<1>4. /\ UNCHANGED plan_vars /\ UNCHANGED <<node, before>>
      /\ store'[node] = Applied(store[node], chunk, q)
  BY <1>1, <1>2 DEF ServerStores
<1>5. /\ chunks[next][1] \in Nat /\ chunks[next][2] \in Nat
      /\ chunks[next][1] <= chunks[next][2] /\ chunks[next][2] <= request.length
      /\ next - 1 \in 0..Len(chunks)
      /\ ~request.after => To(next - 1) = chunks[next][1]
      /\ Count(next) = chunks[next][2] - chunks[next][1] /\ Count(next) \in Nat
  BY <1>1, <1>2, NextChunk DEF Count
<1>6. Len(chunk) = Count(next)
  BY <1>5, SliceIs
<1>7. /\ From(next - 1) \in Nat /\ To(next - 1) \in Nat /\ From(next - 1) <= To(next - 1)
      /\ ~request.after => From(next - 1) = 0
  BY <1>2, <1>5, SentSoFar DEF From
<1>8. A \in Seq(Nat \ {0}) /\ Len(A) = To(next - 1) - From(next - 1)
  BY <1>7, SliceIs DEF Sent
<1>9. Sent(next) = IF request.after THEN chunk \o A ELSE A \o chunk
  BY <1>1, <1>2, SentNext
<1> HIDE DEF chunk, A
<1>10. Grown' = Grown + Count(next)
  <2>1. Len(store'[node]) = Len(store[node]) + Len(chunk)
    BY <1>1, <1>3, <1>4, AppliedGrows, ZenonT(60) DEF q
  <2>2. Count(next) \in Nat
    BY <1>5
  <2>3. Len(store[node]) \in Nat
    BY <1>1
  <2>4. Len(before) \in Nat
    BY <1>2
  <2>5. Grown' = Len(store'[node]) - Len(before)
    BY <1>4 DEF Grown
  <2> QED
    BY <1>6, <2>1, <2>2, <2>3, <2>4, <2>5 DEF Grown
<1>11. ASSUME request.op = "position"
       PROVE  IF p = MaxPos THEN q = MaxPos
              ELSE q = p + Len(A) /\ q # MaxPos /\ p \in Int
  <2>1. p # NoPos /\ ~request.after
    BY <1>3, <1>11 DEF OperationType
  <2>2. Len(A) = chunks[next][1]
    BY <1>5, <1>7, <1>8, <2>1
  <2>3. CASE p = MaxPos
    BY <2>3 DEF PositionOf, Positioned
  <2>4. CASE p # MaxPos
    <3>1. Positioned /\ p \in 0..MaxPos /\ MaxPos \in Nat
      BY <1>3, <2>1, <2>4, SizeAssumption DEF Positioned, RequestType
    <3>2. p + request.length <= MaxPos
      BY <1>1, <1>2, <3>1, SendOrder DEF Placed
    <3> DEFINE a == chunks[next][1]
               b == chunks[next][2]
    <3>3. a \in Nat /\ (a < request.length \/ a = 0)
      <4>1. /\ a \in Nat /\ b \in Nat /\ b <= request.length /\ request.length \in Nat
            /\ IF request.length = 0 THEN a = 0 /\ b = 0 ELSE a < b
        BY <1>1, <1>2, SendOrder
      <4> HIDE DEF a, b
      <4> QED
        BY <4>1
    <3>4. q = p + a
      BY <3>1 DEF PositionOf
    <3> HIDE DEF a, b, p
    <3>5. p + a # MaxPos
      BY <1>3, <2>4, <3>1, <3>2, <3>3
    <3> QED
      BY <2>2, <2>4, <3>1, <3>4, <3>5 DEF a, p
  <2> QED
    BY <2>3, <2>4
<1>12. ASSUME Holds(next - 1) PROVE Holds(next)'
  <2>1. store[node] = Applied(before, A, p) /\ (A = <<>> \/ Reach(before, p))
    BY <1>12 DEF Holds, Unchunked, A
  <2> HIDE DEF p, q
  <2>2. Applied(store[node], chunk, q) = Applied(before, Sent(next), p)
    BY <1>1, <1>2, <1>3, <1>8, <1>9, <1>11, <2>1, AppliedAgain DEF p
  <2>3. Reach(before, p)
    <3>1. CASE A = <<>>
      <4>1. store[node] = before
        BY <2>1, <3>1 DEF Applied
      <4>2. request.op = "position" => q = p
        BY <1>3, <1>11, <3>1
      <4> QED
        BY <1>1, <4>1, <4>2 DEF Reach
    <3> QED
      BY <2>1, <3>1
  <2>4. Reach(before, p)' /\ Unchunked(Sent(next))' = Applied(before, Sent(next), p)
        /\ Sent(next)' = Sent(next)
    BY <1>4, <2>3, PlanKept DEF Unchunked, p, plan_vars, ServerStores
  <2> QED
    BY <1>4, <2>2, <2>4 DEF Holds, p, ServerStores
<1> QED
  BY <1>10, <1>12

LEMMA HoldsKept ==
    ASSUME UNCHANGED plan_vars, node' = node, before' = before, store'[node] = store[node]
    PROVE  /\ \A k : Holds(k)' <=> Holds(k)
           /\ Grown' = Grown
<1>1. \A k : Sent(k)' = Sent(k)
  BY PlanKept
<1>2. \A A : Unchunked(A)' = Unchunked(A)
  BY PlanKept DEF Unchunked, plan_vars
<1>3. Reach(before, request.pos)' <=> Reach(before, request.pos)
  BY PlanKept DEF plan_vars
<1> QED
  BY <1>1, <1>2, <1>3 DEF Holds, Grown

\* Nothing is wrong before the loop.
LEMMA NothingYet ==
    ASSUME LoopInv, wire = "idle"
    PROVE  Grows /\ Contents /\ Told
  BY DEF LoopInv, Untouched, SendTypeOK, Grows, Contents, Told

\* Nor when the loop begins.
LEMMA NothingAtStart ==
    ASSUME LoopInv, wire = "ready", next = 1, outcome = Undecided, store[node] = before
    PROVE  Grows /\ Contents /\ Told
<1>1. /\ PlanInv /\ phase = "planned" /\ done = To(0) - From(0)
      /\ missing \in Nat /\ missing <= done
  BY DEF LoopInv, Counted, SendTypeOK
<1>2. Sent(0) = <<>> /\ From(0) = To(0) /\ From(0) \in Nat /\ (\A s, pos : Applied(s, <<>>, pos) = s)
  <2>1. 0 \in 0..Len(chunks)
    BY <1>1, SendOrder
  <2> QED
    BY <1>1, <2>1, NothingSent, SentSoFar
<1>3. missing = 0 /\ done = 0
  BY <1>1, <1>2
<1>4. Holds(0)
  BY <1>2 DEF Holds, Unchunked
<1>5. Grown = 0
  <2>1. Len(before) \in Nat
    BY DEF LoopInv, SendTypeOK
  <2> QED
    BY <2>1 DEF Grown
<1>6. acknowledged = 0
  BY DEF LoopInv, Counted
<1> QED
  BY <1>3, <1>4, <1>5, <1>6 DEF Grows, Contents, Told, Undecided, Size

\* The steps that move neither the items nor the loop.
LEMMA SendKept ==
    ASSUME SendInv, wire # "idle", wire' # "idle", UNCHANGED plan_vars,
           UNCHANGED <<node, next, acknowledged, done, store, before, missing>>,
           outcome'.kind \in {"none", "success"} =>
               outcome.kind = "none" /\ (wire' = "stored" <=> wire = "stored"),
           outcome'.kind = "success" => wire = "ready",
           wire' = "refused" => ~(Creates /\ next = 1),
           outcome'.kind # "false",
           acknowledged > 0 =>
               outcome'.kind \in {"none", "success", "partial", "stub_error", "cancelled"},
           outcome'.kind = "partial" =>
               /\ wire' = "ready" /\ outcome'.chunks >= 1
               /\ outcome'.chunks = next - 1 /\ outcome'.items = done
    PROVE  (Grows /\ Contents /\ Told)'
<1>1. /\ \A k : Holds(k)' <=> Holds(k)
      /\ Grown' = Grown
      /\ \A k : UNCHANGED <<From(k), To(k), Count(k)>>
      /\ UNCHANGED <<Creates, Strict>> /\ UNCHANGED chunks
  BY HoldsKept, PlanKept DEF plan_vars
<1>2. Grows'
  BY <1>1 DEF SendInv, Grows, Size
<1>3. Contents'
  BY <1>1 DEF SendInv, Contents
<1>4. Told'
  BY <1>1 DEF Told
<1> QED
  BY <1>2, <1>3, <1>4

\* Any error says what has been acknowledged.
LEMMA FailureTells ==
    ASSUME LoopInv, wire # "idle", NEW kind \in {"unavailable", "error", "too_large"}
    PROVE  /\ Failure(kind).kind \notin {"none", "success", "false"}
           /\ acknowledged > 0 => Failure(kind).kind = "partial"
           /\ Failure(kind).kind = "partial" =>
                 /\ Failure(kind).chunks >= 1
                 /\ Failure(kind).chunks = next - 1 /\ Failure(kind).items = done
<1>1. acknowledged \in Nat /\ (acknowledged > 0 => acknowledged = next - 1)
  BY DEF LoopInv, Counted, SendTypeOK
<1> QED
  BY <1>1 DEF Failure, PartialOperationError, Result

LEMMA SendSends ==
    ASSUME SendInv,
           \/ Send \/ Succeed \/ ServerRefuses \/ Cancelled \/ StubLost
           \/ \E kind \in {"error", "too_large"} : NotSent(kind)
           \/ \E kind \in {"unavailable", "error"} : RpcFails(kind)
    PROVE  (Grows /\ Contents /\ Told)'
<1> USE DEF SendInv
<1>1. CASE Send
  BY <1>1, SendKept DEF Send, Ready, Undecided
<1>2. CASE Succeed
  BY <1>2, SendKept DEF Succeed, Ready, Undecided, Result
<1>3. CASE ServerRefuses
  <2>1. outcome = Undecided
    BY <1>3 DEF ServerRefuses, LoopInv, Counted
  <2> QED
    BY <1>3, <2>1, SendKept DEF ServerRefuses, Undecided
<1>4. ASSUME NEW kind \in {"error", "too_large"}, NotSent(kind)
      PROVE  (Grows /\ Contents /\ Told)'
  <2>1. wire = "ready" /\ wire' = "ready" /\ outcome' = Failure(kind)
    BY <1>4 DEF NotSent, Ready
  <2>2. /\ outcome'.kind \notin {"none", "success", "false"}
        /\ acknowledged > 0 => outcome'.kind = "partial"
        /\ outcome'.kind = "partial" =>
              outcome'.chunks >= 1 /\ outcome'.chunks = next - 1 /\ outcome'.items = done
    BY <2>1, FailureTells
  <2> QED
    BY <1>4, <2>1, <2>2, SendKept DEF NotSent
<1>5. ASSUME NEW kind \in {"unavailable", "error"}, RpcFails(kind)
      PROVE  (Grows /\ Contents /\ Told)'
  <2>1. wire # "idle" /\ wire' = "ready" /\ outcome' = Failure(kind)
    BY <1>5 DEF RpcFails
  <2>2. /\ outcome'.kind \notin {"none", "success", "false"}
        /\ acknowledged > 0 => outcome'.kind = "partial"
        /\ outcome'.kind = "partial" =>
              outcome'.chunks >= 1 /\ outcome'.chunks = next - 1 /\ outcome'.items = done
    BY <2>1, FailureTells
  <2> QED
    BY <1>5, <2>1, <2>2, SendKept DEF RpcFails
<1>6. CASE Cancelled \/ StubLost
  <2>1. /\ UNCHANGED plan_vars /\ wire # "idle" /\ wire' = "ready"
        /\ UNCHANGED <<node, next, acknowledged, done, store, before, missing>>
        /\ outcome'.kind \in {"cancelled", "stub_error"}
    BY <1>6 DEF Cancelled, StubLost, Ready, Result
  <2> QED
    BY <2>1, SendKept
<1> QED
  BY <1>1, <1>2, <1>3, <1>4, <1>5, <1>6

LEMMA SendStores ==
    ASSUME SendInv, ServerStores
    PROVE  (Grows /\ Contents /\ Told)'
<1>1. /\ wire = "flight" /\ wire' = "stored" /\ UNCHANGED plan_vars /\ UNCHANGED chunks
      /\ UNCHANGED <<node, next, acknowledged, done, outcome, before, missing>>
      /\ outcome = Undecided /\ next <= Len(chunks)
  BY DEF ServerStores, SendInv, LoopInv, Counted, plan_vars
<1>2. Grown' = Grown + Count(next) /\ (Holds(next - 1) => Holds(next)')
  BY ChunkStored DEF SendInv
<1>3. UNCHANGED <<Creates, Strict, Count(next), Count(1)>>
  BY <1>1, PlanKept
<1>4. Grows'
  <2>1. Grown = (done - missing) + 0 /\ done - missing \in Int
    BY <1>1 DEF SendInv, Grows, Undecided, LoopInv, SendTypeOK, Size
  <2> QED
    BY <1>1, <1>2, <1>3, <2>1 DEF Grows, Size
<1>5. Contents'
  <2>1. missing = 0 => Holds(next - 1)
    BY <1>1 DEF SendInv, Contents, Undecided
  <2>2. missing' = 0 => Holds(next)'
    BY <1>1, <1>2, <2>1
  <2>3. (Strict => missing = 0) /\ (Creates /\ next > 1 => missing + Count(1) <= done)
    BY <1>1 DEF SendInv, Contents
  <2> QED
    BY <1>1, <1>3, <2>2, <2>3 DEF Contents, Undecided
<1>6. Told'
  BY <1>1 DEF Told, Undecided
<1> QED
  BY <1>4, <1>5, <1>6

\* The facts a reply is judged by.
LEMMA ReplyFacts ==
    ASSUME SendInv, AddReply \/ CreateReply \/ Skip
    PROVE  /\ UNCHANGED plan_vars /\ UNCHANGED <<node, store, before>>
           /\ PlanInv /\ phase = "planned" /\ next \in 1..Len(chunks) /\ next \in Nat
           /\ outcome = Undecided /\ wire # "idle" /\ wire' = "ready"
           /\ Count(next) \in Nat /\ (Count(next) = 0 <=> request.length = 0)
           /\ To(next) - From(next) = done + Count(next)
           /\ Size \in Nat /\ Size = IF wire = "refused" THEN 0 ELSE Count(next)
           /\ total \in Nat /\ done \in Nat /\ total <= MaxCount
           /\ missing \in Nat /\ missing <= done
           /\ Grown = (done - missing) + Size
           /\ ~Skips(next) => acknowledged = next - 1
           /\ Strict => missing = 0
           /\ missing = 0 => Holds(IF wire = "stored" THEN next ELSE next - 1)
<1>1. /\ UNCHANGED plan_vars /\ UNCHANGED <<node, store, before>>
      /\ wire # "idle" /\ wire' = "ready" /\ outcome = Undecided
      /\ wire = "ready" => Skip
  BY DEF SendInv, LoopInv, AddReply, CreateReply, Skip, Ready, Counted, Stop, Advance
<1>2. /\ PlanInv /\ phase = "planned" /\ next \in 1..Len(chunks) /\ next \in Nat
      /\ total \in Nat /\ done \in Nat /\ total <= MaxCount
      /\ missing \in Nat /\ missing <= done
      /\ done = To(next - 1) - From(next - 1)
      /\ acknowledged = IF ~Creates /\ request.length = 0 THEN 0 ELSE next - 1
  BY <1>1, SendOrder
     DEF SendInv, LoopInv, AddReply, CreateReply, Skip, Ready, Counted, SendTypeOK
<1>3. /\ Count(next) \in Nat /\ (Count(next) = 0 <=> request.length = 0)
      /\ To(next) - From(next) = done + Count(next)
  BY <1>2, NextChunk
<1>4. ~Skips(next) => acknowledged = next - 1
  BY <1>2, <1>3 DEF Skips
<1>5. Size \in Nat /\ Size = IF wire = "refused" THEN 0 ELSE Count(next)
  <2>1. wire \in {"ready", "stored", "refused"} /\ (wire = "ready" => Count(next) = 0)
    BY <1>1 DEF AddReply, CreateReply, Skip, Ready, Skips
  <2> QED
    BY <1>3, <2>1 DEF Size
<1>6. Grown = (done - missing) + Size
  BY <1>1 DEF SendInv, Grows, Undecided
<1>7. /\ Strict => missing = 0
      /\ missing = 0 => Holds(IF wire = "stored" THEN next ELSE next - 1)
  BY <1>1 DEF SendInv, Contents, Undecided
<1> QED
  BY <1>1, <1>2, <1>3, <1>4, <1>5, <1>6, <1>7

\* The loop goes on with the next chunk.
LEMMA ReplyAdvances ==
    ASSUME SendInv, AddReply \/ CreateReply \/ Skip,
           next' = next + 1, outcome' = Undecided,
           done' = done + Count(next), missing' = missing + (Count(next) - Size),
           missing' = 0 => Holds(next),
           Strict => wire # "refused"
    PROVE  (Grows /\ Contents /\ Told)'
<1> USE ReplyFacts
<1>1. /\ \A k : Holds(k)' <=> Holds(k)
      /\ Grown' = Grown
      /\ UNCHANGED <<Creates, Strict, Count(1)>>
  BY HoldsKept, PlanKept
<1>2. next' - 1 = next
  OBVIOUS
<1>3. Grows'
  <2>1. Grown = done' - missing'
    OBVIOUS
  <2>2. done' - missing' \in Int
    OBVIOUS
  <2> QED
    BY <1>1, <2>1, <2>2 DEF Grows, Size
<1>4. missing' = 0 => Holds(next - 1)'
  BY <1>1, <1>2
<1>5. Strict' => missing' = 0
  BY <1>1
<1>6. ASSUME Creates PROVE missing' + Count(1) <= done'
  <2>1. Size <= Count(next)
    OBVIOUS
  <2>2. CASE next = 1
    <3>1. wire # "refused"
      BY <1>6, <2>2 DEF SendInv, Contents
    <3>2. missing = 0
      <4>1. done = To(0) - From(0) /\ From(0) = To(0) /\ From(0) \in Nat
        <5>1. 0 \in 0..Len(chunks)
          OBVIOUS
        <5> QED
          BY <2>2, <5>1, SentSoFar, NothingSent DEF SendInv, LoopInv, Counted
      <4> QED
        BY <4>1
    <3> QED
      BY <2>2, <3>1, <3>2
  <2>3. CASE next # 1
    <3>1. missing + Count(1) <= done
      BY <1>6, <2>3 DEF SendInv, Contents
    <3>2. Count(1) \in Nat
      <4>1. 1 \in 1..Len(chunks)
        BY SendOrder
      <4> QED
        BY <4>1, NextChunk
    <3> QED
      BY <2>1, <3>1, <3>2
  <2> QED
    BY <2>2, <2>3
<1>7. Contents'
  BY <1>1, <1>2, <1>4, <1>5, <1>6 DEF Contents, Undecided
<1>8. Told'
  BY DEF Told, Undecided
<1> QED
  BY <1>3, <1>7, <1>8

\* The call ends.
LEMMA ReplyStops ==
    ASSUME SendInv, wire # "idle", UNCHANGED plan_vars,
           UNCHANGED <<node, next, acknowledged, done, store, before, missing>>,
           wire' = "ready", outcome'.kind \in {"false", "partial"},
           outcome'.kind = "false" => store[node] = before /\ acknowledged = 0,
           outcome'.kind = "partial" =>
              /\ outcome'.chunks >= 1
              /\ \/ outcome'.chunks = next - 1 /\ outcome'.items = done
                 \/ /\ outcome'.chunks = next /\ next <= Len(chunks)
                    /\ outcome'.items = done + Count(next)
                    /\ Grown = outcome'.items - missing
    PROVE  (Grows /\ Contents /\ Told)'
<1>1. /\ \A k : Holds(k)' <=> Holds(k)
      /\ \A k : UNCHANGED <<From(k), To(k), Count(k)>>
      /\ Grown' = Grown
      /\ UNCHANGED <<Creates, Strict>> /\ UNCHANGED chunks
  BY HoldsKept, PlanKept DEF plan_vars
<1>2. Grows'
  BY <1>1 DEF SendInv, Grows
<1>3. Contents'
  BY <1>1 DEF SendInv, Contents
<1>4. Told'
  BY <1>1 DEF Told
<1> QED
  BY <1>2, <1>3, <1>4

\* A chunk that is skipped holds no items.
LEMMA SendSkips ==
    ASSUME SendInv, Skip
    PROVE  (Grows /\ Contents /\ Told)'
<1> USE ReplyFacts
<1>1. /\ wire = "ready" /\ Count(next) = 0 /\ next' = next + 1 /\ outcome' = Undecided
      /\ done' = done /\ missing' = missing
  BY DEF Skip, Ready, Skips
<1>2. /\ done' = done + Count(next) /\ missing' = missing + (Count(next) - Size)
  BY <1>1
<1>3. Sent(next) = Sent(next - 1)
  <2> DEFINE a == chunks[next][1]
             b == chunks[next][2]
  <2>0. /\ a \in Nat /\ b \in Nat /\ b - a = 0
        /\ IF request.after
             THEN From(next) = a /\ From(next - 1) = b /\ To(next) = To(next - 1)
             ELSE To(next) = b /\ To(next - 1) = a /\ From(next) = From(next - 1)
    BY <1>1, NextChunk DEF Count
  <2> HIDE DEF a, b
  <2>1. From(next) = From(next - 1) /\ To(next) = To(next - 1)
    BY <2>0
  <2> QED
    BY <2>1 DEF Sent
<1>4. missing' = 0 => Holds(next)
  BY <1>1, <1>3 DEF Holds
<1> QED
  BY <1>1, <1>2, <1>4, ReplyAdvances

LEMMA SendAnswered ==
    ASSUME SendInv, AddReply
    PROVE  (Grows /\ Contents /\ Told)'
<1> USE ReplyFacts
<1>1. /\ wire \in {"stored", "refused"} /\ ~Creates /\ ~Skips(next) /\ Count(next) # 0
      /\ next <= Len(chunks)
  BY DEF AddReply, SendInv, LoopInv, Counted, Skips
<1>2. Size = 0 <=> wire = "refused"
  BY <1>1
<1>3. CASE CountOverflows
  <2>1. outcome' = Overflowed /\ UNCHANGED <<next, acknowledged, done, missing>>
    BY <1>3 DEF AddReply, Stop
  <2>2. wire = "stored"
    BY <1>1, <1>2, <1>3, EndpointAssumption DEF CountOverflows
  <2>3. /\ outcome'.kind = "partial" /\ outcome'.chunks = next
        /\ outcome'.items = done + Count(next)
    BY <1>1, <2>1 DEF Overflowed, PartialOperationError
  <2>4. Grown = outcome'.items - missing
    BY <2>2, <2>3
  <2> QED
    BY <1>1, <2>1, <2>3, <2>4, ReplyStops
<1>4. CASE ~CountOverflows /\ Refused
  <2>1. outcome' = Refusal /\ UNCHANGED <<next, acknowledged, done, missing>>
    BY <1>4 DEF AddReply, Stop
  <2>2. Strict /\ wire = "refused"
    BY <1>1, <1>2, <1>4 DEF Refused, Strict
  <2>3. CASE acknowledged > 0
    <3>1. /\ outcome'.kind = "partial" /\ outcome'.chunks = next - 1 /\ outcome'.items = done
          /\ outcome'.chunks >= 1
      BY <1>1, <2>1, <2>3 DEF Refusal, PartialOperationError
    <3> QED
      BY <2>1, <3>1, ReplyStops
  <2>4. CASE ~(acknowledged > 0)
    <3>1. outcome'.kind = "false" /\ next - 1 = 0 /\ acknowledged = 0
      BY <1>1, <2>1, <2>4 DEF Refusal, Result
    <3>2. store[node] = before
      BY <2>2, <3>1, NothingSent DEF Holds, Unchunked
    <3> QED
      BY <2>1, <3>1, <3>2, ReplyStops
  <2> QED
    BY <2>3, <2>4
<1>5. CASE ~CountOverflows /\ ~Refused
  <2>1. /\ outcome' = Undecided /\ next' = next + 1
        /\ done' = done + Count(next) /\ missing' = missing + (Count(next) - Size)
    BY <1>5 DEF AddReply, Advance
  <2>2. missing' = 0 => Holds(next)
    <3>1. missing' = 0 => missing = 0 /\ wire = "stored"
      BY <1>1, <2>1
    <3> QED
      BY <3>1
  <2>3. Strict => wire # "refused"
    BY <1>1, <1>2, <1>5 DEF Refused, Strict, Creates
  <2> QED
    BY <2>1, <2>2, <2>3, ReplyAdvances
<1> QED
  BY <1>3, <1>4, <1>5

LEMMA SendCreated ==
    ASSUME SendInv, CreateReply
    PROVE  (Grows /\ Contents /\ Told)'
<1> USE ReplyFacts
<1>1. /\ wire \in {"stored", "refused"} /\ Creates /\ ~Skips(next)
      /\ wire = "refused" => next # 1
  BY DEF CreateReply, SendInv, Contents, Skips
<1>2. CASE Refused
  <2>1. /\ outcome' = PartialOperationError(acknowledged, done) /\ next > 1
        /\ UNCHANGED <<next, acknowledged, done, missing>>
    BY <1>1, <1>2 DEF CreateReply, Stop, Refused
  <2>2. /\ outcome'.kind = "partial" /\ outcome'.chunks = next - 1 /\ outcome'.items = done
        /\ outcome'.chunks >= 1
    BY <1>1, <2>1 DEF PartialOperationError
  <2> QED
    BY <2>1, <2>2, ReplyStops
<1>3. CASE ~Refused
  <2>1. /\ outcome' = Undecided /\ next' = next + 1
        /\ done' = done + Count(next) /\ missing' = missing + (Count(next) - Size)
    BY <1>3 DEF CreateReply, Advance
  <2>2. missing' = 0 => Holds(next)
    <3>1. CASE wire = "stored"
      BY <2>1, <3>1
    <3>2. CASE wire = "refused"
      <4>1. missing' = 0 => missing = 0 /\ Count(next) = 0
        BY <2>1, <3>2
      <4>2. request.length = 0 => Len(chunks) = 1
        BY SendOrder
      <4>3. Count(next) # 0
        <5>1. next # 1 /\ next \in 1..Len(chunks) /\ (Count(next) = 0 => request.length = 0)
          BY <1>1, <3>2
        <5>2. Count(next) = 0 => next \in 1..1
          BY <4>2, <5>1, Zenon
        <5>3. next \in 1..1 => next = 1
          OBVIOUS
        <5> QED
          BY <5>1, <5>2, <5>3, Zenon
      <4> QED
        BY <4>1, <4>3
    <3> QED
      BY <1>1, <3>1, <3>2
  <2>3. Strict => wire # "refused"
    BY <1>1, <1>3 DEF Refused, Strict, Creates
  <2> QED
    BY <2>1, <2>2, <2>3, ReplyAdvances
<1> QED
  BY <1>2, <1>3

LEMMA SendInit == Init => SendInv
<1> SUFFICES ASSUME Init PROVE SendInv
  OBVIOUS
<1>1. LoopInv /\ wire = "idle"
  BY LoopInit DEF Init
<1> QED
  BY <1>1, NothingYet DEF SendInv

LEMMA SendStep == SendInv /\ [Next]_vars => SendInv'
<1> SUFFICES ASSUME SendInv, [Next]_vars PROVE SendInv'
  OBVIOUS
<1>1. LoopInv'
  BY LoopStep DEF SendInv
<1>2. CASE wire' = "idle"
  <2>1. (LoopInv /\ wire = "idle" => Grows /\ Contents /\ Told)'
    BY NothingYet, PTL
  <2> QED
    BY <1>1, <1>2, <2>1 DEF SendInv
<1>3. CASE Start /\ wire' # "idle"
  <2>1. (LoopInv /\ wire = "ready" /\ next = 1 /\ outcome = Undecided /\ store[node] = before
            => Grows /\ Contents /\ Told)'
    BY NothingAtStart, PTL
  <2>2. /\ wire' = "ready" /\ next' = 1 /\ outcome' = Undecided /\ store'[node'] = before'
    BY <1>3 DEF Start, SendInv, LoopInv, Untouched
  <2> QED
    BY <1>1, <2>1, <2>2 DEF SendInv, Undecided
<1>4. CASE AddReply \/ CreateReply \/ Skip
  BY <1>1, <1>4, SendSkips, SendAnswered, SendCreated DEF SendInv
<1>5. CASE ServerStores
  BY <1>1, <1>5, SendStores DEF SendInv
<1>6. CASE \/ Send \/ Succeed \/ ServerRefuses \/ Cancelled \/ StubLost
           \/ \E kind \in {"error", "too_large"} : NotSent(kind)
           \/ \E kind \in {"unavailable", "error"} : RpcFails(kind)
  BY <1>1, <1>6, SendSends DEF SendInv
<1>7. CASE UNCHANGED vars /\ wire' # "idle"
  <2>1. UNCHANGED plan_vars /\ UNCHANGED sendVars
    BY <1>7 DEF vars
  <2>2. /\ \A k : Holds(k)' <=> Holds(k)
        /\ Grown' = Grown
        /\ \A k : UNCHANGED <<From(k), To(k), Count(k)>>
        /\ UNCHANGED <<Creates, Strict>> /\ UNCHANGED chunks /\ UNCHANGED sendVars
    BY <2>1, HoldsKept, PlanKept DEF plan_vars, sendVars
  <2>3. Grows'
    BY <2>2 DEF SendInv, Grows, sendVars, Size
  <2>4. Contents'
    BY <2>2 DEF SendInv, Contents, sendVars
  <2>5. Told'
    BY <2>2 DEF SendInv, Told, sendVars
  <2> QED
    BY <1>1, <2>3, <2>4, <2>5 DEF SendInv
<1>8. (PlanStep /\ UNCHANGED sendVars) \/ PlanFails \/ (\E replicated \in BOOLEAN : Fallback(replicated))
         => wire' = "idle"
  <2>1. PlanStep => wire = "idle"
    BY DEF SendInv, LoopInv, Counted, SendTypeOK, PlanStep, CheckHeader, CheckItem, StartCutting,
       Cut, Probe, Emit, Planned, PlanExpires
  <2>2. PlanFails => wire = "idle"
    BY DEF SendInv, LoopInv, Counted, SendTypeOK, PlanFails
  <2> QED
    BY <2>1, <2>2 DEF PlanFails, Fallback, sendVars
<1> QED
  BY <1>2, <1>3, <1>4, <1>5, <1>6, <1>7, <1>8 DEF Next

THEOREM SendInvariant == Spec => []SendInv
<1>1. Init => SendInv
  BY SendInit
<1>2. SendInv /\ [Next]_vars => SendInv'
  BY SendStep
<1> QED
  BY <1>1, <1>2, PTL DEF Spec

\* "ChunkEquivalence": a collection that was sent in chunks, completely or up to any chunk,
\* is the one that a single request with the same items would have left.
THEOREM ChunksAreOneRequest == Spec => []ChunkEquivalence
<1>1. SendInv => ChunkEquivalence
  <2> SUFFICES ASSUME SendInv, Strict, wire # "idle"
               PROVE  \/ store[node] = Unchunked(FirstItems(next - 1))
                      \/ next <= Len(chunks) /\ store[node] = Unchunked(FirstItems(next))
    BY DEF ChunkEquivalence
  <2>1. /\ PlanInv /\ phase = "planned" /\ next \in Nat \ {0} /\ next <= Len(chunks) + 1
        /\ Len(chunks) \in Nat
    BY SendOrder DEF SendInv, LoopInv, Counted, SendTypeOK
  <2>2. next - 1 \in 0..Len(chunks) /\ (next <= Len(chunks) => next \in 0..Len(chunks))
    BY <2>1
  <2>3. /\ FirstItems(next - 1) = Sent(next - 1)
        /\ next <= Len(chunks) => FirstItems(next) = Sent(next)
    BY <2>1, <2>2, SentSoFar
  <2> QED
    BY <2>3 DEF SendInv, Contents, Holds
<1> QED
  BY <1>1, SendInvariant, PTL

\* "SuccessStoresAll": a call that returns success has stored each item once, but for the
\* chunks that a node answered with 0: none for boolean operations, lists, vectors and
\* queues; told by the count of a counting operation; and never the first of a creation.
THEOREM SuccessIsComplete == Spec => []SuccessStoresAll
<1>1. SendInv => SuccessStoresAll
  <2> SUFFICES ASSUME SendInv, outcome.kind = "success"
               PROVE  /\ Grown = request.length - missing
                      /\ missing = 0 => store[node] = Unchunked(Slice(0, request.length))
                      /\ Strict => missing = 0
                      /\ ~Creates => total = Grown /\ total <= MaxCount
                      /\ Creates => Grown >= Count(1)
    BY DEF SuccessStoresAll
  <2>1. /\ wire = "ready" /\ PlanInv /\ phase = "planned" /\ next = Len(chunks) + 1
        /\ done = To(next - 1) - From(next - 1) /\ total <= MaxCount
        /\ missing \in Nat /\ missing <= done
        /\ ~Creates => total = done - missing
    BY DEF SendInv, LoopInv, Counted, SendTypeOK, Untouched, Undecided
  <2>2. /\ From(Len(chunks)) = 0 /\ To(Len(chunks)) = request.length /\ request.length \in Nat
        /\ next - 1 = Len(chunks) /\ Len(chunks) \in Nat \ {0}
    BY <2>1, SendOrder
  <2>3. done = request.length
    BY <2>1, <2>2
  <2>4. /\ missing = 0 => Holds(next - 1)
        /\ Strict => missing = 0
        /\ Creates => missing + Count(1) <= done
    BY <2>1, <2>2 DEF SendInv, Contents
  <2>5. Sent(next - 1) = Slice(0, request.length)
    BY <2>2 DEF Sent
  <2>6. Grown = (done - missing) + 0
    BY <2>1 DEF SendInv, Grows, Size
  <2>7. Count(1) \in Nat
    BY <2>1, <2>2, NextChunk
  <2> QED
    BY <2>1, <2>2, <2>3, <2>4, <2>5, <2>6, <2>7 DEF Holds
<1> QED
  BY <1>1, SendInvariant, PTL

\* "PartialIsHonest": whatever fails, in any operation and after whichever chunk, the caller
\* is told how much was acknowledged, and the container holds that or one chunk more, less
\* what was answered with 0; only a cancellation and a stub that is gone tell nothing.
THEOREM ErrorsAreHonest == Spec => []PartialIsHonest
<1>1. ASSUME SendInv, phase = "planned", NEW k \in 0..Len(chunks)
      PROVE  Len(FirstItems(k)) = To(k) - From(k)
  <2>1. /\ FirstItems(k) = Sent(k) /\ From(k) \in Nat /\ To(k) \in Nat /\ From(k) <= To(k)
    BY <1>1, SentSoFar DEF SendInv, LoopInv
  <2> QED
    BY <2>1, SliceIs DEF Sent
<1>2. ASSUME SendInv, wire # "idle"
      PROVE  /\ phase = "planned" /\ Len(chunks) \in Nat \ {0} /\ next \in Nat \ {0}
             /\ next <= Len(chunks) + 1 /\ done = Len(FirstItems(next - 1)) /\ done \in Nat
             /\ missing \in Nat /\ acknowledged \in Nat
             /\ next <= Len(chunks) =>
                   done + Count(next) = Len(FirstItems(next)) /\ Count(next) \in Nat
  <2>1. /\ PlanInv /\ phase = "planned" /\ next \in Nat \ {0} /\ next <= Len(chunks) + 1
        /\ done = To(next - 1) - From(next - 1) /\ done \in Nat
        /\ missing \in Nat /\ acknowledged \in Nat
    BY <1>2 DEF SendInv, LoopInv, Counted, SendTypeOK
  <2>2. Len(chunks) \in Nat \ {0}
    BY <2>1, SendOrder
  <2>3. next - 1 \in 0..Len(chunks) /\ (next <= Len(chunks) => next \in 1..Len(chunks))
    BY <2>1, <2>2
  <2>4. next <= Len(chunks) => next \in 0..Len(chunks)
    BY <2>1
  <2> QED
    BY <1>1, <1>2, <2>1, <2>2, <2>3, <2>4, NextChunk
<1>3. ASSUME SendInv, outcome.kind = "partial"
      PROVE  /\ outcome.chunks \in 1..Len(chunks)
             /\ outcome.items = Len(FirstItems(outcome.chunks))
             /\ \/ Grown = outcome.items - missing
                \/ /\ outcome.chunks < Len(chunks)
                   /\ Grown = Len(FirstItems(outcome.chunks + 1)) - missing
             /\ Strict => missing = 0
             /\ ~Creates => \/ total = outcome.items - missing
                            \/ total = outcome.items - missing - Count(outcome.chunks)
  <2>1. wire = "ready" /\ outcome.chunks >= 1 /\ outcome.chunks \in Nat
    BY <1>3 DEF SendInv, Told, LoopInv, SendTypeOK
  <2>2. /\ Strict => missing = 0
        /\ ~Creates => total = done - missing
        /\ \/ Grown = done - missing
           \/ next <= Len(chunks) /\ Grown = (done - missing) + Count(next)
    BY <1>3, <2>1 DEF SendInv, LoopInv, Contents, Counted, Grows
  <2>3. CASE outcome.chunks = next - 1 /\ outcome.items = done
    <3>1. outcome.chunks \in 1..Len(chunks) /\ next = outcome.chunks + 1
      BY <1>2, <1>3, <2>1, <2>3
    <3>2. next <= Len(chunks) => outcome.chunks < Len(chunks)
      BY <1>2, <1>3, <2>1, <3>1
    <3>3. next <= Len(chunks) =>
            (done - missing) + Count(next) = Len(FirstItems(outcome.chunks + 1)) - missing
      BY <1>2, <1>3, <2>1, <3>1
    <3>4. outcome.items = Len(FirstItems(outcome.chunks))
      BY <1>2, <1>3, <2>1, <2>3
    <3> QED
      BY <2>2, <2>3, <3>1, <3>2, <3>3, <3>4
  <2>4. CASE /\ outcome.chunks = next /\ next <= Len(chunks)
             /\ outcome.items = done + Count(next) /\ Grown = outcome.items - missing
    <3>1. outcome.items = Len(FirstItems(outcome.chunks)) /\ outcome.chunks \in 1..Len(chunks)
      BY <1>2, <1>3, <2>1, <2>4
    <3>2. ~Creates => total = outcome.items - missing - Count(outcome.chunks)
      BY <1>2, <1>3, <2>1, <2>2, <2>4
    <3> QED
      BY <2>2, <2>4, <3>1, <3>2
  <2> QED
    BY <1>3, <2>3, <2>4 DEF SendInv, Told
<1>4. ASSUME SendInv, outcome.kind \in {"unavailable", "error", "too_large", "value_error"}
      PROVE  Grown = 0 \/ Grown = Len(FirstItems(1))
  <2>1. CASE wire = "idle"
    <3>1. store[node] = before /\ Len(before) \in Nat
      BY <1>4, <2>1 DEF SendInv, LoopInv, Untouched, SendTypeOK
    <3> QED
      BY <3>1 DEF Grown
  <2>2. CASE wire # "idle"
    <3>1. acknowledged = 0
      BY <1>2, <1>4, <2>2 DEF SendInv, Told
    <3>2. /\ \/ Grown = done - missing
             \/ next <= Len(chunks) /\ Grown = (done - missing) + Count(next)
          /\ missing <= done
          /\ acknowledged = IF ~Creates /\ request.length = 0 THEN 0 ELSE next - 1
          /\ PlanInv
      BY <1>4, <2>2 DEF SendInv, LoopInv, Grows, Counted
    <3>3. CASE next = 1
      <4>1. done = 0
        BY <1>1, <1>2, <1>4, <2>2, <3>2, <3>3, NothingSent DEF FirstItems
      <4> QED
        BY <1>2, <1>4, <2>2, <3>2, <3>3, <4>1
    <3>4. CASE next # 1
      <4>1. request.length = 0 /\ Len(chunks) = 1 /\ next = 2
        BY <1>2, <1>4, <2>2, <3>1, <3>2, <3>4, SendOrder
      <4>2. done = Len(FirstItems(1))
        BY <1>2, <1>4, <2>2, <4>1
      <4>3. Grown = done - missing
        BY <1>2, <1>4, <2>2, <3>2, <4>1
      <4>4. done = 0
        <5>1. 1 \in 1..Len(chunks) /\ 1 - 1 = 0
          BY <4>1
        <5>2. Count(1) = 0 /\ To(1) - From(1) = (To(0) - From(0)) + Count(1)
          BY <1>2, <1>4, <2>2, <3>2, <4>1, <5>1, NextChunk
        <5> QED
          BY <1>1, <1>2, <1>4, <2>2, <3>2, <4>1, <4>2, <5>2, NothingSent, SentSoFar
      <4> QED
        BY <1>2, <1>4, <2>2, <3>2, <4>3, <4>4
    <3> QED
      BY <3>3, <3>4
  <2> QED
    BY <2>1, <2>2
<1>5. SendInv => PartialIsHonest
  BY <1>3, <1>4 DEF PartialIsHonest, SendInv, Told
<1> QED
  BY <1>5, SendInvariant, PTL

-----------------------------------------------------------------------------
(* plan() has one answer: the second try cuts the items as the first one did. *)

\* Chunks that begin together end together.
LEMMA SameEnd ==
    ASSUME RequestType(request), NEW from \in 0..request.length,
           NEW b \in 0..request.length, NEW c \in 0..request.length,
           Fits(from, b), Fits(from, c),
           b < request.length => ~Fits(from, b + 1),
           c < request.length => ~Fits(from, c + 1)
    PROVE  b = c
<1>1. request.length \in Nat
  BY DEF RequestType
<1>2. \A to, end \in 0..request.length : to <= end /\ Fits(from, end) => Fits(from, to)
  BY Sizes
<1>3. ~(b < c)
  <2> SUFFICES ASSUME b < c PROVE FALSE
    OBVIOUS
  <2>1. b + 1 \in 0..request.length /\ b + 1 <= c /\ b < request.length
    BY <1>1
  <2> QED
    BY <1>2, <2>1
<1>4. ~(c < b)
  <2> SUFFICES ASSUME c < b PROVE FALSE
    OBVIOUS
  <2>1. c + 1 \in 0..request.length /\ c + 1 <= b /\ c < request.length
    BY <1>1
  <2> QED
    BY <1>2, <2>1
<1> QED
  BY <1>1, <1>3, <1>4

LEMMA SameChunks ==
    ASSUME RequestType(request), NEW cs, NEW ds, cs # <<>>, ds # <<>>,
           Forward(cs, request.length), Forward(ds, request.length)
    PROVE  \A j \in 1..Len(cs) : j <= Len(ds) /\ cs[j] = ds[j]
<1> DEFINE n == request.length
           m == Len(cs)
           k == Len(ds)
           T == {j \in 1..m : ~(j <= k /\ cs[j] = ds[j])}
<1>1. /\ n \in Nat /\ m \in Nat \ {0} /\ k \in Nat \ {0}
      /\ cs \in Seq((0..n) \X (0..n)) /\ ds \in Seq((0..n) \X (0..n))
  BY SMTT(60) DEF Forward, RequestType
<1>2. /\ cs[1][1] = 0 /\ cs[m][2] = n
      /\ \A i \in 1..m :
            /\ cs[i] \in (0..n) \X (0..n) /\ cs[i][1] < cs[i][2]
            /\ Fits(cs[i][1], cs[i][2])
            /\ cs[i][2] < n => ~Fits(cs[i][1], cs[i][2] + 1)
      /\ \A i \in 1..(m - 1) : cs[i][2] = cs[i + 1][1]
  BY <1>1, SMTT(60) DEF Forward
<1>3. /\ ds[1][1] = 0 /\ ds[k][2] = n
      /\ \A i \in 1..k :
            /\ ds[i] \in (0..n) \X (0..n) /\ ds[i][1] < ds[i][2]
            /\ Fits(ds[i][1], ds[i][2])
            /\ ds[i][2] < n => ~Fits(ds[i][1], ds[i][2] + 1)
      /\ \A i \in 1..(k - 1) : ds[i][2] = ds[i + 1][1]
  BY <1>1, SMTT(60) DEF Forward
<1> HIDE DEF m, k, n
<1>4. ASSUME NEW j \in 1..m, j \in 1..k, cs[j][1] = ds[j][1] PROVE cs[j] = ds[j]
  <2>1. cs[j] \in (0..n) \X (0..n) /\ ds[j] \in (0..n) \X (0..n)
    BY <1>2, <1>3, <1>4
  <2>2. cs[j][2] = ds[j][2]
    BY <1>2, <1>3, <1>4, <2>1, SameEnd DEF n
  <2> QED
    BY <1>4, <2>1, <2>2
<1>5. ASSUME T # {} PROVE FALSE
  <2>0. T \subseteq Nat
    BY <1>1
  <2>1. PICK j \in T : \A y \in T : j <= y
    <3> HIDE DEF T
    <3> QED
      BY <1>5, <2>0, LeastElement
  <2>2. j \in 1..m /\ ~(j <= k /\ cs[j] = ds[j]) /\ j \in Nat
    BY <1>1, <2>1
  <2>3. CASE j = 1
    <3>1. 1 \in 1..k /\ 1 <= k
      BY <1>1
    <3>2. cs[1][1] = ds[1][1]
      BY <1>2, <1>3
    <3> QED
      BY <1>4, <2>2, <2>3, <3>1, <3>2
  <2>4. CASE j # 1
    <3>1. j - 1 \in 1..m /\ j - 1 \in 1..(m - 1) /\ ~(j <= j - 1) /\ j - 1 + 1 = j
      BY <1>1, <2>2, <2>4
    <3>2. j - 1 <= k /\ cs[j - 1] = ds[j - 1]
      BY <2>1, <3>1
    <3>3. cs[j - 1][2] = cs[j][1] /\ cs[j] \in (0..n) \X (0..n) /\ cs[j][1] < cs[j][2]
      BY <1>2, <2>2, <3>1
    <3>4. j - 1 # k
      <4>1. cs[j - 1][2] # n
        <5> DEFINE a == cs[j][1]
                   b == cs[j][2]
        <5>1. a < b /\ a \in 0..n /\ b \in 0..n /\ cs[j - 1][2] = a
          BY <3>3
        <5> HIDE DEF a, b
        <5> QED
          BY <1>1, <5>1
      <4> QED
        BY <1>3, <3>2, <4>1
    <3>5. j - 1 \in 1..(k - 1) /\ j \in 1..k
      BY <1>1, <2>2, <3>1, <3>2, <3>4
    <3>6. ds[j - 1][2] = ds[j][1]
      BY <1>3, <3>1, <3>5
    <3>7. cs[j] = ds[j]
      BY <1>4, <2>2, <3>2, <3>3, <3>5, <3>6
    <3> QED
      BY <1>1, <2>2, <3>5, <3>7
  <2> QED
    BY <2>3, <2>4
<1> QED
  BY <1>5 DEF m, k

LEMMA PlanIsUnique ==
    ASSUME RequestType(request), NEW cs, NEW ds, Plan(cs), Plan(ds)
    PROVE  cs = ds
<1>1. PICK c : /\ cs = InSendOrder(c)
               /\ IF request.length = 0 THEN c = <<<<0, 0>>>>
                  ELSE Forward(c, request.length) /\ c # <<>>
  BY DEF Plan
<1>2. PICK d : /\ ds = InSendOrder(d)
               /\ IF request.length = 0 THEN d = <<<<0, 0>>>>
                  ELSE Forward(d, request.length) /\ d # <<>>
  BY DEF Plan
<1>3. ASSUME request.length # 0 PROVE c = d
  <2>1. /\ \A j \in 1..Len(c) : j <= Len(d) /\ c[j] = d[j]
        /\ \A j \in 1..Len(d) : j <= Len(c) /\ d[j] = c[j]
    BY <1>1, <1>2, <1>3, SameChunks
  <2>2. Len(c) \in Nat /\ Len(d) \in Nat
    BY <1>1, <1>2, <1>3 DEF Forward
  <2>3. Len(c) = Len(d)
    <3> DEFINE m == Len(c)
               n == Len(d)
    <3>1. m \in Nat /\ n \in Nat /\ (\A j \in 1..m : j <= n) /\ (\A j \in 1..n : j <= m)
      BY <2>1, <2>2
    <3> HIDE DEF m, n
    <3>2. m <= n /\ n <= m
      BY <3>1
    <3> QED
      BY <3>1, <3>2 DEF m, n
  <2> QED
    BY <1>1, <1>2, <1>3, <2>1, <2>3, SameElements, SMTT(60) DEF Forward
<1> QED
  BY <1>1, <1>2, <1>3

LEMMA ChunksArePlan ==
    ASSUME PlanInv, phase = "planned"
    PROVE  Plan(chunks)
  BY DEF PlanInv, Listed, Plan

-----------------------------------------------------------------------------
(* What a second try may repeat. *)

\* An item is sent once in one try.
LEMMA SentOnce ==
    ASSUME PlanInv, phase = "planned", NEW i \in Nat
    PROVE  /\ Once(SentItems(0), i) = 0
           /\ Once(SentItems(1), i) = Once(FirstChunk(chunks), i)
           /\ \A k \in 1..Len(chunks) :
                 LET chunk == Slice(chunks[k][1], chunks[k][2])
                 IN  Once(SentItems(k), i) = Once(SentItems(k - 1), i) + Times(chunk, i)
<1>1. 0 \in 0..Len(chunks) /\ 1 \in 1..Len(chunks)
  BY SendOrder
<1>2. From(0) = To(0) /\ From(0) \in Nat
  BY <1>1, SentSoFar
<1>3. Once(SentItems(0), i) = 0
  BY <1>2 DEF SentItems, Once
<1>4. ASSUME NEW k \in 1..Len(chunks)
      PROVE  /\ Once(SentItems(k), i) =
                    Once(SentItems(k - 1), i) + Once((chunks[k][1] + 1)..chunks[k][2], i)
             /\ Times(Slice(chunks[k][1], chunks[k][2]), i) =
                    Once((chunks[k][1] + 1)..chunks[k][2], i)
  <2> DEFINE a == chunks[k][1]
             b == chunks[k][2]
  <2>1. /\ a \in Nat /\ b \in Nat /\ a <= b /\ k - 1 \in 0..Len(chunks)
        /\ IF request.after
             THEN From(k) = a /\ From(k - 1) = b /\ To(k) = To(k - 1)
             ELSE To(k) = b /\ To(k - 1) = a /\ From(k) = From(k - 1)
    BY NextChunk
  <2>2. /\ From(k - 1) \in Nat /\ To(k - 1) \in Nat /\ From(k - 1) <= To(k - 1)
    BY <2>1, SentSoFar
  <2> HIDE DEF a, b
  <2>3. Once(SentItems(k), i) = Once(SentItems(k - 1), i) + Once((a + 1)..b, i)
    BY <2>1, <2>2 DEF SentItems, Once
  <2>4. Times(Slice(a, b), i) = Once((a + 1)..b, i)
    BY <2>1, OccurrencesSlice DEF Times, Once
  <2> QED
    BY <2>3, <2>4 DEF a, b
<1>5. Once(SentItems(1), i) = Once(FirstChunk(chunks), i)
  <2>1. Once(SentItems(1), i) = Once(SentItems(1 - 1), i) + Once(FirstChunk(chunks), i)
    BY <1>1, <1>4 DEF FirstChunk
  <2>2. SentItems(1 - 1) = SentItems(0)
    <3>1. 1 - 1 = 0
      OBVIOUS
    <3> QED
      BY <3>1
  <2>3. Once(FirstChunk(chunks), i) \in Nat
    BY DEF Once
  <2> QED
    BY <1>3, <2>1, <2>2, <2>3
<1> QED
  BY <1>3, <1>4, <1>5

LEMMA TimesType ==
    ASSUME NEW s \in Seq(Nat), NEW i
    PROVE  Times(s, i) \in Nat
  BY OccurrencesFinite DEF Times

LEMMA OriginalHasNone ==
    ASSUME NEW i \in Nat \ {0}
    PROVE  Times(Original, i) = 0
<1>1. Occurrences(Original, i) = {}
  BY DEF Occurrences, Original
<1> QED
  BY <1>1, FS_EmptySet DEF Times

\* The steps that change no container.
LEMMA RepeatedKept ==
    ASSUME LoopInv, LoopInv', Repeated, UNCHANGED plan_vars, UNCHANGED <<node, store, before>>,
           wire # "idle", wire' # "idle",
           outcome'.kind = "none" =>
               /\ outcome.kind = "none"
               /\ Reached' = Reached \/ (Reached' = Reached + 1 /\ Reached < Len(chunks)),
           outcome'.kind = "unavailable" =>
               \/ outcome.kind = "unavailable"
               \/ outcome.kind = "none" /\ next' = next
    PROVE  Repeated'
<1>1. /\ PlanInv /\ phase = "planned" /\ next \in Nat \ {0} /\ next <= Len(chunks) + 1
      /\ Len(chunks) \in Nat /\ node \in Nodes /\ before \in Seq(Nat) /\ store[node] \in Seq(Nat)
      /\ request.length \in Nat
      /\ wire = "stored" => next <= Len(chunks)
  BY SendOrder DEF LoopInv, Counted, SendTypeOK
<1>2. Reached \in 0..Len(chunks)
  BY <1>1 DEF Reached
<1>3. /\ UNCHANGED <<request, chunks>>
      /\ \A k : UNCHANGED SentItems(k)
      /\ \A i : /\ Times(store[node], i)' = Times(store[node], i)
                /\ Times(before, i)' = Times(before, i)
      /\ UNCHANGED FirstChunk(chunks)
  BY PlanKept DEF plan_vars, SentItems, Times, Occurrences, FirstChunk
<1> SUFFICES ASSUME NEW i \in 1..request.length
             PROVE  /\ Times(store[node], i) <= Times(before, i) + 1
                    /\ outcome'.kind = "none" =>
                          Times(store[node], i) <= Times(before, i) + Once(SentItems(Reached'), i)
                    /\ outcome'.kind = "unavailable" =>
                          Times(store[node], i) <= Times(before, i) + Once(FirstChunk(chunks), i)
  BY <1>3 DEF Repeated, Once
<1>4. /\ Times(store[node], i) \in Nat /\ Times(before, i) \in Nat /\ i \in Nat
      /\ Once(FirstChunk(chunks), i) \in Nat
      /\ \A k : Once(SentItems(k), i) \in Nat
  BY <1>1, TimesType DEF Once
<1>5. ASSUME NEW k \in 0..Len(chunks), k < Len(chunks)
      PROVE  Once(SentItems(k), i) <= Once(SentItems(k + 1), i)
  <2>1. k + 1 \in 1..Len(chunks) /\ (k + 1) - 1 = k
    BY <1>1, <1>5
  <2>2. Slice(chunks[k + 1][1], chunks[k + 1][2]) \in Seq(Nat)
    BY <1>1, <2>1, NextChunk, SliceIs
  <2>3. Times(Slice(chunks[k + 1][1], chunks[k + 1][2]), i) \in Nat
    BY <2>2, TimesType
  <2> DEFINE chunk == Slice(chunks[k + 1][1], chunks[k + 1][2])
             l == k + 1
  <2>4. Once(SentItems(l), i) = Once(SentItems(l - 1), i) + Times(chunk, i)
    BY <1>1, <1>4, <2>1, SentOnce
  <2> HIDE DEF chunk
  <2>5. Once(SentItems(k + 1), i) = Once(SentItems(k), i) + Times(chunk, i)
    BY <2>1, <2>4
  <2> QED
    BY <1>4, <2>3, <2>5 DEF chunk
<1>6. Times(store[node], i) <= Times(before, i) + 1
  BY DEF Repeated
<1>7. ASSUME outcome'.kind = "none"
      PROVE  Times(store[node], i) <= Times(before, i) + Once(SentItems(Reached'), i)
  <2>1. Times(store[node], i) <= Times(before, i) + Once(SentItems(Reached), i)
    BY <1>7 DEF Repeated
  <2>2. Once(SentItems(Reached), i) <= Once(SentItems(Reached'), i)
    BY <1>2, <1>4, <1>5, <1>7
  <2> QED
    BY <1>4, <2>1, <2>2
<1>8. ASSUME outcome'.kind = "unavailable"
      PROVE  Times(store[node], i) <= Times(before, i) + Once(FirstChunk(chunks), i)
  <2>1. CASE outcome.kind = "unavailable"
    BY <2>1 DEF Repeated
  <2>2. CASE outcome.kind = "none" /\ next' = next
    <3>1. next = 1
      BY <1>8, <2>2 DEF LoopInv, Confirmed
    <3>2. Reached = 0 \/ Reached = 1
      BY <3>1 DEF Reached
    <3>3. Once(SentItems(Reached), i) <= Once(FirstChunk(chunks), i)
      BY <1>1, <1>4, <3>2, SentOnce
    <3>4. Times(store[node], i) <= Times(before, i) + Once(SentItems(Reached), i)
      BY <2>2 DEF Repeated
    <3> QED
      BY <1>4, <3>3, <3>4
  <2> QED
    BY <1>8, <2>1, <2>2
<1> QED
  BY <1>6, <1>7, <1>8

\* A chunk is stored once.
LEMMA RepeatedStored ==
    ASSUME LoopInv, Repeated, ServerStores
    PROVE  Repeated'
<1> DEFINE chunk == Slice(chunks[next][1], chunks[next][2])
           q == PositionOf(chunks[next][1])
<1>1. /\ next \in 1..Len(chunks) /\ chunk \in Seq(Nat \ {0}) /\ q \in Int \cup {NoPos}
      /\ Reach(store[node], q) /\ store[node] \in Seq(Nat) /\ node \in Nodes
  BY ChunkReaches
<1>2. /\ PlanInv /\ phase = "planned" /\ before \in Seq(Nat) /\ store \in [Nodes -> Seq(Nat)]
      /\ outcome = Undecided /\ wire = "flight"
  BY DEF LoopInv, Counted, SendTypeOK, ServerStores
<1>3. OperationType(request) /\ request.length \in Nat
  BY <1>2, RequestIs
<1>4. /\ UNCHANGED plan_vars /\ UNCHANGED <<node, before, outcome, next>> /\ wire' = "stored"
      /\ store'[node] = Applied(store[node], chunk, q)
  BY <1>1, <1>2 DEF ServerStores
<1>5. Reached = next - 1 /\ Reached' = next
  BY <1>2, <1>4 DEF Reached
<1> HIDE DEF chunk, q
<1>6. ASSUME NEW i \in 1..request.length
      PROVE  /\ Times(store'[node], i) <= Times(before, i) + Once(SentItems(next), i)
             /\ Times(store'[node], i) <= Times(before, i) + 1
  <2>1. Times(store'[node], i) = Times(store[node], i) + Times(chunk, i)
    BY <1>1, <1>3, <1>4, AppliedGrows DEF Times
  <2>2. Once(SentItems(next), i) = Once(SentItems(next - 1), i) + Times(chunk, i)
    BY <1>1, <1>2, <1>3, SentOnce DEF chunk
  <2>3. Times(store[node], i) <= Times(before, i) + Once(SentItems(next - 1), i)
    BY <1>2, <1>5 DEF Repeated, Undecided
  <2>4. /\ Times(store[node], i) \in Nat /\ Times(before, i) \in Nat /\ Times(chunk, i) \in Nat
        /\ Once(SentItems(next - 1), i) \in Nat /\ Once(SentItems(next), i) \in {0, 1}
    <3>1. chunk \in Seq(Nat)
      BY <1>1
    <3> QED
      BY <1>1, <1>2, <3>1, TimesType DEF Once
  <2> QED
    BY <2>1, <2>2, <2>3, <2>4
<1>7. /\ UNCHANGED request /\ UNCHANGED SentItems(next)
      /\ \A i : /\ Times(store[node], i)' = Times(store'[node], i)
                /\ Times(before, i)' = Times(before, i)
  BY <1>4, PlanKept DEF plan_vars, SentItems, Times, Occurrences
<1> QED
  BY <1>2, <1>4, <1>5, <1>6, <1>7 DEF Repeated, Once, Undecided

\* Before the loop nothing has been stored in this try.
LEMMA RepeatedBefore ==
    ASSUME LoopInv, store[node] = before,
           \/ wire = "idle"
           \/ wire = "ready" /\ next = 1 /\ outcome = Undecided
    PROVE  Repeated
<1>1. before \in Seq(Nat) /\ outcome.kind # "unavailable"
  BY DEF LoopInv, SendTypeOK, Untouched, Undecided
<1> SUFFICES ASSUME NEW i \in 1..request.length
             PROVE  /\ Times(before, i) <= Times(before, i) + 1
                    /\ Times(before, i) <= Times(before, i) + Once(SentItems(Reached), i)
  BY <1>1 DEF Repeated
<1>2. Times(before, i) \in Nat /\ Once(SentItems(Reached), i) \in Nat
  BY <1>1, TimesType DEF Once
<1> QED
  BY <1>2

LEMMA HandedKept ==
    ASSUME LoopInv, Handed, UNCHANGED <<request, node, before>>,
           \A n \in Nodes \ {node} : store'[n] = store[n]
    PROVE  Handed'
<1>1. node \in Nat /\ (node = 2 => 1 \in Nodes \ {node})
  BY EndpointAssumption DEF LoopInv, SendTypeOK, Nodes
<1>2. \A ds : Plan(ds)' <=> Plan(ds)
  BY DEF Plan, InSendOrder, Forward, Fits, Reserved, PositionBytes, PositionOf, Positioned
<1>3. (\A n \in Nodes : n > node => store[n] = Original)'
  BY <1>1 DEF Handed, Original, Creates
<1>4. (node = 1 => before = Original)'
  BY DEF Handed, Original, Creates
<1>5. ASSUME node = 2 PROVE (\A i \in 1..request.length : Times(store[1], i) <= 1)'
  BY <1>1, <1>5 DEF Handed, Times, Occurrences
<1>6. ASSUME node = 2
      PROVE  (\E ds : /\ Plan(ds)
                     /\ \A i \in 1..request.length : Times(before, i) <= Once(FirstChunk(ds), i))'
  <2>1. PICK ds : /\ Plan(ds)
                  /\ \A i \in 1..request.length : Times(before, i) <= Once(FirstChunk(ds), i)
    BY <1>6 DEF Handed
  <2>2. /\ Plan(ds)'
        /\ \A i \in 1..request'.length : Times(before, i)' <= Once(FirstChunk(ds), i)'
    BY <1>2, <2>1 DEF Times, Occurrences, FirstChunk, Once
  <2> QED
    BY <2>2
<1> QED
  BY <1>3, <1>4, <1>5, <1>6 DEF Handed

\* The second node begins with the first chunk at most.
LEMMA HandedOver ==
    ASSUME LoopInv, Repeated, Handed, NEW replicated \in BOOLEAN, Fallback(replicated)
    PROVE  Handed'
<1> DEFINE held == IF replicated THEN store[node] ELSE store[node + 1]
<1>1. /\ node = 1 /\ node' = 2 /\ Nodes = {1, 2} /\ outcome.kind = "unavailable"
      /\ store' = [store EXCEPT ![2] = held] /\ before' = held
      /\ UNCHANGED request
  <2>1. node \in 1..Endpoints /\ node < Endpoints /\ Endpoints \in {1, 2}
    BY EndpointAssumption DEF LoopInv, Fallback, SendTypeOK, Nodes
  <2>2. node = 1 /\ Endpoints = 2 /\ node + 1 = 2
    BY <2>1
  <2>3. Nodes = {1, 2}
    BY <2>2 DEF Nodes
  <2> QED
    BY <2>2, <2>3 DEF Fallback, Repeatable
<1>2. /\ store \in [{1, 2} -> Seq(Nat)] /\ before = Original /\ store[2] = Original
      /\ wire = "ready" /\ PlanInv
  BY <1>1 DEF LoopInv, SendTypeOK, Handed, Confirmed
<1>3. Plan(chunks)
  BY <1>2, ChunksArePlan DEF LoopInv, Counted
<1>4. \A ds : Plan(ds)' <=> Plan(ds)
  BY <1>1 DEF Plan, InSendOrder, Forward, Fits, Reserved, PositionBytes, PositionOf, Positioned
<1>5. ASSUME NEW i \in 1..request.length
      PROVE  /\ Times(store[1], i) <= 1
             /\ Times(store[1], i) <= Once(FirstChunk(chunks), i)
             /\ Times(store[2], i) <= Once(FirstChunk(chunks), i)
  <2>1. i \in Nat \ {0}
    BY <1>2, RequestIs
  <2>2. Times(before, i) = 0 /\ Times(store[2], i) = 0
    BY <1>2, <2>1, OriginalHasNone
  <2>3. /\ Times(store[1], i) \in Nat /\ Once(FirstChunk(chunks), i) \in Nat
        /\ Times(store[1], i) <= Times(before, i) + 1
        /\ Times(store[1], i) <= Times(before, i) + Once(FirstChunk(chunks), i)
    BY <1>1, <1>2, TimesType DEF Repeated, Once
  <2> QED
    BY <2>2, <2>3
<1>6. (\A n \in Nodes : n > node => store[n] = Original)' /\ (node = 1 => before = Original)'
  BY <1>1
<1>7. (\A i \in 1..request.length : Times(store[1], i) <= 1)'
  <2>1. store'[1] = store[1]
    BY <1>1, <1>2
  <2> QED
    BY <1>1, <1>5, <2>1 DEF Times, Occurrences
<1>8. (\E ds : /\ Plan(ds)
               /\ \A i \in 1..request.length : Times(before, i) <= Once(FirstChunk(ds), i))'
  <2>1. PICK ds : ds = chunks
    OBVIOUS
  <2>2. held = store[1] \/ held = store[2]
    BY <1>1
  <2>3. \A i \in 1..request.length : Times(held, i) <= Once(FirstChunk(ds), i)
    BY <1>5, <2>1, <2>2
  <2>4. /\ Plan(ds)'
        /\ \A i \in 1..request'.length : Times(before, i)' <= Once(FirstChunk(ds), i)'
    BY <1>1, <1>3, <1>4, <2>1, <2>3 DEF Times, Occurrences, FirstChunk, Once
  <2> QED
    BY <2>4
<1> QED
  BY <1>6, <1>7, <1>8 DEF Handed

LEMMA RepeatInit == Init => RepeatInv
<1> SUFFICES ASSUME Init PROVE RepeatInv
  OBVIOUS
<1>1. LoopInv /\ node = 1 /\ before = Original /\ store = [n \in Nodes |-> Original]
      /\ wire = "idle" /\ node \in Nodes
  BY LoopInit DEF Init, LoopInv, SendTypeOK
<1>2. Repeated
  BY <1>1, RepeatedBefore
<1>3. Handed
  BY <1>1 DEF Handed
<1> QED
  BY <1>1, <1>2, <1>3 DEF RepeatInv

LEMMA RepeatStep == RepeatInv /\ [Next]_vars => RepeatInv'
<1> SUFFICES ASSUME RepeatInv, [Next]_vars PROVE RepeatInv'
  OBVIOUS
<1> USE DEF RepeatInv
<1>0. LoopInv' /\ LoopInv
  BY LoopStep
<1>1. ASSUME (store[node] = before)',
             (\/ wire = "idle"
              \/ wire = "ready" /\ next = 1 /\ outcome = Undecided)'
      PROVE  Repeated'
  <2>1. (/\ LoopInv /\ store[node] = before
         /\ \/ wire = "idle"
            \/ wire = "ready" /\ next = 1 /\ outcome = Undecided
         => Repeated)'
    BY RepeatedBefore, PTL
  <2> QED
    BY <1>0, <1>1, <2>1
<1>2. CASE (PlanStep /\ UNCHANGED sendVars) \/ Start \/ PlanFails \/ (UNCHANGED vars /\ wire = "idle")
  <2>1. wire = "idle" /\ store[node] = before
    BY <1>0, <1>2
       DEF LoopInv, Counted, SendTypeOK, Untouched, PlanStep, CheckHeader, CheckItem, StartCutting,
           Cut, Probe, Emit, Planned, PlanExpires, Start, PlanFails
  <2>2. UNCHANGED <<request, node, before, store, next>>
    BY <1>2 DEF Start, PlanFails, PlanStep, CheckHeader, CheckItem, StartCutting, Cut, Probe, Emit,
       Planned, PlanExpires, Reject, plan_vars, sendVars, vars
  <2>3. wire' = "idle" \/ (wire' = "ready" /\ next' = 1 /\ outcome' = Undecided)
    BY <1>0, <1>2, <2>1 DEF Start, PlanFails, LoopInv, Untouched, sendVars, vars
  <2> QED
    BY <1>0, <1>1, <2>1, <2>2, <2>3, HandedKept
<1>3. CASE \E replicated \in BOOLEAN : Fallback(replicated)
  <2>1. PICK replicated \in BOOLEAN : Fallback(replicated)
    BY <1>3
  <2>2. wire' = "idle" /\ store'[node'] = before'
    <3>1. node + 1 \in Nodes /\ store \in [Nodes -> Seq(Nat)]
      BY <1>0, <2>1, EndpointAssumption DEF LoopInv, SendTypeOK, Nodes, Fallback
    <3> QED
      BY <2>1, <3>1 DEF Fallback
  <2> QED
    BY <1>0, <1>1, <2>1, <2>2, HandedOver
<1>4. CASE ServerStores
  <2>1. \A n \in Nodes \ {node} : store'[n] = store[n]
    BY <1>0, <1>4 DEF ServerStores, LoopInv, SendTypeOK
  <2>2. UNCHANGED <<request, node, before>>
    BY <1>4 DEF ServerStores, plan_vars
  <2> QED
    BY <1>0, <1>4, <2>1, <2>2, RepeatedStored, HandedKept
<1>5. CASE \/ Skip \/ Send \/ Succeed \/ ServerRefuses \/ AddReply \/ CreateReply
           \/ Cancelled \/ StubLost
           \/ \E kind \in {"error", "too_large"} : NotSent(kind)
           \/ \E kind \in {"unavailable", "error"} : RpcFails(kind)
           \/ UNCHANGED vars /\ wire # "idle"
  <2>1. /\ UNCHANGED plan_vars /\ UNCHANGED <<node, store, before>>
        /\ wire # "idle" /\ wire' # "idle"
    BY <1>5 DEF Skip, Send, Succeed, ServerRefuses, AddReply, CreateReply, NotSent, RpcFails, vars,
       Cancelled, StubLost, sendVars, Ready, Stop, Advance
  <2>2. /\ next \in Nat /\ Len(chunks) \in Nat /\ next <= Len(chunks) + 1
        /\ wire # "ready" => outcome = Undecided /\ next <= Len(chunks)
    BY <1>0, <2>1, SendOrder DEF LoopInv, Counted, SendTypeOK
  <2>3. CASE Skip \/ ((AddReply \/ CreateReply) /\ Advance)
    <3>1. next' = next + 1 /\ wire' = "ready" /\ next <= Len(chunks) /\ outcome = Undecided
      BY <2>2, <2>3 DEF Skip, Ready, Advance, AddReply, CreateReply
    <3>2. Reached' = next /\ (Reached = next \/ Reached = next - 1)
      BY <2>2, <3>1 DEF Reached
    <3>3. outcome' = Undecided
      BY <2>3, <3>1 DEF Skip, Advance
    <3> QED
      BY <1>0, <2>1, <2>2, <3>1, <3>2, <3>3, RepeatedKept, HandedKept DEF Undecided, plan_vars
  <2>4. CASE /\ UNCHANGED next
             /\ outcome'.kind = "none" =>
                    outcome.kind = "none" /\ (wire' = "stored" <=> wire = "stored")
             /\ outcome'.kind = "unavailable" =>
                    outcome.kind = "none" \/ outcome.kind = "unavailable"
    <3>1. outcome'.kind = "none" => Reached' = Reached
      BY <2>4 DEF Reached
    <3> QED
      BY <1>0, <2>1, <2>4, <3>1, RepeatedKept, HandedKept DEF plan_vars
  <2>5. CASE Stop(Overflowed) \/ Stop(Refusal) \/ Stop(PartialOperationError(acknowledged, done))
    <3>1. UNCHANGED next /\ outcome'.kind \in {"partial", "false"}
      BY <2>5 DEF Stop, Overflowed, Refusal, PartialOperationError, Result
    <3> QED
      BY <2>4, <3>1
  <2>6. (\E kind \in {"error", "too_large"} : NotSent(kind))
        \/ (\E kind \in {"unavailable", "error"} : RpcFails(kind))
           => UNCHANGED next /\ outcome = Undecided /\ outcome'.kind # "none"
    <3>1. \A kind \in {"error", "too_large", "unavailable"} : Failure(kind).kind # "none"
      BY DEF Failure, PartialOperationError, Result
    <3> QED
      BY <2>2, <3>1 DEF NotSent, RpcFails, Ready
  <2>7. Send \/ Succeed \/ ServerRefuses \/ UNCHANGED vars
           => /\ UNCHANGED next /\ (wire' = "stored" <=> wire = "stored")
              /\ outcome' = outcome \/ outcome' = Result("success")
    BY DEF Send, Succeed, ServerRefuses, Ready, vars, sendVars
  <2>8. AddReply \/ CreateReply => \/ Advance
                                   \/ Stop(Overflowed) \/ Stop(Refusal)
                                   \/ Stop(PartialOperationError(acknowledged, done))
    BY DEF AddReply, CreateReply
  <2>9. Cancelled \/ StubLost => /\ UNCHANGED next
                                 /\ outcome'.kind # "none" /\ outcome'.kind # "unavailable"
    BY DEF Cancelled, StubLost, Result
  <2> QED
    BY <1>5, <2>3, <2>4, <2>5, <2>6, <2>7, <2>8, <2>9 DEF Result, Undecided
<1> QED
  BY <1>2, <1>3, <1>4, <1>5 DEF Next

THEOREM RepeatInvariant == Spec => []RepeatInv
<1>1. Init => RepeatInv
  BY RepeatInit
<1>2. RepeatInv /\ [Next]_vars => RepeatInv'
  BY RepeatStep
<1> QED
  BY <1>1, <1>2, PTL DEF Spec

\* "RepeatsAreBounded": what a second try may store again is the chunk whose answer was lost,
\* because it begins only when nothing was confirmed and cuts the items as the first one did.
THEOREM RepeatsOneChunk == Spec => []RepeatsAreBounded
<1>1. RepeatInv => RepeatsAreBounded
  <2> SUFFICES ASSUME RepeatInv PROVE RepeatsAreBounded
    OBVIOUS
  <2>1. /\ LoopInv /\ PlanInv /\ request.length \in Nat /\ RequestType(request)
        /\ node \in Nodes /\ store \in [Nodes -> Seq(Nat)] /\ before \in Seq(Nat)
        /\ Nodes = {1} \/ Nodes = {1, 2}
    <3>1. Nodes = {1} \/ Nodes = {1, 2}
      <4>1. CASE Endpoints = 1
        BY <4>1 DEF Nodes
      <4>2. CASE Endpoints = 2
        BY <4>2 DEF Nodes
      <4> QED
        BY <4>1, <4>2, EndpointAssumption
    <3> QED
      BY <3>1, RequestIs DEF RepeatInv, LoopInv, SendTypeOK
  <2>2. ASSUME NEW n \in Nodes, NEW i \in 1..request.length
        PROVE  /\ Times(store[n], i) \in Nat /\ Times(store[n], i) <= 2
               /\ n = 1 => Times(store[n], i) <= 1
               /\ n = 2 /\ phase = "planned" =>
                     Times(store[n], i) <= 1 + Once(FirstChunk(chunks), i)
    <3>0. i \in Nat \ {0}
      BY <2>1
    <3>1. /\ Times(store[n], i) \in Nat /\ Times(before, i) \in Nat
          /\ \A ds : Once(FirstChunk(ds), i) \in {0, 1}
      BY <2>1, TimesType DEF Once
    <3>2. Times(Original, i) = 0
      BY <3>0, OriginalHasNone
    <3>3. Times(store[node], i) <= Times(before, i) + 1
      BY DEF RepeatInv, Repeated
    <3>4. CASE node = 1
      <4>1. before = Original /\ (n = 2 => store[n] = Original)
        BY <3>4 DEF RepeatInv, Handed
      <4>2. n = 1 \/ n = 2
        BY <2>1
      <4> QED
        BY <3>1, <3>2, <3>3, <3>4, <4>1, <4>2
    <3>5. CASE node = 2
      <4>1. PICK ds : Plan(ds) /\ Times(before, i) <= Once(FirstChunk(ds), i)
        BY <3>5 DEF RepeatInv, Handed
      <4>2. phase = "planned" => ds = chunks
        BY <2>1, <4>1, ChunksArePlan, PlanIsUnique
      <4>3. n = 1 => Times(store[n], i) <= 1
        BY <3>5 DEF RepeatInv, Handed
      <4>4. n = 1 \/ n = 2
        BY <2>1
      <4>5. Once(FirstChunk(ds), i) \in {0, 1} /\ Once(FirstChunk(chunks), i) \in {0, 1}
        BY <3>1
      <4>6. Times(before, i) <= 1 /\ (phase = "planned" => Times(before, i) <= Once(FirstChunk(chunks), i))
        BY <3>1, <4>1, <4>2, <4>5
      <4> QED
        BY <3>1, <3>3, <3>5, <4>3, <4>4, <4>5, <4>6
    <3> QED
      BY <2>1, <3>4, <3>5
  <2>3. \A n \in Nodes : n < node => confirmed[n] = 0
    BY <2>1 DEF LoopInv, Confirmed
  <2>4. ASSUME NEW n \in Nodes, NEW i \in 1..request.length
        PROVE  Cardinality({j \in DOMAIN store[n] : store[n][j] = i}) = Times(store[n], i)
    <3>1. DOMAIN store[n] = 1..Len(store[n])
      BY <2>1
    <3> QED
      BY <3>1 DEF Times, Occurrences
  <2>5. ASSUME NEW n \in Nodes, n = 1 \/ phase = "planned"
        PROVE  Doubled(n) \subseteq IF n = 1 THEN {} ELSE (chunks[1][1] + 1)..chunks[1][2]
    <3> SUFFICES ASSUME NEW i \in Doubled(n)
                 PROVE  n # 1 /\ i \in (chunks[1][1] + 1)..chunks[1][2]
      OBVIOUS
    <3>1. i \in 1..request.length /\ Times(store[n], i) > 1
      BY <2>4 DEF Doubled
    <3>2. n # 1 /\ n = 2 /\ phase = "planned"
      BY <2>1, <2>2, <2>5, <3>1
    <3>3. Once(FirstChunk(chunks), i) # 0
      BY <2>2, <3>1, <3>2
    <3> QED
      BY <3>2, <3>3 DEF Once, FirstChunk
  <2> QED
    BY <2>2, <2>3, <2>4, <2>5 DEF RepeatsAreBounded
<1> QED
  BY <1>1, RepeatInvariant, PTL
=============================================================================
