---------------------------- MODULE Pages_proof -----------------------------
(* Proof that the page allocator keeps its books (PageAlloc, BootChecks): from *)
(* the state that the self-checks of the kernel leave behind, every page has   *)
(* one owner, and the list with its fields property computes what PagePool     *)
(* promises.  The argument is about ascending lists: a run of consecutive free *)
(* pages is a run of entries, so taking n entries behind a head takes a run of *)
(* pages, and the walk back of default_free_pages ends at the head of the      *)
(* block in front.  What the self-checks leave behind is checked with TLC.     *)
(* The last part is about swapping (Swap): what was written comes back.        *)
EXTENDS BootChecks, Swap, FiniteSetTheorems, SequenceTheorems, NaturalsInduction, TLAPS

-----------------------------------------------------------------------------
\* A well-founded relation has minimal elements in every set that is not empty.
LEMMA Minimal ==
  ASSUME NEW T, NEW R, IsWellFoundedOn(R, T), NEW S, S \subseteq T, S # {}
  PROVE  \E x \in S : \A y \in S : ~(<<y, x>> \in R)
  BY WFMin

\* A set of naturals has a least member.
LEMMA LeastNat ==
  ASSUME NEW S, S \subseteq Nat, S # {}
  PROVE  \E n \in S : \A m \in S : n <= m
  <1>1. \A m, n \in Nat : <<m, n>> \in OpToRel(<, Nat) <=> m < n BY DEF OpToRel
  <1>2. PICK n \in S : \A m \in S : ~(<<m, n>> \in OpToRel(<, Nat)) BY NatLessThanWellFounded, Minimal
  <1>3. \A m \in S : ~(m < n) BY <1>1, <1>2
  <1> QED BY <1>3

\* Min of FiniteSetsExt, with which Position and first fit scan the list.
LEMMA MinOf ==
  ASSUME NEW S, S \subseteq Nat, S # {}
  PROVE  Min(S) \in S /\ \A y \in S : Min(S) <= y
  BY LeastNat DEF Min

\* Max of FiniteSetsExt, for a set with an upper bound.
LEMMA MaxOf ==
  ASSUME NEW S, S \subseteq Nat, S # {}, NEW N \in Nat, \A s \in S : s <= N
  PROVE  Max(S) \in S /\ \A y \in S : Max(S) >= y
  <1> DEFINE T == {N - s : s \in S}
  <1>0. \A s \in S : N - s \in Nat OBVIOUS
  <1>1. T \subseteq Nat /\ T # {} BY <1>0
  <1>2. PICK t \in T : \A u \in T : t <= u BY <1>1, LeastNat
  <1>3. PICK s \in S : t = N - s OBVIOUS
  <1>4. \A y \in S : N - s <= N - y BY <1>2, <1>3
  <1>5. \A y \in S : s >= y BY <1>4
  <1> QED BY <1>5 DEF Max

-----------------------------------------------------------------------------
\* RunLength(S, b) is where the run of pages that starts at b ends.
LEMMA RunLengthHas ==
  ASSUME NEW S, S \subseteq Nat, IsFiniteSet(S), NEW b \in Nat
  PROVE  /\ RunLength(S, b) \in Nat /\ Span(b, RunLength(S, b)) \subseteq S /\ b + RunLength(S, b) \notin S
  <1> DEFINE T == {n \in 0..Cardinality(S) : Span(b, n) \subseteq S}
             r == RunLength(S, b)
  <1>1. Cardinality(S) \in Nat BY FS_CardinalityType
  <1>2. 0 \in T BY <1>1 DEF Span
  <1>3. T \subseteq Nat /\ \A n \in T : n <= Cardinality(S) BY <1>1
  <1>4. r \in T /\ \A n \in T : r >= n
    <2> HIDE DEF T
    <2>1. Max(T) \in T /\ \A n \in T : Max(T) >= n BY <1>1, <1>2, <1>3, MaxOf
    <2> QED BY <2>1 DEF RunLength, T
  <1>5. ASSUME b + r \in S PROVE FALSE
    <2> HIDE DEF r
    <2>1. r \in Nat /\ Span(b, r) \subseteq S BY <1>1, <1>4
    <2>2. Span(b, r + 1) \subseteq S BY <1>5, <2>1 DEF Span
    <2>3. Span(b, r + 1) = b..(b + r) BY <2>1 DEF Span
    <2>4. Cardinality(b..(b + r)) = r + 1 BY <2>1, FS_Interval
    <2>5. r + 1 <= Cardinality(S) BY <2>2, <2>3, <2>4, FS_Subset
    <2>6. r + 1 \in T BY <1>1, <2>1, <2>2, <2>5
    <2> QED BY <1>4, <2>1, <2>6
  <1> QED BY <1>1, <1>4, <1>5

\* ... and nothing else is.
LEMMA RunLengthIs ==
  ASSUME NEW S, S \subseteq Nat, IsFiniteSet(S), NEW b \in Nat, NEW r \in Nat, Span(b, r) \subseteq S, b + r \notin S
  PROVE  RunLength(S, b) = r
  <1> DEFINE q == RunLength(S, b)
  <1>1. q \in Nat /\ Span(b, q) \subseteq S /\ b + q \notin S BY RunLengthHas
  <1> HIDE DEF q
  <1>2. ~(q < r) BY <1>1 DEF Span
  <1>3. ~(r < q) BY <1>1 DEF Span
  <1> QED BY <1>1, <1>2, <1>3 DEF q

-----------------------------------------------------------------------------
\* Lists of pages in ascending order.
Sorted(L) == L \in Seq(Nat) /\ \A i, j \in 1..Len(L) : i < j => L[i] < L[j]
Set(L) == {L[i] : i \in 1..Len(L)}

\* Order of entries is order of pages.
LEMMA SortedOrder ==
  ASSUME NEW L, Sorted(L), NEW i \in 1..Len(L), NEW j \in 1..Len(L)
  PROVE  /\ Len(L) \in Nat /\ L[i] \in Nat /\ L[j] \in Nat
         /\ L[i] < L[j] <=> i < j
         /\ L[i] = L[j] <=> i = j
  BY DEF Sorted

\* The next page is the next entry.
LEMMA NextEntry ==
  ASSUME NEW L, Sorted(L), NEW j \in 1..Len(L), L[j] + 1 \in Set(L)
  PROVE  j + 1 \in 1..Len(L) /\ L[j + 1] = L[j] + 1
  <1>1. PICK k \in 1..Len(L) : L[k] = L[j] + 1 BY DEF Set
  <1>2. Len(L) \in Nat /\ L[j] \in Nat BY DEF Sorted
  <1>3. j < k BY <1>1, <1>2, SortedOrder
  <1>4. j + 1 \in 1..Len(L) /\ L[j + 1] \in Nat BY <1>2, <1>3 DEF Sorted
  <1>5. L[j] < L[j + 1] BY <1>4, <1>2, SortedOrder
  <1>6. ~(j + 1 < k)
    <2> SUFFICES ASSUME j + 1 < k PROVE FALSE OBVIOUS
    <2>1. L[j + 1] < L[k] BY <1>4, SortedOrder
    <2> QED BY <1>1, <1>2, <1>4, <1>5, <2>1
  <1>7. k = j + 1 BY <1>3, <1>6, <1>2
  <1> QED BY <1>1, <1>4, <1>7

\* A run of pages is a run of entries.
LEMMA Consecutive ==
  ASSUME NEW L, Sorted(L), NEW i \in 1..Len(L), NEW r \in Nat, Span(L[i], r) \subseteq Set(L)
  PROVE  \A k \in 0..(r - 1) : i + k \in 1..Len(L) /\ L[i + k] = L[i] + k
  <1> DEFINE Good(k) == i + k \in 1..Len(L) /\ L[i + k] = L[i] + k
             Bad == {k \in 0..(r - 1) : ~Good(k)}
  <1>0. Len(L) \in Nat /\ L[i] \in Nat BY DEF Sorted
  <1> SUFFICES ASSUME Bad # {} PROVE FALSE OBVIOUS
  <1>1. Bad \subseteq Nat OBVIOUS
  <1>2. PICK k \in Bad : \A m \in Bad : k <= m
    <2> HIDE DEF Bad
    <2> QED BY <1>1, LeastNat
  <1>3. k # 0 BY <1>0
  <1>a. k \in Nat /\ k \in 0..(r - 1) OBVIOUS
  <1>4. k - 1 \in 0..(r - 1) /\ k - 1 \notin Bad
    <2>1. k - 1 \in 0..(r - 1) /\ ~(k <= k - 1) BY <1>3, <1>a
    <2> HIDE DEF Bad
    <2> QED BY <1>2, <2>1
  <1>5. Good(k - 1) BY <1>4
  <1>6. L[i] + k \in Set(L) BY <1>0 DEF Span
  <1> DEFINE j == i + (k - 1)
  <1>7. j \in 1..Len(L) /\ L[j] = L[i] + (k - 1) BY <1>5
  <1>b. j + 1 = i + k BY <1>a
  <1> HIDE DEF j
  <1>8. j + 1 = i + k /\ L[j] + 1 = L[i] + k BY <1>0, <1>a, <1>b, <1>7
  <1>9. j + 1 \in 1..Len(L) /\ L[j + 1] = L[j] + 1 BY <1>6, <1>7, <1>8, NextEntry
  <1> QED BY <1>8, <1>9

\* The block that a free page is in has a head, from which the entries run to the page.
LEMMA RunHead ==
  ASSUME NEW L, Sorted(L), NEW x \in 1..Len(L)
  PROVE  \E J \in 1..x :
            /\ L[J] - 1 \notin Set(L)
            /\ \A j \in J..x : L[j] = L[J] + (j - J)
            /\ \A j \in (J + 1)..x : L[j] - 1 \in Set(L)
  <1> DEFINE Heads == {j \in 1..x : L[j] - 1 \notin Set(L)}
  <1>0. Len(L) \in Nat /\ x \in Nat /\ \A j \in 1..Len(L) : L[j] \in Nat BY DEF Sorted
  <1>1. 1 \in Heads
    <2> SUFFICES ASSUME L[1] - 1 \in Set(L) PROVE FALSE BY <1>0
    <2>1. PICK k \in 1..Len(L) : L[k] = L[1] - 1 BY DEF Set
    <2>2. L[k] < L[1] BY <1>0, <2>1
    <2> QED BY <1>0, <2>2, SortedOrder
  <1>2. Heads \subseteq Nat /\ \A j \in Heads : j <= x BY <1>0
  <1> DEFINE J == Max(Heads)
  <1>3. J \in Heads /\ \A j \in Heads : J >= j
    <2> HIDE DEF Heads
    <2> QED BY <1>0, <1>1, <1>2, MaxOf
  <1> HIDE DEF J
  <1>4. J \in 1..x /\ L[J] - 1 \notin Set(L) /\ J \in Nat BY <1>0, <1>3
  <1>5. ASSUME NEW j \in (J + 1)..x PROVE L[j] - 1 \in Set(L)
    <2>1. j \in 1..x /\ ~(J >= j) BY <1>0, <1>4
    <2> QED BY <1>3, <2>1
  <1>6. \A j \in J..x : L[j] = L[J] + (j - J)
    <2> DEFINE Bad == {j \in J..x : L[j] # L[J] + (j - J)}
    <2> SUFFICES ASSUME Bad # {} PROVE FALSE OBVIOUS
    <2>1. Bad \subseteq Nat BY <1>0, <1>4
    <2>2. PICK j \in Bad : \A m \in Bad : j <= m
      <3> HIDE DEF Bad
      <3> QED BY <2>1, LeastNat
    <2>3. j \in J..x /\ j \in Nat /\ L[j] # L[J] + (j - J) BY <2>1
    <2>4. j # J BY <1>0, <1>4, <2>3
    <2>5. j - 1 \in J..x /\ ~(j <= j - 1) /\ j \in (J + 1)..x /\ j \in 1..Len(L) /\ j - 1 \in 1..Len(L)
      BY <1>0, <1>4, <2>3, <2>4
    <2>6. j - 1 \notin Bad
      <3> HIDE DEF Bad
      <3> QED BY <2>2, <2>5
    <2>7. L[j - 1] = L[J] + (j - 1 - J) BY <2>5, <2>6
    <2>8. L[j] - 1 \in Set(L) BY <1>5, <2>5
    <2>9. PICK k \in 1..Len(L) : L[k] = L[j] - 1 BY <2>8 DEF Set
    <2>10. L[k] + 1 = L[j] /\ L[k] + 1 \in Set(L) BY <1>0, <2>5, <2>9 DEF Set
    <2>11. k + 1 \in 1..Len(L) /\ L[k + 1] = L[j] BY <2>10, NextEntry
    <2>12. k + 1 = j BY <2>5, <2>11, SortedOrder
    <2>13. k = j - 1 BY <2>12, <2>3
    <2>14. L[j] = L[J] + (j - 1 - J) + 1 BY <1>0, <2>7, <2>10, <2>13
    <2>15. L[J] \in Nat BY <1>0, <1>4
    <2>16. \A a, b, c \in Nat : a + (b - 1 - c) + 1 = a + (b - c) OBVIOUS
    <2> QED BY <1>4, <2>3, <2>14, <2>15, <2>16
  <1> QED BY <1>4, <1>5, <1>6

\* A list in ascending order has as many pages as entries.
LEMMA CardList ==
  ASSUME NEW L, Sorted(L)
  PROVE  IsFiniteSet(Set(L)) /\ Cardinality(Set(L)) = Len(L)
  <1>1. Len(L) \in Nat /\ L \in [1..Len(L) -> Nat] BY LenProperties DEF Sorted
  <1>2. L \in [1..Len(L) -> Set(L)] BY <1>1 DEF Set
  <1>3. \A i, j \in 1..Len(L) : L[i] = L[j] => i = j BY SortedOrder
  <1>4. \A t \in Set(L) : \E i \in 1..Len(L) : L[i] = t BY DEF Set
  <1>5. L \in Bijection(1..Len(L), Set(L)) BY <1>2, <1>3, <1>4 DEF Bijection, Injection, Surjection, IsInjective
  <1>6. ExistsBijection(1..Len(L), Set(L)) BY <1>5 DEF ExistsBijection
  <1> QED BY <1>1, <1>6, FS_CountingElements, FS_NatBijection

\* The list without n entries from position i, and with n pages from base before position i.
Removed(L, i, n) == SubSeq(L, 1, i - 1) \o SubSeq(L, i + n, Len(L))
Inserted(L, i, base, n) == SubSeq(L, 1, i - 1) \o [k \in 1..n |-> base + k - 1] \o SubSeq(L, i, Len(L))

\* Taking n entries out of a list.
LEMMA RemoveRun ==
  ASSUME NEW L, Sorted(L), NEW i \in 1..Len(L), NEW n \in Nat \ {0}, Span(L[i], n) \subseteq Set(L)
  PROVE  /\ Sorted(Removed(L, i, n)) /\ Len(Removed(L, i, n)) = Len(L) - n
         /\ Set(Removed(L, i, n)) = Set(L) \ Span(L[i], n)
  <1> DEFINE D == Span(L[i], n)
             A == SubSeq(L, 1, i - 1)
             B == SubSeq(L, i + n, Len(L))
             K == A \o B
  <1>a. Len(L) \in Nat /\ L \in Seq(Nat) /\ \A j \in 1..Len(L) : L[j] \in Nat BY DEF Sorted
  <1>b. \A k \in 0..(n - 1) : i + k \in 1..Len(L) /\ L[i + k] = L[i] + k BY Consecutive
  <1>c. i + n - 1 <= Len(L)
    <2>1. n - 1 \in 0..(n - 1) BY <1>a
    <2>2. i + (n - 1) \in 1..Len(L) BY <1>b, <2>1
    <2> QED BY <2>2, <1>a
  <1>d. \A j \in i..(i + n - 1) : L[j] \in D
    <2> TAKE j \in i..(i + n - 1)
    <2>1. j - i \in 0..(n - 1) /\ i + (j - i) = j BY <1>a
    <2>2. L[j] = L[i] + (j - i) BY <1>b, <2>1
    <2> QED BY <1>a, <2>1, <2>2 DEF Span
  <1>e. \A x \in D : \E j \in i..(i + n - 1) : L[j] = x
    <2> TAKE x \in D
    <2>1. x - L[i] \in 0..(n - 1) /\ i + (x - L[i]) \in i..(i + n - 1) /\ L[i] + (x - L[i]) = x
      BY <1>a DEF Span
    <2> QED BY <1>b, <2>1
  <1> HIDE DEF D
  <1>0. Len(L) \in Nat /\ L \in Seq(Nat) /\ (\A j \in 1..Len(L) : L[j] \in Nat) /\ i + n - 1 <= Len(L)
    BY <1>a, <1>c
  <1>1. A \in Seq(Nat) /\ Len(A) = i - 1 /\ \A j \in 1..(i - 1) : A[j] = L[j]
    <2>1. \A j \in 1..(i - 1) : L[j] \in Nat BY <1>0
    <2>2. i - 1 \in Int /\ 1 \in Int BY <1>0
    <2>3. /\ A \in Seq(Nat) /\ Len(A) = IF 1 <= i - 1 THEN i - 1 - 1 + 1 ELSE 0
          /\ \A j \in 1..(i - 1 - 1 + 1) : A[j] = L[1 + j - 1]
      BY <2>1, <2>2, SubSeqProperties
    <2> HIDE DEF A
    <2> QED BY <1>0, <2>3
  <1>2. /\ B \in Seq(Nat) /\ Len(B) = Len(L) - (i + n) + 1
        /\ \A j \in 1..(Len(L) - (i + n) + 1) : B[j] = L[i + n + j - 1]
    <2>1. \A j \in (i + n)..Len(L) : L[j] \in Nat BY <1>0
    <2>2. i + n \in Int /\ Len(L) \in Int BY <1>0
    <2>3. /\ B \in Seq(Nat) /\ Len(B) = IF i + n <= Len(L) THEN Len(L) - (i + n) + 1 ELSE 0
          /\ \A j \in 1..(Len(L) - (i + n) + 1) : B[j] = L[i + n + j - 1]
      BY <2>1, <2>2, SubSeqProperties
    <2> HIDE DEF B
    <2>4. \A l, k \in Nat : k - 1 <= l => (IF k <= l THEN l - k + 1 ELSE 0) = l - k + 1 OBVIOUS
    <2> DEFINE k == i + n
    <2>a. k \in Nat /\ k - 1 <= Len(L) BY <1>0
    <2>b. Len(B) = IF k <= Len(L) THEN Len(L) - k + 1 ELSE 0 BY <2>3
    <2>c. Len(B) = Len(L) - k + 1
      <3> HIDE DEF k
      <3> QED BY <1>0, <2>a, <2>b, <2>4
    <2>5. Len(B) = Len(L) - (i + n) + 1 BY <2>c
    <2> QED BY <2>3, <2>5
  <1> HIDE DEF A, B
  <1>3. /\ K \in Seq(Nat) /\ Len(K) = Len(A) + Len(B)
        /\ \A j \in 1..(Len(A) + Len(B)) : K[j] = IF j <= Len(A) THEN A[j] ELSE B[j - Len(A)]
    BY <1>1, <1>2, ConcatProperties
  <1> HIDE DEF K
  <1>4. Len(K) = Len(L) - n BY <1>0, <1>1, <1>2, <1>3
  <1>5. \A j \in 1..Len(K) : K[j] = IF j < i THEN L[j] ELSE L[j + n]
    <2> TAKE j \in 1..Len(K)
    <2>1. CASE j < i BY <1>0, <1>1, <1>2, <1>3, <2>1
    <2>2. CASE ~(j < i)
      <3>1. j - (i - 1) \in 1..(Len(L) - (i + n) + 1) BY <1>0, <1>4, <2>2
      <3>2. K[j] = B[j - (i - 1)] BY <1>0, <1>1, <1>2, <1>3, <2>2
      <3>3. B[j - (i - 1)] = L[i + n + (j - (i - 1)) - 1] BY <1>2, <3>1
      <3>4. i + n + (j - (i - 1)) - 1 = j + n BY <1>0
      <3> QED BY <2>2, <3>2, <3>3, <3>4
    <2> QED BY <2>1, <2>2
  <1>6. Sorted(K)
    <2> SUFFICES ASSUME NEW j \in 1..Len(K), NEW k \in 1..Len(K), j < k PROVE K[j] < K[k]
      BY <1>3 DEF Sorted
    <2> DEFINE x == IF j < i THEN j ELSE j + n
               y == IF k < i THEN k ELSE k + n
    <2>1. x \in 1..Len(L) /\ y \in 1..Len(L) /\ x < y BY <1>0, <1>4
    <2>2. K[j] = L[x] /\ K[k] = L[y] BY <1>5
    <2> QED BY <2>1, <2>2 DEF Sorted
  <1>7. Set(K) = Set(L) \ D
    <2>1. ASSUME NEW j \in 1..Len(K) PROVE K[j] \in Set(L) /\ K[j] \notin D
      <3> DEFINE x == IF j < i THEN j ELSE j + n
      <3>1. x \in 1..Len(L) /\ K[j] = L[x] /\ x \notin i..(i + n - 1) BY <1>0, <1>4, <1>5
      <3> HIDE DEF x
      <3>2. ASSUME NEW k \in i..(i + n - 1), L[k] = L[x] PROVE FALSE
        <4>1. k \in 1..Len(L) BY <1>0
        <4>2. k = x BY <3>1, <3>2, <4>1, SortedOrder
        <4> QED BY <3>1, <4>2
      <3>3. L[x] \notin D BY <1>e, <3>2
      <3> QED BY <3>1, <3>3 DEF Set
    <2>2. ASSUME NEW x \in 1..Len(L), x \notin i..(i + n - 1) PROVE L[x] \in Set(K)
      <3> DEFINE j == IF x < i THEN x ELSE x - n
      <3>1. j \in 1..Len(K) /\ (IF j < i THEN j ELSE j + n) = x BY <1>0, <1>4, <2>2
      <3> HIDE DEF j
      <3>2. K[j] = L[x] BY <1>5, <3>1
      <3> QED BY <3>1, <3>2 DEF Set
    <2>3. ASSUME NEW p \in Set(L) \ D PROVE p \in Set(K)
      <3>1. PICK x \in 1..Len(L) : p = L[x] BY DEF Set
      <3>2. x \notin i..(i + n - 1) BY <1>d, <3>1
      <3> QED BY <2>2, <3>1, <3>2
    <2>4. ASSUME NEW p \in Set(K) PROVE p \in Set(L) \ D BY <2>1 DEF Set
    <2> QED BY <2>3, <2>4
  <1> QED BY <1>4, <1>6, <1>7 DEF K, A, B, D, Removed

\* n pages from base fit in before position i.
Between(L, i, base, n) ==
  /\ \A j \in 1..Len(L) : j < i => L[j] < base
  /\ \A j \in 1..Len(L) : j >= i => L[j] >= base + n

\* Linking n pages from base into a list.
LEMMA InsertRun ==
  ASSUME NEW L, Sorted(L), NEW i \in 1..(Len(L) + 1), NEW base \in Nat, NEW n \in Nat,
         Between(L, i, base, n)
  PROVE  /\ Sorted(Inserted(L, i, base, n)) /\ Len(Inserted(L, i, base, n)) = Len(L) + n
         /\ Set(Inserted(L, i, base, n)) = Set(L) \cup Span(base, n)
  <1> DEFINE A == SubSeq(L, 1, i - 1)
             M == [k \in 1..n |-> base + k - 1]
             B == SubSeq(L, i, Len(L))
             AM == A \o M
             K == AM \o B
  <1>0. Len(L) \in Nat /\ L \in Seq(Nat) /\ \A j \in 1..Len(L) : L[j] \in Nat BY DEF Sorted
  <1>a. /\ \A j \in 1..Len(L) : j < i => L[j] < base
        /\ \A j \in 1..Len(L) : j >= i => L[j] >= base + n
    BY DEF Between
  <1>1. A \in Seq(Nat) /\ Len(A) = i - 1 /\ \A j \in 1..(i - 1) : A[j] = L[j]
    <2>1. \A j \in 1..(i - 1) : L[j] \in Nat BY <1>0
    <2>2. i - 1 \in Int /\ 1 \in Int BY <1>0
    <2>3. /\ A \in Seq(Nat) /\ Len(A) = IF 1 <= i - 1 THEN i - 1 - 1 + 1 ELSE 0
          /\ \A j \in 1..(i - 1 - 1 + 1) : A[j] = L[1 + j - 1]
      BY <2>1, <2>2, SubSeqProperties
    <2> HIDE DEF A
    <2> QED BY <1>0, <2>3
  <1>2. B \in Seq(Nat) /\ Len(B) = Len(L) - i + 1 /\ \A j \in 1..(Len(L) - i + 1) : B[j] = L[i + j - 1]
    <2>1. \A j \in i..Len(L) : L[j] \in Nat BY <1>0
    <2>2. i \in Int /\ Len(L) \in Int BY <1>0
    <2>3. /\ B \in Seq(Nat) /\ Len(B) = IF i <= Len(L) THEN Len(L) - i + 1 ELSE 0
          /\ \A j \in 1..(Len(L) - i + 1) : B[j] = L[i + j - 1]
      BY <2>1, <2>2, SubSeqProperties
    <2> HIDE DEF B
    <2>4. \A l, k \in Nat : k - 1 <= l => (IF k <= l THEN l - k + 1 ELSE 0) = l - k + 1 OBVIOUS
    <2>5. Len(B) = Len(L) - i + 1 BY <1>0, <2>3, <2>4
    <2> QED BY <2>3, <2>5
  <1>3. M \in Seq(Nat) /\ Len(M) = n /\ \A j \in 1..n : M[j] = base + j - 1
    <2>1. \A j \in 1..n : base + j - 1 \in Nat OBVIOUS
    <2>2. M \in [1..n -> Nat] BY <2>1
    <2>3. M \in Seq(Nat) BY <2>2, SeqDef
    <2>4. Len(M) = n BY <2>2, <2>3, LenProperties
    <2> QED BY <2>3, <2>4
  <1> HIDE DEF A, B, M
  <1>4. /\ AM \in Seq(Nat) /\ Len(AM) = Len(A) + Len(M)
        /\ \A j \in 1..(Len(A) + Len(M)) : AM[j] = IF j <= Len(A) THEN A[j] ELSE M[j - Len(A)]
    BY <1>1, <1>3, ConcatProperties
  <1> HIDE DEF AM
  <1>5. /\ K \in Seq(Nat) /\ Len(K) = Len(AM) + Len(B)
        /\ \A j \in 1..(Len(AM) + Len(B)) : K[j] = IF j <= Len(AM) THEN AM[j] ELSE B[j - Len(AM)]
    <2>1. AM \in Seq(Nat) /\ B \in Seq(Nat) BY <1>2, <1>4
    <2> QED BY <2>1, ConcatProperties
  <1> HIDE DEF K
  <1>6. Len(AM) = i - 1 + n /\ Len(K) = Len(L) + n BY <1>0, <1>1, <1>2, <1>3, <1>4, <1>5
  <1>7. ASSUME NEW j \in 1..Len(K)
        PROVE  /\ j < i => K[j] = L[j]
               /\ j >= i /\ j < i + n => K[j] = base + (j - i)
               /\ j >= i + n => K[j] = L[j - n]
    <2>1. CASE j < i
      <3>1. j \in 1..(i - 1) /\ j <= Len(AM) /\ j <= Len(A) BY <1>0, <1>1, <1>6, <2>1
      <3>2. K[j] = AM[j] BY <1>5, <1>6, <3>1
      <3>3. AM[j] = A[j] BY <1>1, <1>3, <1>4, <3>1
      <3>4. ~(j >= i) /\ ~(j >= i + n) BY <1>0, <2>1
      <3> QED BY <1>1, <3>1, <3>2, <3>3, <3>4
    <2>2. CASE j >= i /\ j < i + n
      <3>1. j - (i - 1) \in 1..n /\ j <= Len(AM) /\ ~(j <= Len(A)) BY <1>0, <1>1, <1>6, <2>2
      <3>2. K[j] = AM[j] BY <1>5, <1>6, <3>1
      <3>3. AM[j] = M[j - (i - 1)] BY <1>0, <1>1, <1>3, <1>4, <1>6, <3>1
      <3>4. M[j - (i - 1)] = base + (j - (i - 1)) - 1 BY <1>3, <3>1
      <3>5. base + (j - (i - 1)) - 1 = base + (j - i) BY <1>0
      <3>6. ~(j < i) /\ ~(j >= i + n) BY <1>0, <2>2
      <3> QED BY <3>2, <3>3, <3>4, <3>5, <3>6
    <2>3. CASE j >= i + n
      <3>1. j - (i - 1 + n) \in 1..(Len(L) - i + 1) /\ ~(j <= Len(AM)) BY <1>0, <1>6, <2>3
      <3>2. K[j] = B[j - (i - 1 + n)] BY <1>5, <1>6, <3>1
      <3>3. B[j - (i - 1 + n)] = L[i + (j - (i - 1 + n)) - 1] BY <1>2, <3>1
      <3>4. i + (j - (i - 1 + n)) - 1 = j - n BY <1>0
      <3>5. ~(j < i) /\ ~(j < i + n) BY <1>0, <2>3
      <3> QED BY <3>2, <3>3, <3>4, <3>5
    <2> QED BY <1>0, <2>1, <2>2, <2>3
  <1>8. Sorted(K)
    <2> SUFFICES ASSUME NEW j \in 1..Len(K), NEW k \in 1..Len(K), j < k PROVE K[j] < K[k]
      BY <1>5 DEF Sorted
    <2>0. j \in Nat /\ k \in Nat /\ i \in Nat BY <1>0, <1>6
    <2>1. CASE k < i
      <3>1. j \in 1..Len(L) /\ k \in 1..Len(L) /\ j < i BY <1>0, <2>0, <2>1
      <3> QED BY <1>7, <2>1, <3>1 DEF Sorted
    <2>2. CASE j < i /\ k >= i /\ k < i + n
      <3>1. j \in 1..Len(L) BY <1>0, <2>0, <2>2
      <3>2. K[j] = L[j] /\ L[j] < base /\ L[j] \in Nat BY <1>0, <1>a, <1>7, <2>2, <3>1
      <3>3. K[k] = base + (k - i) BY <1>7, <2>2
      <3> QED BY <2>0, <2>2, <3>2, <3>3
    <2>3. CASE j < i /\ k >= i + n
      <3>1. j \in 1..Len(L) /\ k - n \in 1..Len(L) /\ j < k - n BY <1>0, <1>6, <2>0, <2>3
      <3> QED BY <1>7, <2>3, <3>1 DEF Sorted
    <2>4. CASE j >= i /\ k < i + n
      <3>1. j < i + n /\ k >= i BY <2>0, <2>4
      <3>2. K[j] = base + (j - i) /\ K[k] = base + (k - i) BY <1>7, <2>4, <3>1
      <3> QED BY <2>0, <3>2
    <2>5. CASE j >= i /\ j < i + n /\ k >= i + n
      <3>1. k - n \in 1..Len(L) /\ k - n >= i BY <1>0, <1>6, <2>0, <2>5
      <3>2. K[k] = L[k - n] /\ L[k - n] >= base + n /\ L[k - n] \in Nat BY <1>0, <1>a, <1>7, <2>5, <3>1
      <3>3. K[j] = base + (j - i) BY <1>7, <2>5
      <3> QED BY <2>0, <2>5, <3>2, <3>3
    <2>6. CASE j >= i + n
      <3>1. j - n \in 1..Len(L) /\ k - n \in 1..Len(L) /\ j - n < k - n /\ k >= i + n BY <1>0, <1>6, <2>0, <2>6
      <3> QED BY <1>7, <2>6, <3>1 DEF Sorted
    <2> QED BY <2>0, <2>1, <2>2, <2>3, <2>4, <2>5, <2>6
  <1>9. Set(K) = Set(L) \cup Span(base, n)
    <2>1. ASSUME NEW j \in 1..Len(K) PROVE K[j] \in Set(L) \cup Span(base, n)
      <3>0. j \in Nat /\ i \in Nat BY <1>0, <1>6
      <3>1. CASE j < i
        <4>1. j \in 1..Len(L) BY <1>0, <3>0, <3>1
        <4> QED BY <1>7, <3>1, <4>1 DEF Set
      <3>2. CASE j >= i /\ j < i + n
        <4>1. K[j] = base + (j - i) BY <1>7, <3>2
        <4> QED BY <3>0, <3>2, <4>1 DEF Span
      <3>3. CASE j >= i + n
        <4>1. j - n \in 1..Len(L) BY <1>0, <1>6, <3>0, <3>3
        <4> QED BY <1>7, <3>3, <4>1 DEF Set
      <3> QED BY <3>0, <3>1, <3>2, <3>3
    <2>2. ASSUME NEW x \in 1..Len(L) PROVE L[x] \in Set(K)
      <3>1. CASE x < i
        <4>1. x \in 1..Len(K) BY <1>0, <1>6
        <4> QED BY <1>7, <3>1, <4>1 DEF Set
      <3>2. CASE x >= i
        <4>1. x + n \in 1..Len(K) /\ x + n >= i + n /\ x + n - n = x BY <1>0, <1>6, <3>2
        <4> QED BY <1>7, <4>1 DEF Set
      <3> QED BY <1>0, <3>1, <3>2
    <2>3. ASSUME NEW p \in Span(base, n) PROVE p \in Set(K)
      <3> DEFINE j == p - base + i
      <3>1. p \in Nat /\ j \in 1..Len(K) /\ j >= i /\ j < i + n /\ base + (j - i) = p BY <1>0, <1>6 DEF Span
      <3> HIDE DEF j
      <3>2. K[j] = p BY <1>7, <3>1
      <3> QED BY <3>1, <3>2 DEF Set
    <2> QED BY <2>1, <2>2, <2>3 DEF Set
  <1> QED BY <1>6, <1>8, <1>9 DEF K, AM, A, B, M, Inserted

-----------------------------------------------------------------------------
\* Sorted and maximal blocks, as in BlocksAreMaximal.
Blocks(L, prop) ==
  /\ Sorted(L) /\ Set(L) \subseteq Memory /\ prop \in [Memory -> Nat]
  /\ \A p \in Set(L) : prop[p] = IF p - 1 \in Set(L) THEN 0 ELSE RunLength(Set(L), p)

\* What the fields tell a scan: a page inside a block has 0, a head has the size of its block,
\* and the page behind the block is not free.
LEMMA BlockFacts ==
  ASSUME NEW L, NEW prop, Blocks(L, prop)
  PROVE  /\ Set(L) \subseteq Nat /\ IsFiniteSet(Set(L)) /\ Len(L) \in Nat
         /\ \A j \in 1..Len(L) : L[j] \in Set(L) /\ L[j] \in Nat
         /\ \A p \in Set(L) : p - 1 \in Set(L) => prop[p] = 0
         /\ \A p \in Set(L) : p - 1 \notin Set(L) =>
              /\ prop[p] \in Nat \ {0} /\ Span(p, prop[p]) \subseteq Set(L) /\ p + prop[p] \notin Set(L)
  <1>1. Sorted(L) /\ Set(L) \subseteq Nat /\ IsFiniteSet(Set(L)) BY CardList, PageAssumption DEF Blocks
  <1>2. Len(L) \in Nat /\ \A j \in 1..Len(L) : L[j] \in Set(L) /\ L[j] \in Nat BY <1>1 DEF Sorted, Set
  <1>3. ASSUME NEW p \in Set(L), p - 1 \notin Set(L)
        PROVE  prop[p] \in Nat \ {0} /\ Span(p, prop[p]) \subseteq Set(L) /\ p + prop[p] \notin Set(L)
    <2>1. p \in Nat /\ prop[p] = RunLength(Set(L), p) BY <1>1, <1>3 DEF Blocks
    <2>2. prop[p] \in Nat /\ Span(p, prop[p]) \subseteq Set(L) /\ p + prop[p] \notin Set(L)
      BY <1>1, <2>1, RunLengthHas
    <2>3. prop[p] # 0 BY <2>1, <2>2
    <2> QED BY <2>2, <2>3
  <1> QED BY <1>1, <1>2, <1>3 DEF Blocks

\* A page whose field is right in a set of free pages.
LEMMA FieldIs ==
  ASSUME NEW F, F \subseteq Nat, IsFiniteSet(F), NEW p \in F, NEW r \in Nat,
         \/ p - 1 \in F /\ r = 0
         \/ p - 1 \notin F /\ Span(p, r) \subseteq F /\ p + r \notin F
  PROVE  r = IF p - 1 \in F THEN 0 ELSE RunLength(F, p)
  BY RunLengthIs

\* Taking the first n pages of the block at position i.
LEMMA TakenBlock ==
  ASSUME Blocks(free_list, property), NEW n \in Nat \ {0}, NEW i \in 1..Len(free_list),
         property[free_list[i]] >= n
  PROVE  LET L == free_list
             b == L[i]
             K == Removed(L, i, n)
         IN  /\ b \in Nat /\ Span(b, n) \subseteq Set(L) /\ Len(K) = Len(L) - n /\ Set(K) = Set(L) \ Span(b, n)
             /\ i + n - 1 <= Len(L) /\ {L[j] : j \in i..(i + n - 1)} = Span(b, n)
             /\ b - 1 \notin Set(L)
             /\ \A p \in (b + 1)..(b + n - 1) : property[p] = 0
             /\ Blocks(K, Split(i, n))
             /\ \A p \in Memory \ Set(K) : Split(i, n)[p] = property[p]
  <1> DEFINE L == free_list
             F == Set(L)
             b == L[i]
             r == property[b]
             K == Removed(L, i, n)
             S == Span(b, n)
             prop == Split(i, n)
  <1>0. Sorted(L) /\ F \subseteq Memory /\ property \in [Memory -> Nat] BY DEF Blocks
  <1>1. F \subseteq Nat /\ IsFiniteSet(F) /\ Len(L) \in Nat /\ b \in F /\ b \in Nat BY BlockFacts
  <1>2. b - 1 \notin F BY <1>1, BlockFacts
  <1>3. r \in Nat \ {0} /\ Span(b, r) \subseteq F /\ b + r \notin F BY <1>1, <1>2, BlockFacts
  <1>4. r >= n OBVIOUS
  <1>5. \A k \in 0..(r - 1) : i + k \in 1..Len(L) /\ L[i + k] = b + k BY <1>0, <1>3, Consecutive
  <1> HIDE DEF r
  <1>6. S \subseteq F BY <1>1, <1>3, <1>4 DEF Span
  <1>7. i + n - 1 <= Len(L)
    <2>1. n - 1 \in 0..(r - 1) BY <1>3, <1>4
    <2>2. i + (n - 1) \in 1..Len(L) BY <1>5, <2>1
    <2> QED BY <2>2, <1>1
  <1>8. {L[j] : j \in i..(i + n - 1)} = S
    <2>1. ASSUME NEW j \in i..(i + n - 1) PROVE L[j] \in S
      <3>1. j - i \in 0..(r - 1) /\ i + (j - i) = j /\ j - i < n /\ j - i >= 0 BY <1>1, <1>3, <1>4
      <3>2. L[j] = b + (j - i) BY <1>5, <3>1
      <3> QED BY <1>1, <3>1, <3>2 DEF Span
    <2>2. ASSUME NEW p \in S PROVE \E j \in i..(i + n - 1) : L[j] = p
      <3>1. p - b \in 0..(r - 1) /\ i + (p - b) \in i..(i + n - 1) /\ b + (p - b) = p
        BY <1>1, <1>3, <1>4 DEF Span
      <3> QED BY <1>5, <3>1
    <2> QED BY <2>1, <2>2
  <1>9. Sorted(K) /\ Len(K) = Len(L) - n /\ Set(K) = F \ S
    <2>1. n \in Nat /\ i \in 1..Len(L) /\ Sorted(L) BY <1>0
    <2> HIDE DEF L
    <2> QED BY <1>6, <2>1, RemoveRun
  <1> HIDE DEF K
  <1>10. \A p \in (b + 1)..(b + n - 1) : property[p] = 0
    <2> TAKE p \in (b + 1)..(b + n - 1)
    <2>1. p \in S /\ p - 1 \in S BY <1>1 DEF Span
    <2> QED BY <1>6, <2>1, BlockFacts
  <1>11. r > n => b + n \in F /\ L[i + n] = b + n
    <2> SUFFICES ASSUME r > n PROVE b + n \in F /\ L[i + n] = b + n OBVIOUS
    <2>1. n \in 0..(r - 1) BY <1>3
    <2>2. L[i + n] = b + n BY <1>5, <2>1
    <2>3. b + n \in Span(b, r) BY <1>1, <1>3 DEF Span
    <2> QED BY <1>3, <2>2, <2>3
  <1>12. prop = IF r > n THEN [property EXCEPT ![b + n] = r - n] ELSE property
    BY <1>11 DEF Split, r
  <1> HIDE DEF prop
  <1>13. prop \in [Memory -> Nat]
    <2>1. CASE r > n
      <3>1. r - n \in Nat BY <1>3, <2>1
      <3> QED BY <1>0, <1>12, <2>1, <3>1
    <2>2. CASE ~(r > n) BY <1>0, <1>12, <2>2
    <2> QED BY <2>1, <2>2
  <1>14. b + n \in F => r > n /\ prop[b + n] = r - n
    <2> SUFFICES ASSUME b + n \in F PROVE r > n /\ prop[b + n] = r - n OBVIOUS
    <2>1. r # n BY <1>3
    <2>2. r > n BY <1>3, <1>4, <2>1
    <2> QED BY <1>0, <1>12, <2>2
  <1>15. \A p \in Memory : p # b + n => prop[p] = property[p] BY <1>0, <1>12
  <1>16. ASSUME NEW p \in F \ S
         PROVE  prop[p] = IF p - 1 \in F \ S THEN 0 ELSE RunLength(F \ S, p)
    <2>0. p \in Nat /\ p \in F /\ p \in Memory /\ F \ S \subseteq Nat /\ IsFiniteSet(F \ S) /\ prop[p] \in Nat
      BY <1>0, <1>1, <1>13, FS_Subset
    <2>1. CASE p = b + n
      <3>1. p - 1 \in S BY <1>1, <2>1 DEF Span
      <3>2. r > n /\ prop[p] = r - n BY <1>14, <2>1
      <3>3. Span(p, r - n) \subseteq F \ S BY <1>1, <1>3, <2>1, <3>2 DEF Span
      <3>4. p + (r - n) \notin F BY <1>1, <1>3, <2>1, <3>2
      <3> QED BY <2>0, <3>1, <3>2, <3>3, <3>4, FieldIs
    <2>2. CASE p # b + n
      <3>1. prop[p] = property[p] BY <1>15, <2>0, <2>2
      <3>2. p - 1 \notin S BY <1>1, <2>0, <2>2 DEF Span
      <3>3. CASE p - 1 \in F
        <4>1. prop[p] = 0 BY <2>0, <3>1, <3>3, BlockFacts
        <4> QED BY <2>0, <3>2, <3>3, <4>1, FieldIs
      <3>4. CASE p - 1 \notin F
        <4> DEFINE q == property[p]
        <4>1. q \in Nat \ {0} /\ Span(p, q) \subseteq F /\ p + q \notin F BY <2>0, <3>4, BlockFacts
        <4> HIDE DEF q
        <4>2. ASSUME NEW x \in Span(p, q), x \in S PROVE FALSE
          <5>1. x \in Nat /\ x >= p /\ x < p + q /\ x >= b /\ x < b + n BY <1>1, <2>0, <4>1, <4>2 DEF Span
          <5>2. CASE p < b
            <6>1. b - 1 \in Span(p, q) BY <1>1, <2>0, <4>1, <5>1, <5>2 DEF Span
            <6> QED BY <1>2, <4>1, <6>1
          <5>3. CASE p >= b
            <6>1. p \in S BY <1>1, <2>0, <5>1, <5>3 DEF Span
            <6> QED BY <6>1
          <5> QED BY <1>1, <2>0, <5>2, <5>3
        <4>3. Span(p, q) \subseteq F \ S BY <4>1, <4>2
        <4>4. prop[p] = q BY <3>1 DEF q
        <4> QED BY <2>0, <3>4, <4>1, <4>3, <4>4, FieldIs
      <3> QED BY <3>3, <3>4
    <2> QED BY <2>1, <2>2
  <1>17. Blocks(K, prop) BY <1>0, <1>9, <1>13, <1>16 DEF Blocks
  <1>18. \A p \in Memory \ Set(K) : prop[p] = property[p]
    <2> TAKE p \in Memory \ Set(K)
    <2>1. CASE p = b + n
      <3>1. p \notin S BY <1>1, <2>1 DEF Span
      <3>2. p \notin F BY <1>9, <3>1
      <3>3. ~(r > n) BY <1>11, <2>1, <3>2
      <3> QED BY <1>12, <3>3
    <2>2. CASE p # b + n BY <1>15, <2>2
    <2> QED BY <2>1, <2>2
  <1> QED BY <1>1, <1>2, <1>6, <1>7, <1>8, <1>9, <1>10, <1>17, <1>18 DEF K, prop

\* Where default_free_pages links a block that is not free.
LEMMA PositionIs ==
  ASSUME NEW prop, Blocks(free_list, prop), NEW base \in Nat, NEW n \in Nat \ {0},
         Span(base, n) \cap Set(free_list) = {}
  PROVE  LET L == free_list
             i == Position(base)
         IN  /\ i \in 1..(Len(L) + 1)
             /\ \A j \in 1..Len(L) : j < i => L[j] < base
             /\ \A j \in 1..Len(L) : j >= i => L[j] >= base + n
             /\ Between(L, i, base, n)
             /\ base + n \in Set(L) <=> (i <= Len(L) /\ L[i] = base + n)
             /\ base - 1 \in Set(L) <=> (i > 1 /\ L[i - 1] = base - 1)
  <1> DEFINE L == free_list
             T == {j \in DOMAIN L : L[j] > base} \cup {Len(L) + 1}
             i == Position(base)
  <1>0. /\ Sorted(L) /\ Len(L) \in Nat /\ DOMAIN L = 1..Len(L)
        /\ \A j \in 1..Len(L) : L[j] \in Set(L) /\ L[j] \in Nat
    BY BlockFacts, LenProperties DEF Blocks, Sorted
  <1>1. T \subseteq Nat /\ T # {} BY <1>0
  <1>2. i \in T /\ \A t \in T : i <= t
    <2> HIDE DEF T
    <2>1. Min(T) \in T /\ \A t \in T : Min(T) <= t BY <1>1, MinOf
    <2> QED BY <2>1 DEF Position, T
  <1> HIDE DEF i
  <1>3. i \in 1..(Len(L) + 1) BY <1>0, <1>2
  <1>4. \A j \in 1..Len(L) : L[j] \notin Span(base, n) BY <1>0
  <1>5. ASSUME NEW j \in 1..Len(L), j < i PROVE L[j] < base
    <2>1. ~(L[j] > base) BY <1>0, <1>2, <1>3, <1>5
    <2>2. L[j] # base BY <1>4 DEF Span
    <2> QED BY <1>0, <2>1, <2>2
  <1>6. ASSUME NEW j \in 1..Len(L), j >= i PROVE L[j] >= base + n
    <2>1. i \in 1..Len(L) BY <1>0, <1>3, <1>6
    <2>2. L[i] > base BY <1>0, <1>2, <2>1
    <2>3. L[j] > base
      <3>1. i = j \/ i < j BY <1>3, <1>6
      <3>2. i < j => L[i] < L[j] BY <1>0, <2>1, SortedOrder
      <3> QED BY <1>0, <2>1, <2>2, <3>1, <3>2
    <2> QED BY <1>0, <1>4, <2>3 DEF Span
  <1>7. ASSUME base + n \in Set(L) PROVE i <= Len(L) /\ L[i] = base + n
    <2>1. PICK j \in 1..Len(L) : L[j] = base + n BY <1>7 DEF Set
    <2>2. j >= i BY <1>0, <1>3, <1>5, <2>1
    <2>3. i \in 1..Len(L) BY <1>0, <1>3, <2>2
    <2>4. L[i] >= base + n /\ L[i] \in Nat BY <1>0, <1>3, <1>6, <2>3
    <2>5. ~(i < j)
      <3> SUFFICES ASSUME i < j PROVE FALSE OBVIOUS
      <3>1. L[i] < L[j] BY <1>0, <2>3, SortedOrder
      <3> QED BY <2>1, <2>4, <3>1
    <2>6. i = j BY <1>3, <2>2, <2>5
    <2> QED BY <1>0, <2>1, <2>6
  <1>8. ASSUME base - 1 \in Set(L) PROVE i > 1 /\ L[i - 1] = base - 1
    <2>1. PICK j \in 1..Len(L) : L[j] = base - 1 BY <1>8 DEF Set
    <2>2. j < i BY <1>0, <1>3, <1>6, <2>1
    <2>3. i > 1 /\ i - 1 \in 1..Len(L) /\ i - 1 < i BY <1>0, <1>3, <2>2
    <2>4. L[i - 1] < base /\ L[i - 1] \in Nat BY <1>0, <1>5, <2>3
    <2>5. ~(j < i - 1)
      <3> SUFFICES ASSUME j < i - 1 PROVE FALSE OBVIOUS
      <3>1. L[j] < L[i - 1] BY <1>0, <2>3, SortedOrder
      <3> QED BY <2>1, <2>4, <3>1
    <2>6. i - 1 = j BY <1>3, <2>2, <2>5
    <2> QED BY <2>1, <2>3, <2>6
  <1>9. ASSUME i <= Len(L), L[i] = base + n PROVE base + n \in Set(L)
    <2>1. i \in 1..Len(L) BY <1>0, <1>3, <1>9
    <2> QED BY <1>0, <1>9, <2>1
  <1>10. ASSUME i > 1, L[i - 1] = base - 1 PROVE base - 1 \in Set(L)
    <2>1. i - 1 \in 1..Len(L) BY <1>0, <1>3, <1>10
    <2> QED BY <1>0, <1>10, <2>1
  <1>11. Between(L, i, base, n) BY <1>5, <1>6 DEF Between
  <1> QED BY <1>3, <1>5, <1>6, <1>7, <1>8, <1>9, <1>10, <1>11 DEF i

\* The head of the block that ends right before base, where the walk back stops.
LEMMA WalkBack ==
  ASSUME Blocks(free_list, property), NEW base \in Nat, NEW n \in Nat \ {0},
         Span(base, n) \cap Set(free_list) = {}, base - 1 \in Set(free_list),
         NEW prop, \A j \in 1..(Position(base) - 1) : prop[free_list[j]] = property[free_list[j]]
  PROVE  LET L == free_list
             heads == {j \in 1..(Position(base) - 1) : prop[L[j]] # 0}
             q == L[Max(heads)]
         IN  /\ heads # {} /\ q \in Set(L) /\ q - 1 \notin Set(L) /\ q < base
             /\ Span(q, base - q) \subseteq Set(L) /\ property[q] = base - q
  <1> DEFINE L == free_list
             F == Set(L)
             i == Position(base)
             heads == {j \in 1..(i - 1) : prop[L[j]] # 0}
             x == i - 1
  <1>0. /\ Sorted(L) /\ Len(L) \in Nat /\ F \subseteq Nat /\ IsFiniteSet(F)
        /\ \A j \in 1..Len(L) : L[j] \in F /\ L[j] \in Nat
    BY BlockFacts DEF Blocks
  <1>1. i \in 1..(Len(L) + 1) /\ i > 1 /\ L[i - 1] = base - 1 BY PositionIs
  <1>a. \A j \in 1..(i - 1) : prop[L[j]] = property[L[j]] OBVIOUS
  <1> HIDE DEF i
  <1>2. x \in 1..Len(L) /\ L[x] = base - 1 /\ x \in Nat BY <1>0, <1>1
  <1>3. PICK J \in 1..x : /\ L[J] - 1 \notin F
                          /\ \A j \in J..x : L[j] = L[J] + (j - J)
                          /\ \A j \in (J + 1)..x : L[j] - 1 \in F
    BY <1>0, <1>2, RunHead
  <1>b. J \in Nat /\ J \in 1..Len(L) BY <1>0, <1>2
  <1>4. \A j \in 1..x : prop[L[j]] # 0 <=> L[j] - 1 \notin F
    <2> TAKE j \in 1..x
    <2>1. L[j] \in F BY <1>0, <1>2
    <2> QED BY <1>a, <2>1, BlockFacts
  <1>5. J \in heads /\ \A j \in heads : J >= j
    <2>1. J \in heads BY <1>3, <1>4
    <2>2. ASSUME NEW j \in heads, ~(J >= j) PROVE FALSE
      <3>1. j \in (J + 1)..x BY <1>2, <1>b, <2>2
      <3> QED BY <1>3, <1>4, <3>1
    <2> QED BY <2>1, <2>2
  <1>6. Max(heads) = J
    <2>1. heads \subseteq Nat /\ heads # {} /\ \A j \in heads : j <= x BY <1>1, <1>2, <1>5
    <2> HIDE DEF heads, x
    <2>2. Max(heads) \in heads /\ \A j \in heads : Max(heads) >= j BY <1>2, <2>1, MaxOf
    <2>3. Max(heads) \in Nat /\ Max(heads) >= J /\ J >= Max(heads) BY <1>5, <2>1, <2>2
    <2> QED BY <1>b, <2>3
  <1> DEFINE q == L[J]
  <1>7. q \in F /\ q \in Nat /\ q - 1 \notin F BY <1>0, <1>3, <1>b
  <1>8. base - 1 = q + (x - J)
    <2>1. x \in J..x BY <1>2, <1>b
    <2> QED BY <1>2, <1>3, <2>1
  <1> HIDE DEF q
  <1>9. q < base BY <1>2, <1>7, <1>8, <1>b
  <1>10. Span(q, base - q) \subseteq F
    <2> SUFFICES ASSUME NEW y \in Span(q, base - q) PROVE y \in F OBVIOUS
    <2>1. y \in Nat /\ y >= q /\ y <= base - 1 BY <1>7, <1>9 DEF Span
    <2> DEFINE j == J + (y - q)
    <2>2. j \in J..x /\ j - J = y - q /\ j \in 1..Len(L) BY <1>2, <1>7, <1>8, <1>b, <2>1
    <2> HIDE DEF j
    <2>3. L[j] = q + (y - q) BY <1>3, <2>2 DEF q
    <2>4. L[j] = y BY <1>7, <2>1, <2>3
    <2> QED BY <1>0, <2>2, <2>4
  <1>11. property[q] = base - q
    <2>1. property[q] \in Nat /\ Span(q, property[q]) \subseteq F /\ q + property[q] \notin F
      BY <1>7, BlockFacts
    <2> DEFINE r == property[q]
    <2>2. r \in Nat /\ Span(q, r) \subseteq F /\ q + r \notin F BY <2>1
    <2>3. base \notin F BY DEF Span
    <2> HIDE DEF r
    <2>4. ~(r > base - q) BY <1>7, <1>9, <2>2, <2>3 DEF Span
    <2>5. ~(r < base - q) BY <1>7, <1>9, <1>10, <2>2 DEF Span
    <2>6. r = base - q BY <1>7, <2>2, <2>4, <2>5
    <2> QED BY <2>6 DEF r
  <1>12. heads # {} BY <1>5
  <1>13. L[Max(heads)] = q BY <1>6 DEF q
  <1> HIDE DEF heads
  <1> QED BY <1>7, <1>9, <1>10, <1>11, <1>12, <1>13 DEF heads, i

\* Giving back a block that is not free: it is joined with its neighbours.
LEMMA FreedBlock ==
  ASSUME Blocks(free_list, property), NEW base \in Nat, NEW n \in Nat \ {0},
         Span(base, n) \subseteq Memory, Span(base, n) \cap Set(free_list) = {},
         \A p \in (base + 1)..(base + n - 1) : property[p] = 0
  PROVE  LET K == Linked(base, n, Position(base))
             J == JoinPrevious(JoinNext(base, n, Position(base)), base, Position(base))
         IN  /\ Blocks(K, J) /\ Len(K) = Len(free_list) + n /\ Set(K) = Set(free_list) \cup Span(base, n)
             /\ \A p \in Memory \ Set(K) : J[p] = property[p]
  <1> DEFINE L == free_list
             F == Set(L)
             i == Position(base)
             S == Span(base, n)
             G == F \cup S
             K == Inserted(L, i, base, n)
             one == JoinNext(base, n, i)
             two == JoinPrevious(one, base, i)
             m == IF base + n \in F THEN property[base + n] ELSE 0
  <1>0. /\ Sorted(L) /\ F \subseteq Memory /\ property \in [Memory -> Nat]
        /\ F \subseteq Nat /\ IsFiniteSet(F) /\ Len(L) \in Nat
    BY BlockFacts DEF Blocks
  <1>1. /\ i \in 1..(Len(L) + 1) /\ Between(L, i, base, n)
        /\ base + n \in F <=> (i <= Len(L) /\ L[i] = base + n)
        /\ base - 1 \in F <=> (i > 1 /\ L[i - 1] = base - 1)
    BY PositionIs
  <1>2. Sorted(K) /\ Len(K) = Len(L) + n /\ Set(K) = G
    <2>1. n \in Nat /\ base \in Nat OBVIOUS
    <2> HIDE DEF L, i
    <2> QED BY <1>0, <1>1, <2>1, InsertRun
  <1>3. Linked(base, n, i) = K BY DEF Linked, Inserted
  <1> HIDE DEF K
  <1>4. base \in S /\ base \in Memory /\ base + n - 1 \in S /\ base + n \notin S /\ base - 1 \notin S BY DEF Span
  <1>5. G \subseteq Memory /\ G \subseteq Nat /\ IsFiniteSet(G)
    <2>1. G \subseteq Memory BY <1>0
    <2> QED BY <2>1, PageAssumption, FS_Subset
  <1>6. m \in Nat /\ Span(base, n + m) \subseteq G /\ base + n + m \notin G
    <2>1. CASE base + n \in F
      <3>1. base + n - 1 \notin F BY <1>4
      <3> DEFINE r == property[base + n]
      <3>2. r \in Nat \ {0} /\ Span(base + n, r) \subseteq F /\ base + n + r \notin F BY <2>1, <3>1, BlockFacts
      <3>3. m = r BY <2>1
      <3> HIDE DEF r, m
      <3>4. Span(base, n + r) \subseteq G BY <3>2 DEF Span
      <3>5. base + n + r \notin S BY <3>2 DEF Span
      <3> QED BY <3>2, <3>3, <3>4, <3>5
    <2>2. CASE base + n \notin F
      <3>1. m = 0 BY <2>2
      <3> HIDE DEF m
      <3>2. Span(base, n + 0) \subseteq G /\ base + n + 0 \notin G BY <1>4, <2>2 DEF Span
      <3> QED BY <3>1, <3>2
    <2> QED BY <2>1, <2>2
  <1>7. /\ one \in [Memory -> Nat] /\ one[base] = n + m
        /\ base + n \in F => one[base + n] = 0
        /\ \A p \in Memory : p # base /\ p # base + n => one[p] = property[p]
        /\ base + n \notin F => \A p \in Memory : p # base => one[p] = property[p]
    <2>1. CASE base + n \in F
      <3>1. one = [property EXCEPT ![base] = n + property[base + n], ![base + n] = 0] BY <1>1, <2>1 DEF JoinNext
      <3>2. m = property[base + n] /\ n + m \in Nat BY <1>6, <2>1
      <3>3. base + n # base /\ base + n \in Memory BY <1>0, <2>1
      <3> HIDE DEF one, m
      <3> QED BY <1>0, <1>4, <2>1, <3>1, <3>2, <3>3
    <2>2. CASE base + n \notin F
      <3>1. one = [property EXCEPT ![base] = n] BY <1>1, <2>2 DEF JoinNext
      <3>2. n + m = n BY <2>2
      <3> HIDE DEF one, m
      <3> QED BY <1>0, <1>4, <2>2, <3>1, <3>2
    <2> QED BY <2>1, <2>2
  <1>8. \A j \in 1..(i - 1) : one[L[j]] = property[L[j]]
    <2> TAKE j \in 1..(i - 1)
    <2>1. j \in 1..Len(L) /\ j < i BY <1>0, <1>1
    <2>2. L[j] < base /\ L[j] \in F /\ L[j] \in Nat BY <1>1, <2>1, BlockFacts DEF Between
    <2>3. L[j] # base /\ L[j] # base + n /\ L[j] \in Memory BY <1>0, <2>2
    <2> HIDE DEF one
    <2> QED BY <1>7, <2>3
  <1> DEFINE heads == {j \in 1..(i - 1) : one[L[j]] # 0}
             q == L[Max(heads)]
  <1>9. ASSUME base - 1 \in F
        PROVE  /\ heads # {} /\ q \in F /\ q - 1 \notin F /\ q < base
               /\ Span(q, base - q) \subseteq F /\ property[q] = base - q
    <2> HIDE DEF one
    <2> QED BY <1>8, <1>9, WalkBack
  <1>10. two = IF base - 1 \in F THEN [one EXCEPT ![q] = @ + one[base], ![base] = 0] ELSE one
    BY <1>1, <1>9 DEF JoinPrevious
  <1> HIDE DEF one, two, q, heads
  <1>11. ASSUME base - 1 \in F
         PROVE  /\ two \in [Memory -> Nat] /\ two[base] = 0 /\ two[q] = (base - q) + (n + m)
                /\ \A p \in Memory : p # base /\ p # q => two[p] = one[p]
    <2>1. two = [one EXCEPT ![q] = @ + one[base], ![base] = 0] BY <1>10, <1>11
    <2>2. q \in Memory /\ q \in Nat /\ q < base /\ q # base /\ q # base + n /\ property[q] = base - q BY <1>0, <1>9, <1>11
    <2>3. one[q] = base - q BY <1>7, <2>2
    <2>4. one[q] + one[base] = (base - q) + (n + m) /\ one[q] + one[base] \in Nat BY <1>4, <1>7, <2>2, <2>3
    <2> HIDE DEF m
    <2> QED BY <1>4, <1>7, <2>1, <2>2, <2>4
  <1>12. two \in [Memory -> Nat] BY <1>7, <1>10, <1>11
  <1> HIDE DEF m
  <1>13. \A p \in Memory : p # base /\ p # base + n /\ ~(base - 1 \in F /\ p = q) => two[p] = property[p]
    BY <1>7, <1>10, <1>11
  <1>14. \A p \in G : two[p] = IF p - 1 \in G THEN 0 ELSE RunLength(G, p)
    <2> TAKE p \in G
    <2>0. p \in Nat /\ p \in Memory /\ two[p] \in Nat BY <1>5, <1>12
    <2>1. CASE p = base
      <3>1. CASE base - 1 \in F BY <1>11, <2>1, <3>1
      <3>2. CASE base - 1 \notin F
        <4>1. p - 1 \notin G /\ two[p] = n + m BY <1>4, <1>7, <1>10, <2>1, <3>2
        <4>2. p + (n + m) = base + n + m BY <1>6, <2>1
        <4> QED BY <1>5, <1>6, <2>0, <2>1, <4>1, <4>2, FieldIs
      <3> QED BY <3>1, <3>2
    <2>2. CASE p \in S /\ p # base
      <3>1. p \in (base + 1)..(base + n - 1) /\ p # base + n /\ p - 1 \in S BY <2>0, <2>2 DEF Span
      <3>2. base - 1 \in F => p # q BY <1>0, <1>9, <3>1
      <3>3. two[p] = property[p] /\ property[p] = 0 BY <1>13, <2>0, <2>2, <3>1, <3>2
      <3> QED BY <3>1, <3>3
    <2>3. CASE p = base + n /\ p \in F
      <3>1. p - 1 \in S BY <1>4, <2>3
      <3>2. base - 1 \in F => p # q BY <1>0, <1>9, <2>3
      <3>3. two[p] = one[p] BY <1>10, <1>11, <2>0, <2>3, <3>2
      <3> QED BY <1>7, <2>3, <3>1, <3>3
    <2>4. CASE base - 1 \in F /\ p = q
      <3>1. q \in Nat /\ q - 1 \notin F /\ q < base /\ Span(q, base - q) \subseteq F BY <1>0, <1>9, <2>4
      <3>2. q - 1 \notin S BY <3>1 DEF Span
      <3>3. two[p] = (base - q) + (n + m) BY <1>11, <2>4
      <3> DEFINE r == (base - q) + (n + m)
      <3>4. r \in Nat /\ q + r = base + n + m BY <1>6, <3>1
      <3>5. Span(q, r) \subseteq G
        <4> SUFFICES ASSUME NEW x \in Span(q, r) PROVE x \in G OBVIOUS
        <4>1. x \in Nat /\ x >= q /\ x < base + n + m BY <1>6, <3>1, <3>4 DEF Span
        <4>2. x < base => x \in Span(q, base - q) BY <3>1, <4>1 DEF Span
        <4>3. x >= base => x \in Span(base, n + m) BY <1>6, <4>1 DEF Span
        <4> QED BY <1>6, <3>1, <4>1, <4>2, <4>3
      <3> HIDE DEF r
      <3>6. q - 1 \notin G /\ q + r \notin G BY <1>6, <3>1, <3>2, <3>4
      <3>7. two[p] = r BY <3>3 DEF r
      <3> QED BY <1>5, <2>4, <3>4, <3>5, <3>6, <3>7, FieldIs
    <2>5. CASE p \in F /\ p # base + n /\ ~(base - 1 \in F /\ p = q)
      <3>1. p \notin S BY <2>5
      <3>2. p - 1 \notin S BY <2>0, <2>5, <3>1 DEF Span
      <3>3. two[p] = property[p] BY <1>4, <1>13, <2>0, <2>5, <3>1
      <3>4. CASE p - 1 \in F
        <4>1. two[p] = 0 BY <2>5, <3>3, <3>4, BlockFacts
        <4> QED BY <3>4, <4>1
      <3>5. CASE p - 1 \notin F
        <4> DEFINE r == property[p]
        <4>1. r \in Nat \ {0} /\ Span(p, r) \subseteq F /\ p + r \notin F BY <2>5, <3>5, BlockFacts
        <4>2. two[p] = r BY <3>3
        <4> HIDE DEF r
        <4>3. ASSUME p + r \in S PROVE FALSE
          <5>1. p < base /\ base <= p + r BY <2>0, <3>1, <4>1, <4>3 DEF Span
          <5>2. base - 1 \in Span(p, r) BY <2>0, <4>1, <5>1 DEF Span
          <5>3. base - 1 \in F /\ p # q BY <2>5, <4>1, <5>2
          <5>4. q \in Nat /\ q - 1 \notin F /\ q < base /\ Span(q, base - q) \subseteq F BY <1>0, <1>9, <5>3
          <5>5. CASE p < q
            <6>1. q - 1 \in Span(p, r) BY <2>0, <4>1, <5>1, <5>4, <5>5 DEF Span
            <6> QED BY <4>1, <5>4, <6>1
          <5>6. CASE q < p
            <6>1. p - 1 \in Span(q, base - q) BY <2>0, <5>1, <5>4, <5>6 DEF Span
            <6> QED BY <3>5, <5>4, <6>1
          <5> QED BY <2>0, <5>3, <5>4, <5>5, <5>6
        <4>4. Span(p, r) \subseteq G /\ p + r \notin G /\ p - 1 \notin G BY <3>2, <3>5, <4>1, <4>3
        <4> QED BY <1>5, <2>0, <4>1, <4>2, <4>4, FieldIs
      <3> QED BY <3>4, <3>5
    <2> QED BY <2>1, <2>2, <2>3, <2>4, <2>5
  <1>15. Blocks(K, two)
    <2> HIDE DEF G
    <2> QED BY <1>2, <1>5, <1>12, <1>14 DEF Blocks
  <1>16. \A p \in Memory \ Set(K) : two[p] = property[p]
    <2> TAKE p \in Memory \ Set(K)
    <2>1. p \notin F /\ p # base BY <1>2, <1>4
    <2>2. base - 1 \in F => p # q BY <1>9, <2>1
    <2>3. two[p] = one[p] BY <1>10, <1>11, <2>1, <2>2
    <2>4. one[p] = property[p] BY <1>7, <2>1
    <2> QED BY <2>3, <2>4
  <1> QED BY <1>2, <1>3, <1>15, <1>16 DEF two, one

-----------------------------------------------------------------------------
\* The pages of the blocks in H.
Out(H) == UNION {Span(h[1], h[2]) : h \in H}

\* What callers hold: blocks of pages that are in use, without a field in the middle.
HeldOK(H, L, prop, res) ==
  /\ H \subseteq Nat \X (Nat \ {0})
  /\ Out(H) \subseteq Memory /\ Out(H) \subseteq res /\ Out(H) \cap Set(L) = {}
  /\ \A h \in H : \A p \in (h[1] + 1)..(h[1] + h[2] - 1) : prop[p] = 0
  /\ \A g, h \in H : g # h => Span(g[1], g[2]) \cap Span(h[1], h[2]) = {}

\* From the handover on: the list is sound, the blocks that callers hold are sound, and the
\* two make up the memory that is not kept or lost.
PageInv ==
  /\ Len(Checks) \in Nat /\ pc \in Nat /\ pc >= Len(Checks)
  /\ entry \in Nat /\ entry = Len(memmap)
  /\ pc = Len(Checks) => held = {}
  /\ Blocks(free_list, property) /\ nr_free = Len(free_list)
  /\ HeldOK(held, free_list, property, reserved)
  /\ Set(free_list) \cup Out(held) = known \ (kept \cup lost)

\* Free of PageAlloc is the set of entries.
LEMMA FreeIsSet ==
  ASSUME NEW S, free_list \in Seq(S)
  PROVE  Free = Set(free_list) /\ DOMAIN free_list = 1..Len(free_list) /\ Len(free_list) \in Nat
  <1>1. DOMAIN free_list = 1..Len(free_list) /\ Len(free_list) \in Nat BY LenProperties
  <1> QED BY <1>1 DEF Free, Set, ToSet

\* What the self-checks have to leave behind is enough for the invariant.
LEMMA HandoverInv ==
  Handover => PageInv
  <1> SUFFICES ASSUME Handover PROVE PageInv OBVIOUS
  <1>1. free_list \in Seq(Memory) /\ Memory \subseteq Nat BY PageAssumption DEF Handover
  <1>2. Free = Set(free_list) /\ DOMAIN free_list = 1..Len(free_list) /\ Len(free_list) \in Nat BY <1>1, FreeIsSet
  <1>3. free_list \in [1..Len(free_list) -> Memory] BY <1>1, LenProperties
  <1>4. Set(free_list) \subseteq Memory BY <1>3 DEF Set
  <1>5. free_list \in Seq(Nat)
    <2>1. free_list \in [1..Len(free_list) -> Nat] BY <1>1, <1>3
    <2> QED BY <1>2, <2>1, SeqDef
  <1>6. \A i, j \in 1..Len(free_list) : i < j => free_list[i] < free_list[j] BY <1>2 DEF Handover, BlocksAreMaximal
  <1>7. Sorted(free_list) BY <1>5, <1>6 DEF Sorted
  <1>8. \A p \in Set(free_list) : property[p] = IF p - 1 \in Set(free_list) THEN 0 ELSE RunLength(Set(free_list), p)
    BY <1>2 DEF Handover, BlocksAreMaximal
  <1>9. Blocks(free_list, property) BY <1>4, <1>7, <1>8 DEF Blocks, Handover
  <1>10. held = {} BY DEF Handover
  <1>11. Out(held) = {} BY <1>10 DEF Out
  <1>12. HeldOK(held, free_list, property, reserved) BY <1>10, <1>11 DEF HeldOK
  <1>13. Set(free_list) \cup Out(held) = known \ (kept \cup lost) BY <1>2, <1>11 DEF Handover
  <1> QED BY <1>9, <1>10, <1>12, <1>13 DEF PageInv, Handover

\* One block more, one block less.
LEMMA OutOne ==
  ASSUME NEW H, NEW b, NEW n
  PROVE  /\ Out(H \cup {<<b, n>>}) = Out(H) \cup Span(b, n)
         /\ \A h \in H : Span(h[1], h[2]) \subseteq Out(H)
         /\ \A h \in H : Out(H) = Out(H \ {h}) \cup Span(h[1], h[2])
  <1>1. <<b, n>>[1] = b /\ <<b, n>>[2] = n OBVIOUS
  <1>2. Out(H \cup {<<b, n>>}) = Out(H) \cup Span(b, n) BY <1>1 DEF Out
  <1>3. ASSUME NEW h \in H PROVE Span(h[1], h[2]) \subseteq Out(H) BY DEF Out
  <1>4. ASSUME NEW h \in H PROVE Out(H) = Out(H \ {h}) \cup Span(h[1], h[2]) BY DEF Out
  <1> QED BY <1>2, <1>3, <1>4

\* ... of disjoint ones.
LEMMA OutRest ==
  ASSUME NEW L, NEW prop, NEW res, NEW H, HeldOK(H, L, prop, res), NEW h \in H
  PROVE  /\ h[1] \in Nat /\ h[2] \in Nat \ {0} /\ Out(H \ {h}) \cap Span(h[1], h[2]) = {}
         /\ Span(h[1], h[2]) \subseteq Memory /\ Span(h[1], h[2]) \cap Set(L) = {}
  <1>1. h[1] \in Nat /\ h[2] \in Nat \ {0} BY DEF HeldOK
  <1>2. \A g \in H \ {h} : Span(g[1], g[2]) \cap Span(h[1], h[2]) = {} BY DEF HeldOK
  <1>3. Out(H \ {h}) \cap Span(h[1], h[2]) = {} BY <1>2 DEF Out
  <1>4. Span(h[1], h[2]) \subseteq Out(H) BY OutOne
  <1> QED BY <1>1, <1>3, <1>4 DEF HeldOK

-----------------------------------------------------------------------------
\* A position at which first fit stops, and what it takes there.
LEMMA FirstFit ==
  ASSUME Blocks(free_list, property), NEW n \in Nat \ {0}, Fits(n) # {}
  PROVE  LET i == Min(Fits(n)) IN
         /\ i \in 1..Len(free_list) /\ property[free_list[i]] >= n
         /\ \A j \in 1..Len(free_list) : property[free_list[j]] >= n => i <= j
  <1> DEFINE i == Min(Fits(n))
  <1>1. free_list \in Seq(Nat) BY DEF Blocks, Sorted
  <1>2. DOMAIN free_list = 1..Len(free_list) /\ Len(free_list) \in Nat BY <1>1, LenProperties
  <1>3. Fits(n) = {j \in 1..Len(free_list) : property[free_list[j]] >= n} BY <1>2 DEF Fits
  <1>4. Fits(n) \subseteq Nat BY <1>2, <1>3
  <1>5. i \in Fits(n) /\ \A j \in Fits(n) : i <= j BY <1>4, MinOf
  <1> HIDE DEF i
  <1> QED BY <1>3, <1>5 DEF i

\* The flags that default_alloc_pages sets.
LEMMA Flagged ==
  ASSUME NEW L, Sorted(L), NEW i \in 1..Len(L), NEW n \in Nat \ {0}, Span(L[i], n) \subseteq Set(L)
  PROVE  ToSet(SubSeq(L, i, i + n - 1)) = Span(L[i], n)
  <1> DEFINE A == SubSeq(L, i, i + n - 1)
  <1>a. Len(L) \in Nat /\ L \in Seq(Nat) /\ \A j \in 1..Len(L) : L[j] \in Nat BY DEF Sorted
  <1>b. \A k \in 0..(n - 1) : i + k \in 1..Len(L) /\ L[i + k] = L[i] + k BY Consecutive
  <1>c. i + n - 1 <= Len(L)
    <2>1. n - 1 \in 0..(n - 1) BY <1>a
    <2>2. i + (n - 1) \in 1..Len(L) BY <1>b, <2>1
    <2> QED BY <2>2, <1>a
  <1>0. Len(L) \in Nat /\ L \in Seq(Nat) /\ (\A j \in 1..Len(L) : L[j] \in Nat) /\ i + n - 1 <= Len(L)
    BY <1>a, <1>c
  <1>1. \A j \in i..(i + n - 1) : L[j] \in Nat BY <1>0
  <1>2. i \in Int /\ i + n - 1 \in Int /\ i <= i + n - 1 BY <1>0
  <1>3. /\ A \in Seq(Nat) /\ Len(A) = IF i <= i + n - 1 THEN i + n - 1 - i + 1 ELSE 0
        /\ \A j \in 1..(i + n - 1 - i + 1) : A[j] = L[i + j - 1]
    BY <1>1, <1>2, SubSeqProperties
  <1> HIDE DEF A
  <1>4. Len(A) = n /\ DOMAIN A = 1..n /\ \A j \in 1..n : A[j] = L[i + j - 1]
    <2>1. i + n - 1 - i + 1 = n BY <1>0
    <2> QED BY <1>2, <1>3, <2>1, LenProperties
  <1>5. ASSUME NEW j \in 1..n PROVE A[j] \in Span(L[i], n)
    <2>1. j - 1 \in 0..(n - 1) /\ i + (j - 1) = i + j - 1 BY <1>0
    <2>2. A[j] = L[i] + (j - 1) BY <1>b, <1>4, <2>1
    <2> QED BY <1>0, <2>1, <2>2 DEF Span
  <1>6. ASSUME NEW p \in Span(L[i], n) PROVE \E j \in 1..n : A[j] = p
    <2> DEFINE k == p - L[i]
    <2>1. k \in 0..(n - 1) /\ L[i] + k = p BY <1>0 DEF Span
    <2> HIDE DEF k
    <2>2. k + 1 \in 1..n /\ i + (k + 1) - 1 = i + k BY <1>0, <2>1
    <2>3. A[k + 1] = L[i + k] BY <1>4, <2>2
    <2> QED BY <1>b, <2>1, <2>2, <2>3
  <1>7. ToSet(A) = {A[j] : j \in 1..n} BY <1>4 DEF ToSet
  <1> QED BY <1>5, <1>6, <1>7 DEF A

\* What default_alloc_pages does.
LEMMA AllocStep ==
  ASSUME Blocks(free_list, property), NEW n \in Nat \ {0}, default_alloc_pages(n)
  PROVE  /\ got' \in Nat /\ Span(got', n) \subseteq Set(free_list) /\ Blocks(free_list', property')
         /\ Len(free_list') = Len(free_list) - n /\ nr_free' = nr_free - n
         /\ Set(free_list') = Set(free_list) \ Span(got', n)
         /\ reserved' = reserved \cup Span(got', n)
         /\ \A p \in (got' + 1)..(got' + n - 1) : property[p] = 0
         /\ \A p \in Memory \ Set(free_list') : property'[p] = property[p]
  <1> DEFINE i == Min(Fits(n))
             L == free_list
  <1>1. i \in 1..Len(L) /\ property[L[i]] >= n BY FirstFit DEF default_alloc_pages
  <1>2. /\ got' = L[i] /\ free_list' = Removed(L, i, n) /\ property' = Split(i, n) /\ nr_free' = nr_free - n
        /\ reserved' = reserved \cup ToSet(SubSeq(L, i, i + n - 1))
    BY DEF default_alloc_pages, Removed
  <1> HIDE DEF i
  <1>3. /\ L[i] \in Nat /\ Span(L[i], n) \subseteq Set(L) /\ Len(Removed(L, i, n)) = Len(L) - n
        /\ Set(Removed(L, i, n)) = Set(L) \ Span(L[i], n)
        /\ i + n - 1 <= Len(L) /\ {L[j] : j \in i..(i + n - 1)} = Span(L[i], n)
        /\ \A p \in (L[i] + 1)..(L[i] + n - 1) : property[p] = 0
        /\ Blocks(Removed(L, i, n), Split(i, n))
        /\ \A p \in Memory \ Set(Removed(L, i, n)) : Split(i, n)[p] = property[p]
    BY <1>1, TakenBlock
  <1>4. ToSet(SubSeq(L, i, i + n - 1)) = Span(L[i], n)
    <2>1. Sorted(L) BY DEF Blocks
    <2> QED BY <1>1, <1>3, <2>1, Flagged
  <1> QED BY <1>2, <1>3, <1>4

\* What default_free_pages does with a block that is not free.
LEMMA FreeStep ==
  ASSUME Blocks(free_list, property), NEW base \in Nat, NEW n \in Nat \ {0}, default_free_pages(base, n),
         Span(base, n) \subseteq Memory, Span(base, n) \cap Set(free_list) = {},
         \A p \in (base + 1)..(base + n - 1) : property[p] = 0
  PROVE  /\ Blocks(free_list', property')
         /\ Len(free_list') = Len(free_list) + n /\ nr_free' = nr_free + n
         /\ Set(free_list') = Set(free_list) \cup Span(base, n)
         /\ reserved' = reserved \ {base}
         /\ \A p \in Memory \ Set(free_list') : property'[p] = property[p]
  <1> DEFINE K == Linked(base, n, Position(base))
             J == JoinPrevious(JoinNext(base, n, Position(base)), base, Position(base))
  <1>1. free_list' = K /\ property' = J /\ nr_free' = nr_free + n /\ reserved' = reserved \ {base}
    BY DEF default_free_pages
  <1>2. /\ Blocks(K, J) /\ Len(K) = Len(free_list) + n /\ Set(K) = Set(free_list) \cup Span(base, n)
        /\ \A p \in Memory \ Set(K) : J[p] = property[p]
    BY FreedBlock
  <1> HIDE DEF K, J
  <1> QED BY <1>1, <1>2

\* A page of a block behind its first.
LEMMA InnerPage ==
  ASSUME NEW b \in Nat, NEW n \in Nat \ {0}, NEW p \in (b + 1)..(b + n - 1)
  PROVE  p \in Span(b, n)
  BY DEF Span

\* The blocks that stay with their callers while one is taken or given back.
LEMMA HeldKept ==
  ASSUME NEW H, NEW L, NEW prop, NEW res, HeldOK(H, L, prop, res),
         NEW L2, NEW prop2, NEW res2,
         Out(H) \subseteq res2, Out(H) \cap Set(L2) = {},
         \A p \in Memory \ Set(L2) : prop2[p] = prop[p]
  PROVE  HeldOK(H, L2, prop2, res2)
  <1>1. ASSUME NEW h \in H, NEW p \in (h[1] + 1)..(h[1] + h[2] - 1) PROVE prop2[p] = 0
    <2>1. h[1] \in Nat /\ h[2] \in Nat BY DEF HeldOK
    <2>2. p \in Span(h[1], h[2]) BY <2>1 DEF Span
    <2>3. Span(h[1], h[2]) \subseteq Out(H) BY OutOne
    <2>4. p \in Memory \ Set(L2) BY <2>2, <2>3 DEF HeldOK
    <2> QED BY <2>4 DEF HeldOK
  <1> QED BY <1>1 DEF HeldOK

\* A block is given back: the others are as they were.
LEMMA HeldLess ==
  ASSUME NEW H, NEW L, NEW prop, NEW res, HeldOK(H, L, prop, res), NEW h \in H
  PROVE  HeldOK(H \ {h}, L, prop, res)
  <1>1. Out(H \ {h}) \subseteq Out(H) BY DEF Out
  <1> QED BY <1>1 DEF HeldOK

\* A block is handed out that nobody holds.
LEMMA HeldMore ==
  ASSUME NEW H, NEW L, NEW prop, NEW res, HeldOK(H, L, prop, res),
         NEW b \in Nat, NEW n \in Nat \ {0}, Span(b, n) \subseteq Memory, Span(b, n) \subseteq res,
         Span(b, n) \cap Set(L) = {}, Span(b, n) \cap Out(H) = {},
         \A p \in (b + 1)..(b + n - 1) : prop[p] = 0
  PROVE  HeldOK(H \cup {<<b, n>>}, L, prop, res)
  <1> DEFINE G == H \cup {<<b, n>>}
  <1>1. Out(G) = Out(H) \cup Span(b, n) BY OutOne
  <1>2. <<b, n>> \in Nat \X (Nat \ {0}) /\ <<b, n>>[1] = b /\ <<b, n>>[2] = n OBVIOUS
  <1>3. \A h \in H : Span(h[1], h[2]) \cap Span(b, n) = {} BY OutOne
  <1>4. ASSUME NEW g \in G, NEW h \in G, g # h PROVE Span(g[1], g[2]) \cap Span(h[1], h[2]) = {}
    <2>1. CASE g \in H /\ h \in H BY <1>4, <2>1 DEF HeldOK
    <2>2. CASE g \in H /\ h = <<b, n>> BY <1>2, <1>3, <2>2
    <2>3. CASE g = <<b, n>> /\ h \in H BY <1>2, <1>3, <2>3
    <2> QED BY <1>4, <2>1, <2>2, <2>3
  <1>5. ASSUME NEW h \in G PROVE \A p \in (h[1] + 1)..(h[1] + h[2] - 1) : prop[p] = 0
    <2>1. CASE h \in H BY <2>1 DEF HeldOK
    <2>2. CASE h = <<b, n>> BY <1>2, <2>2
    <2> QED BY <2>1, <2>2
  <1>6. G \subseteq Nat \X (Nat \ {0}) BY <1>2 DEF HeldOK
  <1>7. Out(G) \subseteq Memory /\ Out(G) \subseteq res /\ Out(G) \cap Set(L) = {} BY <1>1 DEF HeldOK
  <1> HIDE DEF G
  <1>8. HeldOK(G, L, prop, res) BY <1>4, <1>5, <1>6, <1>7 DEF HeldOK
  <1> QED BY <1>8 DEF G

-----------------------------------------------------------------------------
\* alloc_pages finds a block.
LEMMA TakeInv ==
  ASSUME PageInv, NEW n \in Nat \ {0}, Take(n), pc # Len(Checks), UNCHANGED <<memmap, entry, pc, kept, lost>>
  PROVE  PageInv'
  <1> DEFINE B == Span(got', n)
  <1>0. Blocks(free_list, property) /\ nr_free = Len(free_list) /\ HeldOK(held, free_list, property, reserved)
    BY DEF PageInv
  <1>1. default_alloc_pages(n) /\ held' = held \cup {<<got', n>>} /\ known' = known BY DEF Take
  <1>2. /\ got' \in Nat /\ B \subseteq Set(free_list) /\ Blocks(free_list', property')
        /\ Len(free_list') = Len(free_list) - n /\ nr_free' = nr_free - n
        /\ Set(free_list') = Set(free_list) \ B
        /\ reserved' = reserved \cup B
        /\ \A p \in (got' + 1)..(got' + n - 1) : property[p] = 0
        /\ \A p \in Memory \ Set(free_list') : property'[p] = property[p]
    BY <1>0, <1>1, AllocStep
  <1>3. B \subseteq Memory /\ B \cap Out(held) = {} /\ B \cap Set(free_list') = {} BY <1>0, <1>2 DEF Blocks, HeldOK
  <1>4. Out(held) \subseteq reserved' /\ Out(held) \cap Set(free_list') = {} BY <1>0, <1>2 DEF HeldOK
  <1>5. HeldOK(held, free_list', property', reserved') BY <1>0, <1>2, <1>4, HeldKept
  <1>6. \A p \in (got' + 1)..(got' + n - 1) : property'[p] = 0
    <2> TAKE p \in (got' + 1)..(got' + n - 1)
    <2>0. got' \in Nat BY <1>2
    <2>1. p \in B BY <2>0, InnerPage
    <2> QED BY <1>2, <1>3, <2>1
  <1>7. HeldOK(held \cup {<<got', n>>}, free_list', property', reserved')
    <2>1. B \subseteq reserved' BY <1>2
    <2> QED BY <1>2, <1>3, <1>5, <1>6, <2>1, HeldMore
  <1>8. Set(free_list') \cup Out(held') = known \ (kept \cup lost)
    <2>0. Out(held \cup {<<got', n>>}) = Out(held) \cup B BY OutOne
    <2>1. Out(held') = Out(held) \cup B BY <1>1, <2>0
    <2> HIDE DEF B
    <2> QED BY <1>2, <2>1 DEF PageInv
  <1>9. Len(Checks)' = Len(Checks) /\ HeldOK(held, free_list, property, reserved)' BY <1>1, <1>7 DEF Checks, HeldOK, Out, Set
  <1> QED BY <1>0, <1>1, <1>2, <1>7, <1>8, <1>9 DEF PageInv

\* free_pages takes a block back, wherever it lies between the free ones.
LEMMA FreeInv ==
  ASSUME PageInv, NEW h \in held, free_pages(h), pc # Len(Checks), UNCHANGED <<memmap, entry, pc, kept, lost>>
  PROVE  PageInv'
  <1> DEFINE base == h[1]
             n == h[2]
             B == Span(base, n)
             H == held \ {h}
  <1>0. Blocks(free_list, property) /\ nr_free = Len(free_list) /\ HeldOK(held, free_list, property, reserved)
    BY DEF PageInv
  <1>1. default_free_pages(base, n) /\ held' = H /\ known' = known BY DEF free_pages
  <1>2. /\ base \in Nat /\ n \in Nat \ {0} /\ Out(H) \cap B = {} /\ B \subseteq Memory /\ B \cap Set(free_list) = {}
    BY <1>0, OutRest
  <1>3. \A p \in (base + 1)..(base + n - 1) : property[p] = 0 BY <1>0 DEF HeldOK
  <1>4. Out(held) = Out(H) \cup B BY OutOne
  <1>5. HeldOK(H, free_list, property, reserved) BY <1>0, HeldLess
  <1>6. base \in B BY <1>2 DEF Span
  <1> HIDE DEF base, n, H
  <1>7. /\ Blocks(free_list', property')
        /\ Len(free_list') = Len(free_list) + n /\ nr_free' = nr_free + n
        /\ Set(free_list') = Set(free_list) \cup B
        /\ reserved' = reserved \ {base}
        /\ \A p \in Memory \ Set(free_list') : property'[p] = property[p]
    BY <1>0, <1>1, <1>2, <1>3, FreeStep
  <1> HIDE DEF B
  <1>8. Out(H) \subseteq reserved' /\ Out(H) \cap Set(free_list') = {} BY <1>2, <1>5, <1>6, <1>7 DEF HeldOK
  <1>9. HeldOK(H, free_list', property', reserved') BY <1>5, <1>7, <1>8, HeldKept
  <1>10. Set(free_list') \cup Out(held') = known \ (kept \cup lost)
    <2>1. Out(held') = Out(H) BY <1>1
    <2> QED BY <1>4, <1>7, <2>1 DEF PageInv
  <1>11. Len(Checks)' = Len(Checks) /\ HeldOK(held, free_list, property, reserved)' BY <1>1, <1>9 DEF Checks, HeldOK, Out, Set
  <1>12. nr_free' = Len(free_list') BY <1>0, <1>7
  <1> QED BY <1>1, <1>7, <1>10, <1>11, <1>12 DEF PageInv

\* Every step of the kernel from the handover on.
LEMMA StepInv ==
  PageInv /\ [BNext]_bvars => PageInv'
  <1> SUFFICES ASSUME PageInv, [BNext]_bvars PROVE PageInv' OBVIOUS
  <1>0. Len(Checks)' = Len(Checks) BY DEF Checks
  <1>1. CASE boot_done
    <2>1. UNCHANGED <<free_list, nr_free, property, reserved, held, known, kept, lost, memmap, entry>> /\ pc' = pc + 1 /\ pc = Len(Checks)
      BY <1>1 DEF boot_done, listvars
    <2> QED BY <1>0, <2>1 DEF PageInv
  <1>2. CASE operation
    <2>1. pc # Len(Checks) /\ UNCHANGED <<memmap, entry, pc, kept, lost>> /\ Running BY <1>2 DEF operation, Booted, PageInv
    <2>2. ASSUME NEW n \in Requests, alloc_pages(n) PROVE PageInv'
      <3>1. n \in Nat \ {0} BY PageAssumption
      <3>2. CASE Take(n) BY <2>1, <3>1, <3>2, TakeInv
      <3>3. CASE Fail(n)
        <4>1. UNCHANGED <<free_list, nr_free, property, reserved, held, known>> BY <3>3 DEF Fail
        <4> QED BY <1>0, <2>1, <4>1 DEF PageInv
      <3> QED BY <2>2, <3>2, <3>3 DEF alloc_pages
    <2>3. ASSUME NEW h \in held, free_pages(h) PROVE PageInv' BY <2>1, <2>3, FreeInv
    <2>4. CASE panic
      <3>1. UNCHANGED <<free_list, nr_free, property, reserved, held, known>> BY <2>4 DEF panic, vars
      <3> QED BY <1>0, <2>1, <3>1 DEF PageInv
    <2> QED BY <2>1, <2>2, <2>3, <2>4 DEF Running
  <1>3. CASE UNCHANGED bvars
    <2>1. UNCHANGED <<free_list, nr_free, property, reserved, held, known, kept, lost, memmap, entry, pc>> BY <1>3 DEF bvars
    <2> QED BY <1>0, <2>1 DEF PageInv
  <1>4. ~page_init /\ ~check BY DEF page_init, check, PageInv
  <1>5. CASE Halt BY <1>3, <1>5 DEF Halt
  <1> QED BY <1>1, <1>2, <1>3, <1>4, <1>5 DEF BNext

\* The invariant says who owns a page.
LEMMA InvOwner ==
  PageInv => EveryPageHasOneOwner
  <1> SUFFICES ASSUME PageInv PROVE EveryPageHasOneOwner OBVIOUS
  <1>0. Blocks(free_list, property) /\ nr_free = Len(free_list) /\ HeldOK(held, free_list, property, reserved)
        /\ Set(free_list) \cup Out(held) = known \ (kept \cup lost)
    BY DEF PageInv
  <1>1. Sorted(free_list) /\ free_list \in Seq(Nat) BY <1>0 DEF Blocks, Sorted
  <1>2. Free = Set(free_list) /\ DOMAIN free_list = 1..Len(free_list) BY <1>1, FreeIsSet
  <1>3. Cardinality(Free) = Len(free_list) BY <1>1, <1>2, CardList
  <1>4. BlocksAreMaximal BY <1>0, <1>1, <1>2 DEF BlocksAreMaximal, Blocks, Sorted
  <1> DEFINE taken == UNION {Span(h[1], h[2]) : h \in held}
  <1>5. taken = Out(held) BY DEF Out
  <1>6. Free \cap taken = {} /\ Free \cup taken = known \ (kept \cup lost) /\ taken \subseteq reserved
    BY <1>0, <1>2, <1>5 DEF HeldOK
  <1>7. \A g, h \in held : g # h => Span(g[1], g[2]) \cap Span(h[1], h[2]) = {} BY <1>0 DEF HeldOK
  <1> QED BY <1>0, <1>3, <1>4, <1>6, <1>7 DEF EveryPageHasOneOwner

\* From the handover on, whatever sizes are asked for and in whatever order the blocks come
\* back to default_free_pages: a page is free, or in exactly one block that a caller of
\* alloc_pages holds, or kept or lost since start-up; nr_free counts the free ones, the blocks are
\* maximal, and no caller fails the assertion PageReserved(base).
THEOREM PagesHaveOneOwner == Handover /\ [][BNext]_bvars => []EveryPageHasOneOwner
  BY HandoverInv, StepInv, InvOwner, PTL

-----------------------------------------------------------------------------
\* A run of n free pages is found: the block it is in is large enough.
LEMMA RunIsFound ==
  ASSUME Blocks(free_list, property), NEW n \in Nat \ {0}, NEW b \in Set(free_list), Span(b, n) \subseteq Set(free_list)
  PROVE  \E j \in 1..Len(free_list) : property[free_list[j]] >= n /\ free_list[j] <= b
  <1> DEFINE L == free_list
             F == Set(L)
  <1>0. /\ Sorted(L) /\ Len(L) \in Nat /\ F \subseteq Nat
        /\ \A j \in 1..Len(L) : L[j] \in F /\ L[j] \in Nat
    BY BlockFacts DEF Blocks
  <1>1. PICK x \in 1..Len(L) : L[x] = b BY DEF Set
  <1>2. PICK J \in 1..x : L[J] - 1 \notin F /\ \A j \in J..x : L[j] = L[J] + (j - J)
    BY <1>0, RunHead
  <1>3. J \in 1..Len(L) /\ J \in Nat /\ x \in Nat /\ x \in J..x BY <1>0
  <1> DEFINE a == L[J]
             r == property[a]
  <1>4. a \in F /\ a \in Nat /\ a - 1 \notin F /\ b \in Nat BY <1>0, <1>2, <1>3
  <1>5. b = a + (x - J) /\ a <= b
    <2>1. b = a + (x - J) BY <1>1, <1>2, <1>3
    <2> HIDE DEF a
    <2> QED BY <1>3, <1>4, <2>1
  <1>6. r \in Nat /\ a + r \notin F BY <1>4, BlockFacts
  <1> HIDE DEF r
  <1>7. ~(r < n)
    <2> SUFFICES ASSUME r < n PROVE FALSE OBVIOUS
    <2>1. CASE a + r >= b
      <3>1. a + r \in Span(b, n)
        <4> HIDE DEF a
        <4> QED BY <1>4, <1>5, <1>6, <2>1 DEF Span
      <3> QED BY <1>6, <3>1
    <2>2. CASE a + r < b
      <3> DEFINE k == J + r
      <3>1. k \in J..x /\ k - J = r /\ k \in 1..Len(L)
        <4> HIDE DEF a
        <4> QED BY <1>0, <1>3, <1>4, <1>5, <1>6, <2>2
      <3> HIDE DEF k
      <3>2. L[k] = a + r BY <1>2, <3>1
      <3> QED BY <1>0, <1>6, <3>1, <3>2
    <2> HIDE DEF a
    <2> QED BY <1>4, <1>6, <2>1, <2>2
  <1>8. r >= n BY <1>6, <1>7
  <1> QED BY <1>3, <1>5, <1>8 DEF r

\* What first fit takes is the lowest run.
LEMMA LowestRun ==
  ASSUME Blocks(free_list, property), NEW n \in Nat \ {0}, default_alloc_pages(n), Free = Set(free_list)
  PROVE  LET R == {b \in Free : Span(b, n) \subseteq Free} IN R # {} /\ got' = Min(R)
  <1> DEFINE L == free_list
             F == Set(L)
             R == {b \in F : Span(b, n) \subseteq F}
             i == Min(Fits(n))
  <1>0. Sorted(L) /\ F \subseteq Nat /\ \A j \in 1..Len(L) : L[j] \in F /\ L[j] \in Nat BY BlockFacts DEF Blocks
  <1>1. /\ i \in 1..Len(L)
        /\ \A j \in 1..Len(L) : property[L[j]] >= n => i <= j
    BY FirstFit DEF default_alloc_pages
  <1>2. got' = L[i] BY DEF default_alloc_pages
  <1>3. got' \in Nat /\ Span(got', n) \subseteq F BY AllocStep
  <1> HIDE DEF i
  <1>4. got' \in R BY <1>0, <1>1, <1>2, <1>3
  <1>5. ASSUME NEW b \in R PROVE got' <= b
    <2>1. PICK j \in 1..Len(L) : property[L[j]] >= n /\ L[j] <= b BY RunIsFound
    <2>2. i <= j BY <1>1, <2>1
    <2>3. i = j \/ i < j BY <1>0, <1>1, <2>2 DEF Sorted
    <2>4. L[i] <= L[j] BY <1>0, <1>1, <2>3, SortedOrder
    <2> QED BY <1>0, <1>1, <1>2, <2>1, <2>4
  <1>6. R \subseteq Nat /\ R # {} BY <1>0, <1>4
  <1>7. got' = Min(R)
    <2> HIDE DEF R
    <2>1. Min(R) \in R /\ \A y \in R : Min(R) <= y BY <1>6, MinOf
    <2>2. Min(R) <= got' /\ got' <= Min(R) BY <1>4, <1>5, <2>1
    <2>3. Min(R) \in Nat BY <1>6, <2>1
    <2> DEFINE mn == Min(R)
    <2>4. mn <= got' /\ got' <= mn /\ mn \in Nat BY <2>2, <2>3
    <2> HIDE DEF mn
    <2>5. got' = mn BY <1>3, <2>4
    <2> QED BY <2>5 DEF mn
  <1> QED BY <1>6, <1>7

\* Nothing is refused that is there.
LEMMA NoRun ==
  ASSUME Blocks(free_list, property), nr_free = Len(free_list), NEW n \in Nat \ {0}, n > nr_free \/ Fits(n) = {}
  PROVE  \A b \in Set(free_list) : ~(Span(b, n) \subseteq Set(free_list))
  <1> DEFINE L == free_list
             F == Set(L)
  <1>0. Sorted(L) /\ F \subseteq Nat /\ IsFiniteSet(F) /\ Len(L) \in Nat /\ Cardinality(F) = Len(L) /\ DOMAIN L = 1..Len(L)
    BY BlockFacts, CardList, LenProperties DEF Blocks, Sorted
  <1> SUFFICES ASSUME NEW b \in F, Span(b, n) \subseteq F PROVE FALSE OBVIOUS
  <1>1. PICK j \in 1..Len(L) : property[L[j]] >= n BY RunIsFound
  <1>2. Fits(n) # {} BY <1>0, <1>1 DEF Fits
  <1>3. b \in Nat /\ Span(b, n) = b..(b + n - 1) BY <1>0 DEF Span
  <1>4. Cardinality(b..(b + n - 1)) = n
    <2>1. b \in Int /\ b + n - 1 \in Int /\ b <= b + n - 1 /\ (b + n - 1) - b + 1 = n BY <1>3
    <2> QED BY <2>1, FS_Interval
  <1>5. n <= Len(L) BY <1>0, <1>3, <1>4, FS_Subset
  <1> QED BY <1>0, <1>2, <1>5

-----------------------------------------------------------------------------
\* Every step is a step of the pool of pages.
LEMMA StepPool ==
  ASSUME PageInv, [BNext]_bvars PROVE [P!Next]_(P!vars)
  <1> DEFINE free == IF Booted THEN Free ELSE {}
             answer == IF Booted THEN got ELSE NULL
  <1>0. Blocks(free_list, property) /\ nr_free = Len(free_list) /\ HeldOK(held, free_list, property, reserved)
    BY DEF PageInv
  <1>a. free_list \in Seq(Nat) /\ Set(free_list) \subseteq Memory BY <1>0 DEF Blocks, Sorted
  <1>b. Free = Set(free_list) BY <1>a, FreeIsSet
  <1>c. PageInv' BY StepInv
  <1>d. Free' = Set(free_list')
    <2>1. free_list' \in Seq(Nat) BY <1>c DEF PageInv, Blocks, Sorted
    <2>2. DOMAIN free_list' = 1..Len(free_list') BY <2>1, LenProperties
    <2> QED BY <2>2 DEF Free, Set, ToSet
  <1>e. Len(Checks)' = Len(Checks) BY DEF Checks
  <1>1. CASE boot_done
    <2>1. ~Booted /\ Booted' /\ got' = NULL /\ held = {} /\ held' = held /\ free_list' = free_list
      BY <1>1, <1>e DEF boot_done, Booted, PageInv, listvars
    <2>2. P!Add BY <1>a, <1>b, <1>d, <2>1 DEF P!Add
    <2> QED BY <2>2 DEF P!Next
  <1>2. CASE operation
    <2>1. Booted /\ Booted' /\ Running BY <1>2, <1>e DEF operation, Booted
    <2>2. ASSUME NEW n \in Requests, alloc_pages(n) PROVE P!Next
      <3>1. n \in Nat \ {0} BY PageAssumption
      <3>2. CASE Take(n)
        <4>1. default_alloc_pages(n) /\ held' = held \cup {<<got', n>>} BY <3>2 DEF Take
        <4>2. Set(free_list') = Set(free_list) \ Span(got', n) BY <1>0, <3>1, <4>1, AllocStep
        <4> DEFINE R == {b \in Free : Span(b, n) \subseteq Free}
        <4>3. R # {} /\ got' = Min(R) BY <1>0, <1>b, <3>1, <4>1, LowestRun
        <4>4. P!Runs(n) = R BY <2>1 DEF P!Runs, P!Span, Span
        <4>5. P!Min(R) = Min(R) BY DEF P!Min, Min
        <4> HIDE DEF R
        <4>6. P!Span(got', n) = Span(got', n) BY DEF P!Span, Span
        <4>7. P!Grant(n) BY <1>b, <1>d, <2>1, <4>1, <4>2, <4>3, <4>4, <4>5, <4>6 DEF P!Grant
        <4> QED BY <4>7 DEF P!Next
      <3>3. CASE Fail(n)
        <4>1. got' = NULL /\ free_list' = free_list /\ held' = held BY <3>3 DEF Fail
        <4>2. \A b \in Free : ~(Span(b, n) \subseteq Free) BY <1>0, <1>b, <3>1, <3>3, NoRun DEF Fail
        <4>3. P!Runs(n) = {} BY <2>1, <4>2 DEF P!Runs, P!Span, Span
        <4>4. P!Refuse(n) BY <1>b, <1>d, <2>1, <4>1, <4>3 DEF P!Refuse
        <4> QED BY <4>4 DEF P!Next
      <3> QED BY <2>2, <3>2, <3>3 DEF alloc_pages
    <2>3. ASSUME NEW h \in held, free_pages(h) PROVE P!Next
      <3>1. default_free_pages(h[1], h[2]) /\ held' = held \ {h} /\ got' = got BY <2>3 DEF free_pages
      <3>2. /\ h[1] \in Nat /\ h[2] \in Nat \ {0} /\ Span(h[1], h[2]) \subseteq Memory
            /\ Span(h[1], h[2]) \cap Set(free_list) = {}
        BY <1>0, OutRest
      <3>3. \A p \in (h[1] + 1)..(h[1] + h[2] - 1) : property[p] = 0 BY <1>0 DEF HeldOK
      <3>4. Set(free_list') = Set(free_list) \cup Span(h[1], h[2]) BY <1>0, <3>1, <3>2, <3>3, FreeStep
      <3>5. P!Span(h[1], h[2]) = Span(h[1], h[2]) BY DEF P!Span, Span
      <3>6. P!Return(h) BY <1>b, <1>d, <2>1, <3>1, <3>4, <3>5 DEF P!Return
      <3> QED BY <3>6 DEF P!Next
    <2>4. CASE panic
      <3>1. free_list' = free_list /\ held' = held /\ got' = got BY <2>4 DEF panic, vars
      <3> QED BY <1>b, <1>d, <2>1, <3>1 DEF P!vars
    <2> QED BY <2>1, <2>2, <2>3, <2>4 DEF Running
  <1>3. CASE UNCHANGED bvars
    <2>1. free_list' = free_list /\ held' = held /\ got' = got /\ pc' = pc BY <1>3 DEF bvars
    <2>2. Booted' = Booted BY <1>e, <2>1 DEF Booted
    <2> QED BY <1>b, <1>d, <2>1, <2>2 DEF P!vars
  <1>4. ~page_init /\ ~check BY DEF page_init, check, PageInv
  <1>5. CASE Halt BY <1>3, <1>5 DEF Halt
  <1> QED BY <1>1, <1>2, <1>3, <1>4, <1>5 DEF BNext

\* Before the handover nobody has been given a page.
LEMMA HandoverPool ==
  Handover => P!Init
  <1> SUFFICES ASSUME Handover PROVE P!Init OBVIOUS
  <1>1. ~Booted /\ held = {} BY DEF Handover, Booted
  <1> QED BY <1>1 DEF P!Init

\* From the handover on the list of default_pmm.c implements first fit on a plain set of
\* pages: default_alloc_pages returns the lowest run that is long enough, and NULL only if
\* there is none; what it splits and default_free_pages joins can be forgotten.
THEOREM PagesAreAPool == Handover /\ [][BNext]_bvars => ImplementsPool
  BY HandoverInv, StepInv, StepPool, HandoverPool, PTL DEF ImplementsPool, P!Spec

-----------------------------------------------------------------------------
(* Swapping.  The invariant follows each page: it was never written, or a frame *)
(* that no other page has or the block of the page on the disk holds what was  *)
(* written.  It is kept by each part of a store: swap_out, the new mapping,    *)
(* the translation, and the store itself.                                      *)

\* What the record vm is made of.
SwapMemories ==
  [pte : [VPages -> [at : {"none", "frame", "swap"}, no : Nat]],
   pra_vaddr : [Frames -> 0..NVPAGES], data : [Frames -> Nat], free : SUBSET Frames,
   pra_list : Seq(Frames), disk : [1..(NVPAGES + 1) -> Nat],
   tlb : UNION {[D -> Frames] : D \in SUBSET VPages},
   pgfault_num : Nat, panic : BOOLEAN]

\* An entry without a page was not written; a frame belongs to one entry and is not free;
\* a swapped page lies in its own block, and both hold what was written.
EntriesSound(h, w) ==
  \A v \in VPages :
    /\ h.pte[v].at = "none" => w[v] = 0
    /\ h.pte[v].at = "frame" =>
         /\ h.pte[v].no \in Frames \ h.free
         /\ w[v] # 0 => h.data[h.pte[v].no] = w[v]
         /\ \A u \in VPages : h.pte[u].at = "frame" /\ h.pte[u].no = h.pte[v].no => u = v
    /\ h.pte[v].at = "swap" => h.pte[v].no = v + 1 /\ (w[v] # 0 => h.disk[v + 1] = w[v])

\* Frames in use, and all of them once a page was swapped out, have an address.
FramesFiled(h) ==
  \A f \in Frames : f \notin h.free \/ (\E v \in VPages : h.pte[v].at = "swap") => h.pra_vaddr[f] \in VPages

TlbSound(h) == \A v \in DOMAIN h.tlb : h.pte[v] = Present(h.tlb[v])

SwapSound(h, w) ==
  h \in SwapMemories /\ w \in [VPages -> Nat] /\ EntriesSound(h, w) /\ FramesFiled(h) /\ TlbSound(h)

SwapInv ==
  /\ mode \in {"any", "script"} /\ (mode = "script" => NFRAMES = 4 /\ NVPAGES = 5)
  /\ step \in Nat
  /\ misfiled \in BOOLEAN
  /\ vm.panic \/ misfiled \/ SwapSound(vm, written)

-----------------------------------------------------------------------------
\* The fields of a memory.
LEMMA MemoryFields ==
  ASSUME NEW h \in SwapMemories
  PROVE  /\ h.pte \in [VPages -> [at : {"none", "frame", "swap"}, no : Nat]]
         /\ h.pra_vaddr \in [Frames -> 0..NVPAGES] /\ h.data \in [Frames -> Nat] /\ h.free \in SUBSET Frames
         /\ h.pra_list \in Seq(Frames) /\ h.disk \in [1..(NVPAGES + 1) -> Nat]
         /\ h.tlb \in UNION {[D -> Frames] : D \in SUBSET VPages}
         /\ h.pgfault_num \in Nat /\ h.panic \in BOOLEAN
  BY DEF SwapMemories

\* A TLB is a function from some pages to frames.
LEMMA TlbIs ==
  ASSUME NEW t
  PROVE  t \in UNION {[D -> Frames] : D \in SUBSET VPages}
           <=> DOMAIN t \subseteq VPages /\ t = [v \in DOMAIN t |-> t[v]] /\ \A v \in DOMAIN t : t[v] \in Frames
  OBVIOUS

\* tlb_invalidate forgets one translation and changes nothing else.
LEMMA Invalidated ==
  ASSUME NEW h \in SwapMemories, NEW v \in VPages
  PROVE  /\ tlb_invalidate(h, v) = [h EXCEPT !.tlb = tlb_invalidate(h, v).tlb]
         /\ tlb_invalidate(h, v) \in SwapMemories
         /\ DOMAIN tlb_invalidate(h, v).tlb = DOMAIN h.tlb \ {v}
         /\ \A u \in DOMAIN h.tlb \ {v} : tlb_invalidate(h, v).tlb[u] = h.tlb[u]
  <1> DEFINE t == [w \in DOMAIN h.tlb \ {v} |-> h.tlb[w]]
  <1>1. tlb_invalidate(h, v) = [h EXCEPT !.tlb = t] BY DEF tlb_invalidate
  <1>2. DOMAIN h.tlb \subseteq VPages /\ \A u \in DOMAIN h.tlb : h.tlb[u] \in Frames BY MemoryFields, TlbIs
  <1>3. t \in [DOMAIN h.tlb \ {v} -> Frames] BY <1>2
  <1>4. t \in UNION {[D -> Frames] : D \in SUBSET VPages} BY <1>2, <1>3
  <1>5. [h EXCEPT !.tlb = t] \in SwapMemories BY <1>4 DEF SwapMemories
  <1>6. [h EXCEPT !.tlb = t].tlb = t BY DEF SwapMemories
  <1>7. DOMAIN t = DOMAIN h.tlb \ {v} /\ \A u \in DOMAIN h.tlb \ {v} : t[u] = h.tlb[u] OBVIOUS
  <1> HIDE DEF t
  <1> QED BY <1>1, <1>5, <1>6, <1>7

\* The victim of the FIFO is a frame.
LEMMA VictimIs ==
  ASSUME NEW h \in SwapMemories, h.pra_list # <<>>
  PROVE  /\ _fifo_swap_out_victim(h).page \in Frames
         /\ _fifo_swap_out_victim(h).rest \in Seq(Frames)
  <1>1. h.pra_list \in Seq(Frames) BY MemoryFields
  <1>2. Len(h.pra_list) \in Nat \ {0} BY <1>1
  <1>3. Last(h.pra_list) \in Frames BY <1>1, <1>2 DEF Last
  <1>4. Front(h.pra_list) \in Seq(Frames) BY <1>1, <1>2 DEF Front
  <1> QED BY <1>3, <1>4 DEF _fifo_swap_out_victim

\* swap_out of a frame that is filed under the page it holds: the contents move to the
\* block of that page, and the frame is free.
LEMMA SwapOutSound ==
  ASSUME NEW h, NEW w, SwapSound(h, w), h.free = {}, h.panic = FALSE, h.pra_list # <<>>,
         h.pte[h.pra_vaddr[_fifo_swap_out_victim(h).page]] = Present(_fifo_swap_out_victim(h).page)
  PROVE  /\ SwapSound(swap_out(h), w) /\ swap_out(h).panic = FALSE /\ swap_out(h).free # {}
         /\ \A u \in VPages : h.pte[u].at # "frame" => swap_out(h).pte[u] = h.pte[u]
  <1> DEFINE f == _fifo_swap_out_victim(h).page
             rest == _fifo_swap_out_victim(h).rest
             v == h.pra_vaddr[f]
             g == [h EXCEPT !.pra_list = rest, !.disk = [h.disk EXCEPT ![v + 1] = h.data[f]],
                            !.pte = [h.pte EXCEPT ![v] = [at |-> "swap", no |-> v + 1]], !.free = {f}]
  <1>1. h \in SwapMemories BY DEF SwapSound
  <1>2. f \in Frames /\ rest \in Seq(Frames) BY <1>1, VictimIs
  <1>3. v \in VPages BY <1>2 DEF SwapSound, FramesFiled
  <1>4. h.pte[v].at = "frame" /\ h.pte[v].no = f BY DEF Present
  <1>5. swap_out(h) = tlb_invalidate(g, v)
    <2> HIDE DEF f, rest, v
    <2>1. swapfs_write([h EXCEPT !.pra_list = rest], v + 1, f)
            = [h EXCEPT !.pra_list = rest, !.disk = [h.disk EXCEPT ![v + 1] = h.data[f]]]
      BY <1>1 DEF swapfs_write, SwapMemories
    <2>2. [[h EXCEPT !.pra_list = rest, !.disk = [h.disk EXCEPT ![v + 1] = h.data[f]]]
             EXCEPT !.pte[v] = [at |-> "swap", no |-> v + 1], !.free = @ \cup {f}] = g
      BY <1>1 DEF SwapMemories
    <2> QED BY <1>4, <2>1, <2>2 DEF swap_out, f, rest, v
  <1> HIDE DEF f, rest, v
  <1>6. /\ NVPAGES \in Nat /\ v \in 1..NVPAGES
        /\ h.data \in [Frames -> Nat] /\ h.disk \in [1..(NVPAGES + 1) -> Nat]
        /\ h.pte \in [VPages -> [at : {"none", "frame", "swap"}, no : Nat]]
    BY <1>1, <1>3, MemoryFields, SwapAssumption DEF VPages
  <1>7. [h.disk EXCEPT ![v + 1] = h.data[f]] \in [1..(NVPAGES + 1) -> Nat] BY <1>2, <1>6
  <1>8. [h.pte EXCEPT ![v] = [at |-> "swap", no |-> v + 1]] \in [VPages -> [at : {"none", "frame", "swap"}, no : Nat]]
    BY <1>3, <1>6
  <1>9. g \in SwapMemories BY <1>1, <1>2, <1>7, <1>8 DEF SwapMemories
  <1>10. /\ g.pte = [h.pte EXCEPT ![v] = [at |-> "swap", no |-> v + 1]]
         /\ g.disk = [h.disk EXCEPT ![v + 1] = h.data[f]]
         /\ g.data = h.data /\ g.free = {f} /\ g.pra_vaddr = h.pra_vaddr /\ g.tlb = h.tlb /\ g.panic = h.panic
    BY <1>1 DEF SwapMemories
  <1> HIDE DEF g
  <1> DEFINE k == tlb_invalidate(g, v)
  <1>11. /\ k \in SwapMemories /\ DOMAIN k.tlb = DOMAIN h.tlb \ {v}
         /\ \A u \in DOMAIN h.tlb \ {v} : k.tlb[u] = h.tlb[u]
    BY <1>3, <1>9, <1>10, Invalidated
  <1>12. k = [g EXCEPT !.tlb = k.tlb] BY <1>3, <1>9, Invalidated
  <1> HIDE DEF k
  <1>13. /\ k.pte = g.pte /\ k.disk = g.disk /\ k.data = g.data /\ k.free = g.free
         /\ k.pra_vaddr = g.pra_vaddr /\ k.panic = g.panic
    BY <1>9, <1>12 DEF SwapMemories
  <1>14. /\ k.pte[v] = [at |-> "swap", no |-> v + 1] /\ k.disk[v + 1] = h.data[f]
         /\ \A u \in VPages \ {v} : k.pte[u] = h.pte[u] /\ k.disk[u + 1] = h.disk[u + 1]
    <2>1. k.pte[v] = [at |-> "swap", no |-> v + 1] /\ \A u \in VPages \ {v} : k.pte[u] = h.pte[u]
      BY <1>3, <1>6, <1>10, <1>13
    <2>2. v + 1 \in 1..(NVPAGES + 1) BY <1>6
    <2>3. \A u \in VPages \ {v} : u + 1 \in 1..(NVPAGES + 1) /\ u + 1 # v + 1 BY <1>6 DEF VPages
    <2>4. k.disk = [h.disk EXCEPT ![v + 1] = h.data[f]] BY <1>10, <1>13
    <2>5. k.disk[v + 1] = h.data[f] BY <1>6, <2>2, <2>4
    <2>6. \A u \in VPages \ {v} : k.disk[u + 1] = h.disk[u + 1] BY <1>6, <2>3, <2>4
    <2> QED BY <2>1, <2>5, <2>6
  <1>15. EntriesSound(k, w)
    <2> SUFFICES ASSUME NEW u \in VPages
                 PROVE  /\ k.pte[u].at = "none" => w[u] = 0
                        /\ k.pte[u].at = "frame" =>
                             /\ k.pte[u].no \in Frames \ k.free
                             /\ w[u] # 0 => k.data[k.pte[u].no] = w[u]
                             /\ \A x \in VPages : k.pte[x].at = "frame" /\ k.pte[x].no = k.pte[u].no => x = u
                        /\ k.pte[u].at = "swap" => k.pte[u].no = u + 1 /\ (w[u] # 0 => k.disk[u + 1] = w[u])
      BY DEF EntriesSound
    <2>1. CASE u = v BY <1>3, <1>4, <1>14, <2>1 DEF SwapSound, EntriesSound
    <2>2. CASE u # v
      <3>1. k.pte[u] = h.pte[u] /\ k.disk[u + 1] = h.disk[u + 1] BY <1>14, <2>2
      <3>2. h.pte[u].at = "frame" => h.pte[u].no # f BY <1>3, <1>4, <2>2 DEF SwapSound, EntriesSound
      <3>3. \A x \in VPages : k.pte[x].at = "frame" => h.pte[x] = k.pte[x] BY <1>14
      <3> QED BY <1>10, <1>13, <3>1, <3>2, <3>3 DEF SwapSound, EntriesSound
    <2> QED BY <2>1, <2>2
  <1>16. FramesFiled(k) BY <1>10, <1>13 DEF SwapSound, FramesFiled
  <1>17. TlbSound(k)
    <2>1. DOMAIN h.tlb \subseteq VPages BY <1>1, MemoryFields, TlbIs
    <2> QED BY <1>11, <1>14, <2>1 DEF SwapSound, TlbSound
  <1>18. k.free # {} /\ k.panic = FALSE BY <1>10, <1>13
  <1>19. \A u \in VPages : h.pte[u].at # "frame" => k.pte[u] = h.pte[u] BY <1>4, <1>14
  <1>20. SwapSound(k, w) BY <1>11, <1>15, <1>16, <1>17 DEF SwapSound
  <1> QED BY <1>5, <1>18, <1>19, <1>20 DEF k

\* The frame that a fault would swap out is filed under the page that it holds.
WellFiled(h) ==
  h.free = {} => h.pte[h.pra_vaddr[_fifo_swap_out_victim(h).page]] = Present(_fifo_swap_out_victim(h).page)

\* alloc_page finds a free frame, swaps one out, or ends in a panic.
LEMMA AllocSound ==
  ASSUME NEW h, NEW w, SwapSound(h, w), h.panic = FALSE, WellFiled(h)
  PROVE  \/ alloc_page(h) \in SwapMemories /\ alloc_page(h).panic = TRUE
         \/ /\ SwapSound(alloc_page(h), w) /\ alloc_page(h).panic = FALSE /\ alloc_page(h).free # {}
            /\ \A u \in VPages : h.pte[u].at # "frame" => alloc_page(h).pte[u] = h.pte[u]
  <1>1. CASE h.free # {} BY <1>1 DEF alloc_page
  <1>2. CASE h.free = {} /\ h.pra_list = <<>>
    <2>1. h \in SwapMemories BY DEF SwapSound
    <2>2. alloc_page(h) = [h EXCEPT !.panic = TRUE] BY <1>2 DEF alloc_page, swap_out
    <2>3. [h EXCEPT !.panic = TRUE] \in SwapMemories /\ [h EXCEPT !.panic = TRUE].panic = TRUE BY <2>1 DEF SwapMemories
    <2> QED BY <2>2, <2>3
  <1>3. CASE h.free = {} /\ h.pra_list # <<>>
    BY <1>3, SwapOutSound DEF alloc_page, WellFiled
  <1> QED BY <1>1, <1>2, <1>3

\* From g to k a free frame f is mapped at v, which has no frame yet, with the contents d
\* that v should have, and filed under a: the step common to pgdir_alloc_page and to
\* do_pgfault with swap_in.
Placed(g, k, w, v, f, d, a) ==
  /\ g.pte[v].at # "frame" /\ f \in g.free
  /\ d \in Nat /\ (w[v] # 0 => d = w[v])
  /\ a \in 0..NVPAGES /\ (a = v \/ (a = g.pra_vaddr[f] /\ g.pte[v].at = "swap"))
  /\ k.pte = [g.pte EXCEPT ![v] = Present(f)] /\ k.data = [g.data EXCEPT ![f] = d]
  /\ k.free = g.free \ {f} /\ k.disk = g.disk /\ k.pra_vaddr = [g.pra_vaddr EXCEPT ![f] = a]
  /\ DOMAIN k.tlb = DOMAIN g.tlb \ {v} /\ \A u \in DOMAIN g.tlb \ {v} : k.tlb[u] = g.tlb[u]

LEMMA MapSound ==
  ASSUME NEW g, NEW w, SwapSound(g, w), NEW k \in SwapMemories,
         NEW v \in VPages, NEW f, NEW d, NEW a, Placed(g, k, w, v, f, d, a)
  PROVE  SwapSound(k, w) /\ k.pte[v] = Present(f)
  <1> USE DEF Placed
  <1>1. g \in SwapMemories BY DEF SwapSound
  <1>2. /\ g.pte \in [VPages -> [at : {"none", "frame", "swap"}, no : Nat]] /\ g.data \in [Frames -> Nat]
        /\ g.pra_vaddr \in [Frames -> 0..NVPAGES] /\ f \in Frames /\ DOMAIN g.tlb \subseteq VPages
    BY <1>1, MemoryFields, TlbIs
  <1>3. k.pte[v] = Present(f) /\ \A u \in VPages \ {v} : k.pte[u] = g.pte[u] BY <1>2
  <1>4. k.data[f] = d /\ \A x \in Frames \ {f} : k.data[x] = g.data[x] BY <1>2
  <1>5. k.pra_vaddr[f] = a /\ \A x \in Frames \ {f} : k.pra_vaddr[x] = g.pra_vaddr[x] BY <1>2
  <1>6. \A u \in VPages : g.pte[u].at = "frame" => g.pte[u].no \in Frames \ {f} BY DEF SwapSound, EntriesSound
  <1>7. EntriesSound(k, w)
    <2> SUFFICES ASSUME NEW u \in VPages
                 PROVE  /\ k.pte[u].at = "none" => w[u] = 0
                        /\ k.pte[u].at = "frame" =>
                             /\ k.pte[u].no \in Frames \ k.free
                             /\ w[u] # 0 => k.data[k.pte[u].no] = w[u]
                             /\ \A x \in VPages : k.pte[x].at = "frame" /\ k.pte[x].no = k.pte[u].no => x = u
                        /\ k.pte[u].at = "swap" => k.pte[u].no = u + 1 /\ (w[u] # 0 => k.disk[u + 1] = w[u])
      BY DEF EntriesSound
    <2>1. k.pte[v].at = "frame" /\ k.pte[v].no = f BY <1>3 DEF Present
    <2>2. CASE u = v BY <1>2, <1>3, <1>4, <1>6, <2>1, <2>2
    <2>3. CASE u # v BY <1>2, <1>3, <1>4, <1>6, <2>1, <2>3 DEF SwapSound, EntriesSound
    <2> QED BY <2>2, <2>3
  <1>8. FramesFiled(k)
    <2> SUFFICES ASSUME NEW x \in Frames, x \notin k.free \/ \E u \in VPages : k.pte[u].at = "swap"
                 PROVE  k.pra_vaddr[x] \in VPages
      BY DEF FramesFiled
    <2>1. (\E u \in VPages : k.pte[u].at = "swap") => \E u \in VPages : g.pte[u].at = "swap"
      BY <1>3 DEF Present
    <2>2. CASE x = f BY <1>2, <1>5, <2>2 DEF SwapSound, FramesFiled
    <2>3. CASE x # f BY <1>5, <2>1, <2>3 DEF SwapSound, FramesFiled
    <2> QED BY <2>2, <2>3
  <1>9. TlbSound(k) BY <1>2, <1>3 DEF SwapSound, TlbSound
  <1>10. w \in [VPages -> Nat] BY DEF SwapSound
  <1> QED BY <1>3, <1>7, <1>8, <1>9, <1>10 DEF SwapSound

\* page_insert and _fifo_map_swappable, field by field.
LEMMA PageInserted ==
  ASSUME NEW g \in SwapMemories, NEW v \in VPages, NEW f \in Frames,
         NEW k, k = _fifo_map_swappable(page_insert(g, f, v), f)
  PROVE  /\ k \in SwapMemories
         /\ k.pte = [g.pte EXCEPT ![v] = Present(f)] /\ k.data = g.data /\ k.free = g.free /\ k.disk = g.disk
         /\ k.pra_vaddr = g.pra_vaddr /\ k.panic = g.panic
         /\ DOMAIN k.tlb = DOMAIN g.tlb \ {v} /\ \A u \in DOMAIN g.tlb \ {v} : k.tlb[u] = g.tlb[u]
  <1> DEFINE g1 == [g EXCEPT !.pte = [g.pte EXCEPT ![v] = Present(f)]]
             g2 == tlb_invalidate(g1, v)
             g3 == [g2 EXCEPT !.pra_list = <<f>> \o g2.pra_list]
  <1>1. g.pte \in [VPages -> [at : {"none", "frame", "swap"}, no : Nat]] /\ f \in Nat
    BY MemoryFields, SwapAssumption DEF Frames
  <1>2. [g.pte EXCEPT ![v] = Present(f)] \in [VPages -> [at : {"none", "frame", "swap"}, no : Nat]]
    BY <1>1 DEF Present
  <1>3. g1 \in SwapMemories BY <1>2 DEF SwapMemories
  <1>4. /\ g1.pte = [g.pte EXCEPT ![v] = Present(f)] /\ g1.data = g.data /\ g1.free = g.free /\ g1.disk = g.disk
        /\ g1.pra_vaddr = g.pra_vaddr /\ g1.panic = g.panic /\ g1.tlb = g.tlb
    BY DEF SwapMemories
  <1>5. page_insert(g, f, v) = g2 BY DEF page_insert, SwapMemories
  <1> HIDE DEF g1
  <1>6. /\ g2 = [g1 EXCEPT !.tlb = g2.tlb] /\ g2 \in SwapMemories
        /\ DOMAIN g2.tlb = DOMAIN g1.tlb \ {v} /\ \A u \in DOMAIN g1.tlb \ {v} : g2.tlb[u] = g1.tlb[u]
    BY <1>3, Invalidated
  <1> HIDE DEF g2
  <1>7. /\ g2.pte = g1.pte /\ g2.data = g1.data /\ g2.free = g1.free /\ g2.disk = g1.disk
        /\ g2.pra_vaddr = g1.pra_vaddr /\ g2.panic = g1.panic
    BY <1>3, <1>6 DEF SwapMemories
  <1>8. k = g3 BY <1>5, <1>6 DEF _fifo_map_swappable
  <1>9. <<f>> \o g2.pra_list \in Seq(Frames) BY <1>6, MemoryFields
  <1>10. g3 \in SwapMemories BY <1>6, <1>9 DEF SwapMemories
  <1>11. /\ g3.pte = g2.pte /\ g3.data = g2.data /\ g3.free = g2.free /\ g3.disk = g2.disk
         /\ g3.pra_vaddr = g2.pra_vaddr /\ g3.panic = g2.panic /\ g3.tlb = g2.tlb
    BY <1>6 DEF SwapMemories
  <1> HIDE DEF g3
  <1> QED BY <1>4, <1>6, <1>7, <1>8, <1>10, <1>11

\* alloc_page takes the frame off the free list.
LEMMA TakenIs ==
  ASSUME NEW g \in SwapMemories, g.free # {}
  PROVE  /\ Min(g.free) \in g.free /\ Taken(g) \in SwapMemories
         /\ Taken(g).free = g.free \ {Min(g.free)} /\ Taken(g).pte = g.pte /\ Taken(g).data = g.data
         /\ Taken(g).disk = g.disk /\ Taken(g).pra_vaddr = g.pra_vaddr /\ Taken(g).panic = g.panic
         /\ Taken(g).tlb = g.tlb
  <1>1. g.free \subseteq Nat BY MemoryFields, SwapAssumption DEF Frames
  <1>2. Min(g.free) \in g.free BY <1>1, MinOf
  <1> DEFINE f == Min(g.free)
  <1> HIDE DEF f
  <1>3. Taken(g) = [g EXCEPT !.free = g.free \ {f}] BY DEF Taken, f
  <1> QED BY <1>2, <1>3 DEF SwapMemories, f

\* do_pgfault gives v a frame with the contents that it should have, or ends in a panic.
LEMMA FaultSound ==
  ASSUME NEW h, NEW w, SwapSound(h, w), h.panic = FALSE, WellFiled(h), NEW v \in VPages, h.pte[v].at # "frame"
  PROVE  \/ do_pgfault(h, v) \in SwapMemories /\ do_pgfault(h, v).panic = TRUE
         \/ /\ SwapSound(do_pgfault(h, v), w) /\ do_pgfault(h, v).panic = FALSE
            /\ do_pgfault(h, v).pte[v].at = "frame"
  <1> DEFINE g == alloc_page(h)
             f == Min(g.free)
             k == do_pgfault(h, v)
  <1>1. CASE g.panic = TRUE
    <2>1. k = [g EXCEPT !.pgfault_num = @ + 1]
      BY <1>1 DEF do_pgfault, pgdir_alloc_page, swap_in
    <2>2. g \in SwapMemories BY AllocSound DEF SwapSound
    <2> HIDE DEF g, k
    <2>3. g.pgfault_num + 1 \in Nat BY <2>2, MemoryFields
    <2>4. k \in SwapMemories /\ k.panic = g.panic BY <2>1, <2>2, <2>3 DEF SwapMemories
    <2> QED BY <1>1, <2>4 DEF k
  <1>2. CASE g.panic # TRUE
    <2>1. /\ SwapSound(g, w) /\ g.panic = FALSE /\ g.free # {} /\ g.pte[v] = h.pte[v]
      BY <1>2, AllocSound
    <2>2. g \in SwapMemories BY <2>1 DEF SwapSound
    <2>3. /\ f \in g.free /\ f \in Frames /\ Taken(g) \in SwapMemories
          /\ Taken(g).free = g.free \ {f} /\ Taken(g).pte = g.pte /\ Taken(g).data = g.data
          /\ Taken(g).disk = g.disk /\ Taken(g).pra_vaddr = g.pra_vaddr /\ Taken(g).panic = g.panic
          /\ Taken(g).tlb = g.tlb
      BY <2>1, <2>2, TakenIs, MemoryFields
    <2>4. g.data \in [Frames -> Nat] /\ g.disk \in [1..(NVPAGES + 1) -> Nat] /\ g.pra_vaddr \in [Frames -> 0..NVPAGES]
      BY <2>2, MemoryFields
    <2>5. v \in 0..NVPAGES /\ v + 1 \in 1..(NVPAGES + 1) BY SwapAssumption DEF VPages
    \* What remains is to count the fault.
    <2>6. ASSUME NEW j, SwapSound(j, w), j.panic = FALSE, j.pte[v] = Present(f), k = [j EXCEPT !.pgfault_num = @ + 1]
          PROVE  SwapSound(k, w) /\ k.panic = FALSE /\ k.pte[v].at = "frame"
      <3> HIDE DEF k, f
      <3>1. j \in SwapMemories BY <2>6 DEF SwapSound
      <3>2. /\ k \in SwapMemories /\ k.pte = j.pte /\ k.data = j.data /\ k.free = j.free /\ k.disk = j.disk
            /\ k.pra_vaddr = j.pra_vaddr /\ k.panic = j.panic /\ k.tlb = j.tlb
        <4>1. k = [j EXCEPT !.pgfault_num = j.pgfault_num + 1] BY <2>6
        <4>2. j.pgfault_num + 1 \in Nat BY <3>1, MemoryFields
        <4>3. k \in SwapMemories BY <3>1, <4>1, <4>2 DEF SwapMemories
        <4> QED BY <3>1, <4>1, <4>3 DEF SwapMemories
      <3>3. EntriesSound(k, w) BY <2>6, <3>2 DEF SwapSound, EntriesSound
      <3>4. FramesFiled(k) BY <2>6, <3>2 DEF SwapSound, FramesFiled
      <3>5. TlbSound(k) BY <2>6, <3>2 DEF SwapSound, TlbSound
      <3>6. k.pte[v].at = "frame" BY <2>6, <3>2 DEF Present
      <3> QED BY <2>6, <3>2, <3>3, <3>4, <3>5, <3>6 DEF SwapSound
    <2>7. CASE h.pte[v].at = "none"
      <3> DEFINE i == _fifo_map_swappable(page_insert(Taken(g), f, v), f)
                 j == [i EXCEPT !.pra_vaddr[f] = v]
      <3>1. k = [j EXCEPT !.pgfault_num = @ + 1] BY <1>2, <2>7 DEF do_pgfault, pgdir_alloc_page
      <3> HIDE DEF g, f, k
      <3>2. /\ i \in SwapMemories
            /\ i.pte = [g.pte EXCEPT ![v] = Present(f)] /\ i.data = g.data /\ i.free = g.free \ {f} /\ i.disk = g.disk
            /\ i.pra_vaddr = g.pra_vaddr /\ i.panic = g.panic
            /\ DOMAIN i.tlb = DOMAIN g.tlb \ {v} /\ \A u \in DOMAIN g.tlb \ {v} : i.tlb[u] = g.tlb[u]
        BY <2>3, PageInserted
      <3> HIDE DEF i
      <3>3. [i.pra_vaddr EXCEPT ![f] = v] \in [Frames -> 0..NVPAGES] BY <2>3, <2>4, <2>5, <3>2
      <3>4. j \in SwapMemories BY <3>2, <3>3 DEF SwapMemories
      <3>5. /\ j.pte = i.pte /\ j.data = i.data /\ j.free = i.free /\ j.disk = i.disk
            /\ j.pra_vaddr = [g.pra_vaddr EXCEPT ![f] = v] /\ j.panic = i.panic /\ j.tlb = i.tlb
        BY <3>2 DEF SwapMemories
      <3> HIDE DEF j
      <3>6. w[v] = 0 BY <2>7 DEF SwapSound, EntriesSound
      <3>7. g.data[f] \in Nat /\ j.data = [g.data EXCEPT ![f] = g.data[f]] BY <2>3, <2>4, <3>2, <3>5
      <3>8. g.pte[v].at # "frame" BY <2>1, <2>7
      <3>9. SwapSound(j, w) /\ j.pte[v] = Present(f)
        <4> DEFINE a == v
                   d == g.data[f]
        <4>1. d \in Nat /\ (w[v] # 0 => d = w[v]) BY <3>6, <3>7
        <4>2. a \in 0..NVPAGES /\ (a = v \/ (a = g.pra_vaddr[f] /\ g.pte[v].at = "swap")) BY <2>5
        <4>3. /\ j.pte = [g.pte EXCEPT ![v] = Present(f)] /\ j.data = [g.data EXCEPT ![f] = d]
              /\ j.free = g.free \ {f} /\ j.disk = g.disk /\ j.pra_vaddr = [g.pra_vaddr EXCEPT ![f] = a]
          BY <3>2, <3>5, <3>7
        <4>4. DOMAIN j.tlb = DOMAIN g.tlb \ {v} /\ \A u \in DOMAIN g.tlb \ {v} : j.tlb[u] = g.tlb[u] BY <3>2, <3>5
        <4>5. f \in g.free /\ SwapSound(g, w) /\ g.panic = FALSE BY <2>1, <2>3
        <4> HIDE DEF a, d
        <4>7. Placed(g, j, w, v, f, d, a) BY <3>8, <4>1, <4>2, <4>3, <4>4, <4>5 DEF Placed
        <4> QED BY <3>4, <4>5, <4>7, MapSound
      <3> QED BY <2>1, <2>6, <3>1, <3>2, <3>5, <3>9 DEF k
    <2>8. CASE h.pte[v].at = "swap"
      <3> DEFINE i == swapfs_read(Taken(g), g.pte[v].no, f)
                 j == _fifo_map_swappable(page_insert(i, f, v), f)
      <3>1. k = [j EXCEPT !.pgfault_num = @ + 1]
        <4>1. swap_in(h, v) = [h |-> i, page |-> f] BY <1>2 DEF swap_in
        <4>2. i.panic = FALSE BY <2>1, <2>3 DEF swapfs_read, SwapMemories
        <4> HIDE DEF i, f
        <4> QED BY <2>8, <4>1, <4>2 DEF do_pgfault
      <3>2. g.pte[v].no = v + 1 /\ (w[v] # 0 => g.disk[v + 1] = w[v]) BY <2>1, <2>8 DEF SwapSound, EntriesSound
      <3> HIDE DEF g, f, k
      <3>3. i = [Taken(g) EXCEPT !.data = [g.data EXCEPT ![f] = g.disk[v + 1]]]
        BY <2>3, <3>2 DEF swapfs_read, SwapMemories
      <3>4. [g.data EXCEPT ![f] = g.disk[v + 1]] \in [Frames -> Nat] BY <2>3, <2>4, <2>5
      <3>5. /\ i \in SwapMemories /\ i.data = [g.data EXCEPT ![f] = g.disk[v + 1]] /\ i.pte = g.pte
            /\ i.free = g.free \ {f} /\ i.disk = g.disk /\ i.pra_vaddr = g.pra_vaddr /\ i.panic = g.panic /\ i.tlb = g.tlb
        <4> HIDE DEF i
        <4> QED BY <2>3, <3>3, <3>4 DEF SwapMemories
      <3> HIDE DEF i
      <3>6. /\ j \in SwapMemories
            /\ j.pte = [g.pte EXCEPT ![v] = Present(f)] /\ j.data = i.data /\ j.free = i.free /\ j.disk = g.disk
            /\ j.pra_vaddr = g.pra_vaddr /\ j.panic = g.panic
            /\ DOMAIN j.tlb = DOMAIN g.tlb \ {v} /\ \A u \in DOMAIN g.tlb \ {v} : j.tlb[u] = g.tlb[u]
        BY <2>3, <3>5, PageInserted
      <3> HIDE DEF j
      <3>7. g.pra_vaddr[f] \in 0..NVPAGES /\ j.pra_vaddr = [g.pra_vaddr EXCEPT ![f] = g.pra_vaddr[f]]
        BY <2>3, <2>4, <3>6
      <3>8. g.disk[v + 1] \in Nat /\ g.pte[v].at = "swap" BY <2>1, <2>4, <2>5, <2>8
      <3>9. SwapSound(j, w) /\ j.pte[v] = Present(f)
        <4> DEFINE a == g.pra_vaddr[f]
                   d == g.disk[v + 1]
        <4>1. d \in Nat /\ (w[v] # 0 => d = w[v]) BY <3>2, <3>8
        <4>2. a \in 0..NVPAGES /\ (a = v \/ (a = g.pra_vaddr[f] /\ g.pte[v].at = "swap")) BY <3>7, <3>8
        <4>3. /\ j.pte = [g.pte EXCEPT ![v] = Present(f)] /\ j.data = [g.data EXCEPT ![f] = d]
              /\ j.free = g.free \ {f} /\ j.disk = g.disk /\ j.pra_vaddr = [g.pra_vaddr EXCEPT ![f] = a]
          BY <3>5, <3>6, <3>7
        <4>4. DOMAIN j.tlb = DOMAIN g.tlb \ {v} /\ \A u \in DOMAIN g.tlb \ {v} : j.tlb[u] = g.tlb[u] BY <3>6
        <4>5. f \in g.free /\ SwapSound(g, w) /\ g.panic = FALSE /\ g.pte[v].at # "frame" BY <2>1, <2>3, <3>8
        <4>6. j \in SwapMemories BY <3>6
        <4> HIDE DEF a, d
        <4>7. Placed(g, j, w, v, f, d, a) BY <4>1, <4>2, <4>3, <4>4, <4>5 DEF Placed
        <4> QED BY <4>6, <4>5, <4>7, MapSound
      <3> QED BY <2>1, <2>6, <3>1, <3>6, <3>9 DEF k
    <2>9. h.pte[v].at \in {"none", "swap"}
      <3>1. h \in SwapMemories BY DEF SwapSound
      <3>2. h.pte[v] \in [at : {"none", "frame", "swap"}, no : Nat] BY <3>1, MemoryFields
      <3> QED BY <3>2
    <2> QED BY <2>7, <2>8, <2>9
  <1> QED BY <1>1, <1>2

\* After the translation v has a frame, and the TLB knows it.
LEMMA TranslatedSound ==
  ASSUME NEW h, NEW w, SwapSound(h, w), h.panic = FALSE, NEW v \in VPages,
         v \notin DOMAIN h.tlb /\ h.pte[v].at # "frame" => WellFiled(h)
  PROVE  \/ Translated(h, v) \in SwapMemories /\ Translated(h, v).panic = TRUE
         \/ /\ SwapSound(Translated(h, v), w) /\ Translated(h, v).panic = FALSE
            /\ v \in DOMAIN Translated(h, v).tlb
  <1>1. CASE v \in DOMAIN h.tlb BY <1>1 DEF Translated
  <1>2. CASE v \notin DOMAIN h.tlb
    <2> DEFINE g == IF h.pte[v].at = "frame" THEN h ELSE do_pgfault(h, v)
               k == [g EXCEPT !.tlb = [x \in DOMAIN @ \cup {v} |-> IF x = v THEN g.pte[v].no ELSE @[x]]]
    <2>1. (g \in SwapMemories /\ g.panic = TRUE) \/ (SwapSound(g, w) /\ g.panic = FALSE /\ g.pte[v].at = "frame") BY <1>2, FaultSound
    <2>2. Translated(h, v) = IF g.panic THEN g ELSE k BY <1>2 DEF Translated
    <2> HIDE DEF g
    <2>3. CASE g \in SwapMemories /\ g.panic = TRUE BY <2>2, <2>3
    <2>4. CASE SwapSound(g, w) /\ g.panic = FALSE /\ g.pte[v].at = "frame"
      <3>1. g \in SwapMemories BY <2>4 DEF SwapSound
      <3> DEFINE f == g.pte[v].no
                 t == [x \in DOMAIN g.tlb \cup {v} |-> IF x = v THEN f ELSE g.tlb[x]]
      <3>3. f \in Frames BY <2>4 DEF SwapSound, EntriesSound
      <3>4. DOMAIN g.tlb \subseteq VPages /\ \A u \in DOMAIN g.tlb : g.tlb[u] \in Frames BY <3>1, MemoryFields, TlbIs
      <3>5. g.pte[v] = Present(f)
        <4>1. g.pte[v] \in [at : {"none", "frame", "swap"}, no : Nat] BY <3>1, MemoryFields
        <4> QED BY <2>4, <4>1 DEF Present
      <3> HIDE DEF f
      <3>6. t \in [DOMAIN g.tlb \cup {v} -> Frames] BY <3>3, <3>4
      <3>7. t \in UNION {[D -> Frames] : D \in SUBSET VPages}
        <4>1. DOMAIN g.tlb \cup {v} \in SUBSET VPages BY <3>4
        <4> HIDE DEF t
        <4> QED BY <3>6, <4>1
      <3>8. /\ DOMAIN t = DOMAIN g.tlb \cup {v} /\ t[v] = f
            /\ \A u \in DOMAIN g.tlb \ {v} : t[u] = g.tlb[u]
        OBVIOUS
      <3>9. k = [g EXCEPT !.tlb = t] BY DEF f
      <3> HIDE DEF t
      <3> HIDE DEF k
      <3>10. k \in SwapMemories BY <3>1, <3>7, <3>9 DEF SwapMemories
      <3>11. /\ k.pte = g.pte /\ k.data = g.data /\ k.free = g.free /\ k.disk = g.disk
             /\ k.pra_vaddr = g.pra_vaddr /\ k.panic = g.panic /\ k.tlb = t
        BY <3>1, <3>9 DEF SwapMemories
      <3>12. EntriesSound(k, w) BY <2>4, <3>11 DEF SwapSound, EntriesSound
      <3>13. FramesFiled(k) BY <2>4, <3>11 DEF SwapSound, FramesFiled
      <3>14. TlbSound(k) BY <2>4, <3>5, <3>8, <3>11 DEF SwapSound, TlbSound
      <3>15. SwapSound(k, w) BY <2>4, <3>10, <3>12, <3>13, <3>14 DEF SwapSound
      <3> QED BY <2>2, <2>4, <3>8, <3>11, <3>15
    <2> QED BY <2>1, <2>3, <2>4
  <1> QED BY <1>1, <1>2

\* A store goes to the frame of its page and of no other.
LEMMA StoreSound ==
  ASSUME NEW h, NEW w, SwapSound(h, w), h.panic = FALSE, NEW v \in VPages, NEW x \in Nat,
         v \notin DOMAIN h.tlb /\ h.pte[v].at # "frame" => WellFiled(h)
  PROVE  \/ Store(h, v, x) \in SwapMemories /\ Store(h, v, x).panic = TRUE
         \/ SwapSound(Store(h, v, x), [w EXCEPT ![v] = x]) /\ Store(h, v, x).panic = FALSE
  <1> DEFINE g == Translated(h, v)
             k == [g EXCEPT !.data[g.tlb[v]] = x]
             y == [w EXCEPT ![v] = x]
  <1>1. (g \in SwapMemories /\ g.panic = TRUE) \/ (SwapSound(g, w) /\ g.panic = FALSE /\ v \in DOMAIN g.tlb) BY TranslatedSound
  <1>2. Store(h, v, x) = IF g.panic THEN g ELSE k BY DEF Store
  <1> HIDE DEF g
  <1>3. CASE g \in SwapMemories /\ g.panic = TRUE BY <1>2, <1>3
  <1>4. CASE SwapSound(g, w) /\ g.panic = FALSE /\ v \in DOMAIN g.tlb
    <2> DEFINE f == g.tlb[v]
    <2>1. g \in SwapMemories /\ w \in [VPages -> Nat] BY <1>4 DEF SwapSound
    <2>2. f \in Frames /\ g.data \in [Frames -> Nat] BY <1>4, <2>1, MemoryFields, TlbIs
    <2>3. g.pte[v].at = "frame" /\ g.pte[v].no = f
      <3>1. g.pte[v] = Present(f) BY <1>4 DEF SwapSound, TlbSound
      <3> QED BY <3>1 DEF Present
    <2> HIDE DEF f
    <2>4. k = [g EXCEPT !.data = [g.data EXCEPT ![f] = x]] BY <2>1 DEF f, SwapMemories
    <2>5. [g.data EXCEPT ![f] = x] \in [Frames -> Nat] BY <2>2
    <2> HIDE DEF k
    <2>6. k \in SwapMemories BY <2>1, <2>4, <2>5 DEF SwapMemories
    <2>7. /\ k.pte = g.pte /\ k.data = [g.data EXCEPT ![f] = x] /\ k.free = g.free /\ k.disk = g.disk
          /\ k.pra_vaddr = g.pra_vaddr /\ k.panic = g.panic /\ k.tlb = g.tlb
      BY <2>1, <2>4 DEF SwapMemories
    <2>8. k.data[f] = x /\ \A e \in Frames \ {f} : k.data[e] = g.data[e] BY <2>2, <2>7
    <2>9. y \in [VPages -> Nat] /\ y[v] = x /\ \A u \in VPages \ {v} : y[u] = w[u] BY <2>1
    <2> HIDE DEF y
    <2>10. EntriesSound(k, y)
      <3> SUFFICES ASSUME NEW u \in VPages
                   PROVE  /\ k.pte[u].at = "none" => y[u] = 0
                          /\ k.pte[u].at = "frame" =>
                               /\ k.pte[u].no \in Frames \ k.free
                               /\ y[u] # 0 => k.data[k.pte[u].no] = y[u]
                               /\ \A e \in VPages : k.pte[e].at = "frame" /\ k.pte[e].no = k.pte[u].no => e = u
                          /\ k.pte[u].at = "swap" => k.pte[u].no = u + 1 /\ (y[u] # 0 => k.disk[u + 1] = y[u])
        BY DEF EntriesSound
      <3>1. EntriesSound(g, w) BY <1>4 DEF SwapSound
      <3>2. CASE u = v BY <2>3, <2>7, <2>8, <2>9, <3>1, <3>2 DEF EntriesSound
      <3>3. CASE u # v
        <4>1. g.pte[u].at = "frame" => g.pte[u].no # f BY <2>3, <3>1, <3>3 DEF EntriesSound
        <4> QED BY <2>7, <2>8, <2>9, <3>1, <3>3, <4>1 DEF EntriesSound
      <3> QED BY <3>2, <3>3
    <2>11. FramesFiled(k) BY <1>4, <2>7 DEF SwapSound, FramesFiled
    <2>12. TlbSound(k) BY <1>4, <2>7 DEF SwapSound, TlbSound
    <2>13. SwapSound(k, y) BY <2>6, <2>9, <2>10, <2>11, <2>12 DEF SwapSound
    <2> QED BY <1>2, <1>4, <2>7, <2>13 DEF y
  <1> QED BY <1>1, <1>3, <1>4

\* The self-check writes to the five pages of its area.
LEMMA ScriptPages == Len(Script) \in Nat /\ \A i \in 1..Len(Script) : Script[i][1] \in 1..5
  <1> DEFINE T == (1..5) \X Nat
  <1>1. check_content_set \in Seq(T) BY DEF check_content_set
  <1>2. _fifo_check_swap \in Seq(T) BY DEF _fifo_check_swap
  <1>3. Script \in Seq(T)
    <2> HIDE DEF T
    <2> QED BY <1>1, <1>2 DEF Script
  <1>4. \A i \in 1..Len(Script) : Script[i] \in T
    <2> HIDE DEF T
    <2> QED BY <1>3
  <1> QED BY <1>3, <1>4

\* Nothing is mapped, swapped or written when check_swap begins.
LEMMA SwapInitSound == SwapInit => SwapInv
  <1> SUFFICES ASSUME SwapInit PROVE SwapInv OBVIOUS
  <1>1. NVPAGES \in Nat /\ NFRAMES \in Nat BY SwapAssumption
  <1>2. << >> \in UNION {[D -> Frames] : D \in SUBSET VPages}
    <2>1. << >> \in [{} -> Frames] /\ {} \in SUBSET VPages OBVIOUS
    <2> QED BY <2>1
  <1>3. [v \in VPages |-> Absent] \in [VPages -> [at : {"none", "frame", "swap"}, no : Nat]] BY DEF Absent
  <1>4. << >> \in Seq(Frames) OBVIOUS
  <1>5. vm \in SwapMemories
    <2>1. [f \in Frames |-> 0] \in [Frames -> 0..NVPAGES] /\ [f \in Frames |-> 0] \in [Frames -> Nat] BY <1>1
    <2>2. [n \in 1..(NVPAGES + 1) |-> 0] \in [1..(NVPAGES + 1) -> Nat] OBVIOUS
    <2>3. vm = Start BY DEF SwapInit
    <2> QED BY <1>2, <1>3, <1>4, <2>1, <2>2, <2>3 DEF Start, SwapMemories
  <1>6. vm.pte = [v \in VPages |-> Absent] /\ vm.free = Frames /\ vm.tlb = << >> BY DEF SwapInit, Start
  <1>7. written \in [VPages -> Nat] /\ \A v \in VPages : written[v] = 0 BY DEF SwapInit
  <1>8. \A v \in VPages : vm.pte[v].at = "none" BY <1>6 DEF Absent
  <1>9. EntriesSound(vm, written) BY <1>7, <1>8 DEF EntriesSound
  <1>10. FramesFiled(vm) BY <1>6, <1>8 DEF FramesFiled
  <1>11. TlbSound(vm) BY <1>6 DEF TlbSound
  <1>12. SwapSound(vm, written) BY <1>5, <1>7, <1>9, <1>10, <1>11 DEF SwapSound
  <1> QED BY <1>12 DEF SwapInit, SwapInv

\* A store keeps the invariant, unless it ends in a panic or a frame is misfiled.
LEMMA StoreKeeps ==
  ASSUME SwapInv, vm.panic = FALSE, misfiled = FALSE, NEW v \in VPages, NEW x \in Nat, ~Misfiles(v)
  PROVE  \/ Store(vm, v, x) \in SwapMemories /\ Store(vm, v, x).panic = TRUE
         \/ SwapSound(Store(vm, v, x), [written EXCEPT ![v] = x]) /\ Store(vm, v, x).panic = FALSE
  <1>1. SwapSound(vm, written) BY DEF SwapInv
  <1>2. v \notin DOMAIN vm.tlb /\ vm.pte[v].at # "frame" => WellFiled(vm) BY DEF Misfiles, WellFiled
  <1> QED BY <1>1, <1>2, StoreSound

\* Every access keeps the invariant.
LEMMA SwapStep == SwapInv /\ [SwapNext]_swapvars => SwapInv'
  <1> SUFFICES ASSUME SwapInv, [SwapNext]_swapvars PROVE SwapInv' OBVIOUS
  <1>1. ASSUME NEW v \in VPages, NEW x \in Values, write(v, x) PROVE SwapInv'
    <2>1. CASE misfiled \/ Misfiles(v) BY <1>1, <2>1 DEF write, SwapInv
    <2>2. CASE misfiled = FALSE /\ ~Misfiles(v)
      <3>1. vm.panic = FALSE BY <1>1, <2>2 DEF write, SwapInv, SwapSound, SwapMemories
      <3>2. x \in Nat BY DEF Values
      <3>3. \/ Store(vm, v, x).panic = TRUE
            \/ SwapSound(Store(vm, v, x), [written EXCEPT ![v] = x])
        BY <2>2, <3>1, <3>2, StoreKeeps
      <3>4. vm'.panic \/ SwapSound(vm', written') BY <1>1, <3>3 DEF write
      <3> QED BY <1>1, <2>2, <3>4 DEF write, SwapInv
    <2> QED BY <2>1, <2>2 DEF SwapInv
  <1>2. CASE check_swap
    <2> DEFINE v == Script[step + 1][1]
    <2>1. v \in VPages
      <3>1. step + 1 \in 1..Len(Script) /\ NVPAGES = 5 BY <1>2, ScriptPages DEF check_swap, SwapInv
      <3> QED BY <3>1, ScriptPages DEF VPages
    <2>2. /\ misfiled' = (misfiled \/ Misfiles(v)) /\ written' = [written EXCEPT ![v] = 1]
          /\ mode' = mode /\ step' = step + 1 /\ ~vm.panic
      BY <1>2 DEF check_swap
    <2>3. PICK e \in BOOLEAN : vm' = [Store(vm, v, 1) EXCEPT !.panic = @ \/ e] BY <1>2 DEF check_swap
    <2> HIDE DEF v
    <2>4. CASE misfiled \/ Misfiles(v)
      <3>1. step' \in Nat BY <2>2 DEF SwapInv
      <3>2. misfiled' = TRUE BY <2>2, <2>4
      <3> QED BY <2>2, <3>1, <3>2 DEF SwapInv
    <2>5. CASE misfiled = FALSE /\ ~Misfiles(v)
      <3> DEFINE g == Store(vm, v, 1)
                 y == [written EXCEPT ![v] = 1]
      <3>1. vm.panic = FALSE BY <2>2, <2>5 DEF SwapInv, SwapSound, SwapMemories
      <3>2. (g \in SwapMemories /\ g.panic = TRUE) \/ (SwapSound(g, y) /\ g.panic = FALSE) BY <2>1, <2>5, <3>1, StoreKeeps
      <3> HIDE DEF g, y
      <3>3. vm'.panic \/ SwapSound(vm', y)
        <4>1. vm' = [g EXCEPT !.panic = @ \/ e] BY <2>3 DEF g
        <4>2. CASE SwapSound(g, y) /\ e = FALSE /\ g.panic = FALSE
          <5>1. [g EXCEPT !.panic = @ \/ e] = g BY <4>2 DEF SwapSound, SwapMemories
          <5> QED BY <4>1, <4>2, <5>1
        <4>3. CASE SwapSound(g, y) /\ e = TRUE
          <5>1. [g EXCEPT !.panic = @ \/ e].panic BY <4>3 DEF SwapSound, SwapMemories
          <5> QED BY <4>1, <5>1
        <4>4. CASE g \in SwapMemories /\ g.panic = TRUE
          <5>1. [g EXCEPT !.panic = @ \/ e].panic BY <4>4 DEF SwapMemories
          <5> QED BY <4>1, <5>1
        <4> QED BY <3>2, <4>2, <4>3, <4>4
      <3> QED BY <2>2, <2>5, <3>3 DEF SwapInv, y
    <2> QED BY <2>4, <2>5 DEF SwapInv
  <1>3. CASE UNCHANGED swapvars BY <1>3 DEF swapvars, SwapInv
  <1> QED BY <1>1, <1>2, <1>3 DEF SwapNext, Stop

\* The invariant says where the contents of a page are.
LEMMA SoundPagesKeepContents == SwapInv => SwappedPagesKeepContents
  <1> SUFFICES ASSUME SwapInv, ~misfiled, ~vm.panic, NEW v \in VPages, written[v] # 0
               PROVE  Content(v) = written[v]
    BY DEF SwappedPagesKeepContents, PagesKeepContents
  <1>1. SwapSound(vm, written) BY DEF SwapInv
  <1>2. EntriesSound(vm, written) /\ TlbSound(vm) BY <1>1 DEF SwapSound
  <1>3. vm.pte[v] \in [at : {"none", "frame", "swap"}, no : Nat] BY <1>1, MemoryFields DEF SwapSound
  <1>4. v \in DOMAIN vm.tlb => vm.pte[v].at = "frame" /\ vm.pte[v].no = vm.tlb[v]
    <2>1. v \in DOMAIN vm.tlb => vm.pte[v] = Present(vm.tlb[v]) BY <1>2 DEF TlbSound
    <2> QED BY <2>1 DEF Present
  <1>5. CASE vm.pte[v].at = "frame" BY <1>2, <1>4, <1>5 DEF EntriesSound, Content
  <1>6. CASE vm.pte[v].at = "swap" BY <1>2, <1>4, <1>6 DEF EntriesSound, Content
  <1>7. CASE vm.pte[v].at = "none" BY <1>2, <1>7 DEF EntriesSound
  <1> QED BY <1>3, <1>5, <1>6, <1>7

\* A page has the contents last written to it, in its frame or in its block of the disk
\* (swap_out, swap_in, do_pgfault), for any number of pages and frames and any order of
\* stores, as long as no frame is swapped out under the address of a page that it no
\* longer holds, which swap_in makes possible.
THEOREM SwapKeepsContents == SwapSpec => []SwappedPagesKeepContents
  <1>1. SwapSpec => []SwapInv BY SwapInitSound, SwapStep, PTL DEF SwapSpec
  <1> QED BY <1>1, SoundPagesKeepContents, PTL
=============================================================================
