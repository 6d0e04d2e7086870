--------------------------- MODULE SortPrograms -----------------------------
(***************************************************************************)
(* What the sorting programs of user/ compute: quicksort.c and             *)
(* mergesort_leakage.c, mergesort_noleakage.c.  An array is a function     *)
(* from 0 .. N-1; a read or write outside it has no value here.            *)
(***************************************************************************)
EXTENDS Integers, Sequences

Swap(A, first, second) == [A EXCEPT ![first] = A[second], ![second] = A[first]]

InitializeAscending(n)  == [i \in 0 .. n - 1 |-> i]
InitializeDescending(n) == [i \in 0 .. n - 1 |-> n - i - 1]
\* i % (n / 3): for fewer than three elements the program divides by 0.
InitializeSemiRandom(n) == [i \in 0 .. n - 1 |-> i % (n \div 3)]

CheckSorted(A, n) == \A i \in 0 .. n - 2 : A[i] <= A[i + 1]

\* The two inner loops of QSort: i goes right over elements up to the pivot,
\* j left over elements from the pivot.
RECURSIVE ScanRight(_, _, _, _)
ScanRight(A, start, final, i) ==
    IF i <= final /\ A[start] >= A[i] THEN ScanRight(A, start, final, i + 1) ELSE i
RECURSIVE ScanLeft(_, _, _)
ScanLeft(A, start, j) ==
    IF j > start /\ A[start] <= A[j] THEN ScanLeft(A, start, j - 1) ELSE j

RECURSIVE Partition(_, _, _, _, _)
Partition(A, start, final, i, j) ==
    LET i2 == ScanRight(A, start, final, i)
        j2 == ScanLeft(A, start, j)
    IN  IF i > j THEN [A |-> Swap(A, start, j), i |-> i, j |-> j]
        ELSE Partition(IF i2 <= j2 THEN Swap(A, i2, j2) ELSE A, start, final, i2, j2)

\* Mutant: the elements left of the pivot are not sorted to the end.
BelowPivot_Short(j) == j - 2
\* The last index of the left part.
BelowPivot(j) == j - 1

RECURSIVE QSort(_, _, _)
QSort(A, start, final) ==
    LET p == Partition(A, start, final, start + 1, final)
    IN  IF start >= final THEN A
        ELSE QSort(QSort(p.A, start, BelowPivot(p.j)), p.i, final)
QuickSort(A, n) == QSort(A, 0, n - 1)

\* Merge of A[p-1 .. q-1] and A[q .. r-1], from place k on.
RECURSIVE MergeFrom(_, _, _, _)
MergeFrom(A, left, right, k) ==
    IF left = <<>> /\ right = <<>> THEN A
    ELSE IF right = <<>> \/ (left # <<>> /\ Head(left) < Head(right))
         THEN MergeFrom([A EXCEPT ![k - 1] = Head(left)], Tail(left), right, k + 1)
         ELSE MergeFrom([A EXCEPT ![k - 1] = Head(right)], left, Tail(right), k + 1)
Merge(A, p, q, r) ==
    MergeFrom(A, [x \in 1 .. q - p + 1 |-> A[p + x - 2]], [x \in 1 .. r - q |-> A[q + x - 1]], p)

\* MSort counts places from 1.
RECURSIVE MSort(_, _, _)
MSort(A, p, r) ==
    LET q == (p + r) \div 2
    IN  IF p >= r THEN A ELSE Merge(MSort(MSort(A, p, q), q + 1, r), p, q, r)
=============================================================================
