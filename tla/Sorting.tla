------------------------------ MODULE Sorting ------------------------------
(***************************************************************************)
(* The sorting programs of test_progs: insertionsort.c, sort_search.c,     *)
(* mergesort.c, quicksort.c and the linked list of graph.c.  An array is a *)
(* function on 0..n-1; each operator returns what the C function leaves in *)
(* it.                                                                     *)
(***************************************************************************)
EXTENDS Integers, Sequences, FiniteSets, Functions

Swap(arr, i, j) == [arr EXCEPT ![i] = arr[j], ![j] = arr[i]]

\* insertion: the first of the smallest goes to place i.
Insertion(arr, n) ==
  LET first(a, i) == CHOOSE j \in i..n - 1 :
                       /\ \A k \in i..n - 1 : a[j] <= a[k]
                       /\ \A k \in i..j - 1 : a[j] < a[k]
      upTo[i \in 0..n] == IF i = 0 THEN arr
                          ELSE Swap(upTo[i - 1], i - 1, first(upTo[i - 1], i - 1))
  IN  upTo[n - 1]

\* bubble: every later element that is smaller changes places with element i.
Bubble(arr, n) ==
  LET pair(a, i, j) == IF a[j] < a[i] THEN Swap(a, i, j) ELSE a
      inner(a, i) == LET f[j \in i..n - 1] ==
                           IF j = i THEN a ELSE pair(f[j - 1], i, j)
                     IN  f[n - 1]
      outer[i \in 0..n - 1] == IF i = 0 THEN arr ELSE inner(outer[i - 1], i - 1)
  IN  outer[n - 1]

\* bubbleSort: passes over a list that end where the last one ended.
RECURSIVE Passes(_, _)
Passes(arr, last) ==
  LET pair(a, i) == IF a[i] > a[i + 1] THEN Swap(a, i, i + 1) ELSE a
      pass[i \in 0..last] == IF i = 0 THEN arr ELSE pair(pass[i - 1], i - 1)
  IN  IF pass[last] = arr THEN arr ELSE Passes(pass[last], last - 1)

BubbleSort(arr, n) == Passes(arr, n - 1)

\* merge: from index i of L and j of R on; L goes first on a tie.
Merge(L, R) ==
  LET f[i \in 0..Len(L), j \in 0..Len(R)] ==
        IF i = Len(L) THEN SubSeq(R, j + 1, Len(R))
        ELSE IF j < Len(R) /\ R[j + 1] < L[i + 1] THEN <<R[j + 1]>> \o f[i, j + 1]
        ELSE <<L[i + 1]>> \o f[i + 1, j]
  IN  f[0, 0]

RECURSIVE MergeSort(_, _, _)
MergeSort(arr, l, r) ==
  IF l >= r THEN arr
  ELSE LET m == l + (r - l) \div 2
           a == MergeSort(MergeSort(arr, l, m), m + 1, r)
           merged == Merge([i \in 1..m - l + 1 |-> a[l + i - 1]],
                           [i \in 1..r - m |-> a[m + i]])
       IN  [k \in DOMAIN arr |-> IF k \in l..r THEN merged[k - l + 1] ELSE a[k]]

\* partition: the array and the place of the pivot.
Partition(arr, low, high) ==
  LET next(s, j) == IF s.arr[j] <= s.arr[high]
                    THEN [arr |-> Swap(s.arr, s.i + 1, j), i |-> s.i + 1]
                    ELSE s
      loop[j \in low..high] == IF j = low THEN [arr |-> arr, i |-> low - 1]
                               ELSE next(loop[j - 1], j - 1)
      s == loop[high]
  IN  [arr |-> Swap(s.arr, s.i + 1, high), i |-> s.i + 1]

RECURSIVE QuickSort(_, _, _)
QuickSort(arr, low, high) ==
  IF low >= high THEN arr
  ELSE LET p == Partition(arr, low, high)
       IN  QuickSort(QuickSort(p.arr, low, p.i - 1), p.i + 1, high)

RECURSIVE BinarySearch(_, _, _, _)
BinarySearch(arr, l, r, x) ==
  IF r < l THEN -1
  ELSE LET mid == l + (r - l) \div 2
       IN  IF arr[mid] = x THEN mid
           ELSE IF arr[mid] > x THEN BinarySearch(arr, l, mid - 1, x)
           ELSE BinarySearch(arr, mid + 1, r, x)
-----------------------------------------------------------------------------
\* arr holds what unsorted holds, as often, in ascending order.
IsSorted(arr, unsorted) ==
  /\ \A i \in DOMAIN arr \ {0} : arr[i - 1] <= arr[i]
  /\ \A x \in Range(arr) \cup Range(unsorted) :
        Cardinality({i \in DOMAIN arr : arr[i] = x})
          = Cardinality({i \in DOMAIN unsorted : unsorted[i] = x})
=============================================================================
