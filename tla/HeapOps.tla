------------------------------- MODULE HeapOps -------------------------------
(***************************************************************************)
(* The heap algorithms of stl2/detail/algorithm (heap_sift.hpp,            *)
(* make_heap.hpp, push_heap.hpp, pop_heap.hpp, sort_heap.hpp,              *)
(* partial_sort.hpp) as operators on an array a, a function from indices   *)
(* to elements; first is the index where the heap starts.  comp(x, y)      *)
(* compares the keys of two elements; it may throw, with an element in a   *)
(* local, which is destroyed.  The operators called ..._thrown are the     *)
(* arrays that a call may leave then.                                      *)
(***************************************************************************)
EXTENDS Integers, Sequences, SequencesExt, TLC

CONSTANTS comp(_, _), Moved   \* Moved: a moved-from object

iter_swap(a, i, j) == [a EXCEPT ![i] = a[j], ![j] = a[i]]

(* The element at the start of a path goes to its end and the others move  *)
(* up by one: what the loops of sift_up_n and sift_down_n do with a hole.  *)
MoveAlong(a, path) ==
  LET at(i) == CHOOSE k \in DOMAIN path : path[k] = i
      next(k) == IF k = Len(path) THEN 1 ELSE k + 1
  IN [i \in DOMAIN a |-> IF i \in Range(path) THEN a[path[next(at(i))]] ELSE a[i]]

(* A faulty MovedSoFar that copies what it should move.                    *)
CopiedSoFar(a, path, moves) ==
  LET at(i) == CHOOSE k \in DOMAIN path : path[k] = i
  IN [i \in Range(SubSeq(path, 1, moves)) |-> a[path[at(i) + 1]]] @@ a

(* The first so many of these moves: the element from the start is out.    *)
MovedSoFar(a, path, moves) ==
  LET at(i) == CHOOSE k \in DOMAIN path : path[k] = i
  IN [i \in Range(SubSeq(path, 1, moves)) |-> a[path[at(i) + 1]]]
     @@ [i \in {path[moves + 1]} |-> IF moves > 0 THEN Moved ELSE a[i]] @@ a

(* The arrays that the comparisons at these places of the path find.       *)
Found(a, path, places) ==
  {MovedSoFar(a, path, k - 1) : k \in {k \in DOMAIN path : path[k] \in places}}

(* From `first + n - 1' up, as long as the parent is less.                 *)
up_path(a, first, n) ==
  LET path[i \in 0 .. n - 1] ==
        LET parent == (i - 1) \div 2
        IN IF i > 0 /\ comp(a[first + parent], a[first + n - 1])
           THEN <<first + i>> \o path[parent] ELSE <<first + i>>
  IN path[n - 1]
sift_up_n(a, first, n) == IF n > 1 THEN MoveAlong(a, up_path(a, first, n)) ELSE a
sift_up_n_thrown(a, first, n) ==
  IF n > 1 THEN Found(a, up_path(a, first, n), first + 1 .. first + n - 1) ELSE {}

(* From child number `start' down, as long as the greater child is not     *)
(* less than the element that sinks.                                       *)
down_path(a, first, n, start) ==
  LET greater(i) == IF 2 * i + 2 < n /\ comp(a[first + 2*i + 1], a[first + 2*i + 2])
                    THEN 2 * i + 2 ELSE 2 * i + 1
      path[i \in 0 .. n - 1] ==
        IF 2 * i + 1 < n /\ ~comp(a[first + greater(i)], a[first + start])
        THEN <<first + i>> \o path[greater(i)] ELSE <<first + i>>
  IN path[start]
HasChild(start, n) == 2 * start + 1 < n
sift_down_n(a, first, n, start) ==
  IF HasChild(start, n) THEN MoveAlong(a, down_path(a, first, n, start)) ELSE a
sift_down_n_thrown(a, first, n, start) ==
  LET parents == {first + i : i \in {i \in 0 .. n - 1 : HasChild(i, n)}}
  IN IF HasChild(start, n) THEN Found(a, down_path(a, first, n, start), parents) ELSE {}

(* Sift every parent down, the last one first: the array after parent s.   *)
sifted_parents(a, first, n) ==
  LET sifted[s \in 0 .. n] ==
        IF s < n \div 2 THEN sift_down_n(sifted[s + 1], first, n, s) ELSE a
  IN sifted
make_heap_n(a, first, n) == sifted_parents(a, first, n)[0]
make_heap_n_thrown(a, first, n) ==
  UNION {sift_down_n_thrown(sifted_parents(a, first, n)[s + 1], first, n, s) :
           s \in 0 .. n \div 2 - 1}

(* A faulty pop_heap_n that sifts through the whole range, the element it  *)
(* has just delivered included.                                            *)
pop_heap_n_whole(a, first, n) ==
  IF n > 1 THEN sift_down_n(iter_swap(a, first, first + n - 1), first, n, 0)
  ELSE a

(* Swap the ends and sift the new first element down in the rest.          *)
pop_heap_n(a, first, n) ==
  IF n > 1 THEN sift_down_n(iter_swap(a, first, first + n - 1), first, n - 1, 0)
  ELSE a
pop_heap_n_thrown(a, first, n) ==
  IF n > 1 THEN sift_down_n_thrown(iter_swap(a, first, first + n - 1), first, n - 1, 0)
  ELSE {}

(* The array when i elements are left of the heap.                         *)
popped_heaps(a, first, n) ==
  LET popped[i \in 1 .. n] ==
        IF i = n THEN a ELSE pop_heap_n(popped[i + 1], first, i + 1)
  IN popped
sort_heap_n(a, first, n) == IF n < 2 THEN a ELSE popped_heaps(a, first, n)[1]
sort_heap_n_thrown(a, first, n) ==
  UNION {pop_heap_n_thrown(popped_heaps(a, first, n)[i], first, i) : i \in 2 .. n}

(* A heap of the least elements so far; each lesser one that follows       *)
(* replaces its top.                                                       *)
scanned_ranges(a, first, middle, last) ==
  LET len == middle - first
      scanned[i \in middle .. last] ==
        IF i = middle THEN make_heap_n(a, first, len)
        ELSE LET b == scanned[i - 1]
             IN IF comp(b[i - 1], b[first])
                THEN sift_down_n(iter_swap(b, i - 1, first), first, len, 0) ELSE b
  IN scanned
partial_sort(a, first, middle, last) ==
  sort_heap_n(scanned_ranges(a, first, middle, last)[last], first, middle - first)
partial_sort_thrown(a, first, middle, last) ==
  LET len == middle - first
      b(i) == scanned_ranges(a, first, middle, last)[i]
  IN make_heap_n_thrown(a, first, len)
     \cup {b(i) : i \in middle .. last - 1}
     \cup UNION {sift_down_n_thrown(iter_swap(b(i), i, first), first, len, 0) :
                   i \in {i \in middle .. last - 1 : comp(b(i)[i], b(i)[first])}}
     \cup sort_heap_n_thrown(b(last), first, len)
=============================================================================
