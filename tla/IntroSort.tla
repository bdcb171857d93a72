------------------------------ MODULE IntroSort ------------------------------
(***************************************************************************)
(* sort() for random access iterators (sort.hpp, random_access_sort.hpp):  *)
(* quicksort with a depth limit, heap sort of what exceeds the limit, and  *)
(* one insertion sort over the blocks that are left.  The scans of the     *)
(* partition and of the later insertions test no bound: they rely on an    *)
(* element that stops them.                                                *)
(*                                                                         *)
(* A step is one comparison with what depends on it.  Every comparison may *)
(* throw; moves and swaps do not.                                          *)
(***************************************************************************)
EXTENDS Integers, Sequences, FiniteSets

CONSTANTS
  MaxN,           \* the greatest length of an input
  Keys,           \* the keys of the elements
  threshold,      \* introsort_threshold (16)
  limit_factor,   \* the depth limit is limit_factor * log2(n) (2)
  Hole            \* a moved-from element

ASSUME IntroSortAssumption ==
  /\ MaxN \in Nat /\ Keys \subseteq Int
  /\ threshold \in Nat /\ threshold >= 2
  /\ limit_factor \in Nat
  /\ Hole \notin Int

VARIABLES
  n,              \* the length of the range
  key,            \* key[x]: the key of element x
  a,              \* the range: the elements, numbered from 0, or Hole
  pc,
  stack,          \* the calls of introsort_loop, the innermost one first
  i, j,           \* the iterators of a partition or an insertion; in a heap
                  \* sort where an element sinks from, and where the heap ends
  pivot,          \* pivot_pnt; in a heap sort the greater child
  root,           \* the parents from this one on are above a heap
  val             \* the element held in a local (val, top), or Hole

vars == <<n, key, a, pc, stack, i, j, pivot, root, val>>

Elements == 0 .. n - 1

less(x, y) == key[x] < key[y]

iter_swap(x, y) == [a EXCEPT ![x] = a[y], ![y] = a[x]]

(* An introsort_loop over [first, last).                                   *)
Frame(first, last, limit) == [first |-> first, last |-> last, limit |-> limit]

top == Head(stack)

(* How often m can be halved before it is 0, but for the last time.        *)
log2(m) == Cardinality({k \in 1 .. m : 2^k <= m})

-----------------------------------------------------------------------------
(* Any input of at least one element; for none, sort() returns at once.    *)
Init ==
  /\ n \in 1 .. MaxN
  /\ key \in [Elements -> Keys]
  /\ a = [x \in Elements |-> x]
  /\ pc = "loop"
  /\ stack = <<Frame(0, n, limit_factor * log2(n))>>
  /\ i = 0 /\ j = 0 /\ pivot = 0 /\ root = 0
  /\ val = Hole

input == <<n, key>>

(* A block that is short enough is left for the insertion sort.            *)
LeaveBlock ==
  /\ pc = "loop" /\ stack # <<>>
  /\ top.last - top.first <= threshold
  /\ stack' = Tail(stack)
  /\ UNCHANGED <<input, a, pc, i, j, pivot, root, val>>

(* The depth limit is reached: partial_sort(first, last, last), which is   *)
(* make_heap and sort_heap.  What is a heap ends at j.                     *)
BeginHeap ==
  /\ pc = "loop" /\ stack # <<>>
  /\ top.last - top.first > threshold /\ top.limit = 0
  /\ root' = (top.last - top.first) \div 2
  /\ j' = top.last
  /\ pc' = "heap"
  /\ UNCHANGED <<input, a, stack, i, pivot, val>>

(* make_heap_n: the next parent sinks, the last one first.                 *)
SiftParent ==
  /\ pc = "heap" /\ root > 0
  /\ root' = root - 1
  /\ i' = top.first + root - 1
  /\ pc' = "sift"
  /\ UNCHANGED <<input, a, stack, j, pivot, val>>

(* pop_heap_n: the ends are swapped, the heap ends one earlier, and its new *)
(* first element sinks.                                                    *)
PopHeap ==
  /\ pc = "heap" /\ root = 0 /\ j - top.first > 1
  /\ a' = iter_swap(top.first, j - 1)
  /\ j' = j - 1 /\ i' = top.first
  /\ pc' = "sift"
  /\ UNCHANGED <<input, stack, pivot, root, val>>

HeapSorted ==
  /\ pc = "heap" /\ root = 0 /\ j - top.first <= 1
  /\ stack' = Tail(stack)
  /\ pc' = "loop"
  /\ UNCHANGED <<input, a, i, j, pivot, root, val>>

(* sift_down_n: the left child of i, the element that sinks from i, which  *)
(* is still there at first, and its way into the place that it leaves.     *)
child == top.first + 2 * (i - top.first) + 1
sinking == IF val = Hole THEN a[i] ELSE val
Settle == val' = Hole /\ a' = [a EXCEPT ![i] = sinking]

(* A place without a child is where it stays.                              *)
SiftLeaf ==
  /\ pc = "sift" /\ child >= j
  /\ Settle
  /\ pc' = "heap"
  /\ UNCHANGED <<input, stack, i, j, pivot, root>>

(* If there are two children, the greater one.                             *)
GreaterChild ==
  /\ pc = "sift" /\ child < j
  /\ pivot' = IF child + 1 < j /\ less(a[child], a[child + 1])
              THEN child + 1 ELSE child
  /\ pc' = "order"
  /\ UNCHANGED <<input, a, stack, i, j, root, val>>

(* A child that is less ends the sift; any other one moves up.             *)
SiftChild ==
  /\ pc = "order"
  /\ IF less(a[pivot], sinking)
     THEN Settle /\ i' = i /\ pc' = "heap"
     ELSE /\ val' = sinking
          /\ a' = [a EXCEPT ![i] = a[pivot], ![pivot] = Hole]
          /\ i' = pivot /\ pc' = "sift"
  /\ UNCHANGED <<input, stack, j, pivot, root>>

(* choose_pivot: the median of the first, the middle and the last element. *)
choose_pivot(first, last) ==
  LET mid == first + (last - first) \div 2
      A == a[first]  B == a[mid]  C == a[last - 1]
  IN IF less(A, B)
     THEN IF less(B, C) THEN mid ELSE IF less(A, C) THEN last - 1 ELSE first
     ELSE IF less(A, C) THEN first ELSE IF less(B, C) THEN last - 1 ELSE mid

Partition ==
  /\ pc = "loop" /\ stack # <<>>
  /\ top.last - top.first > threshold /\ top.limit # 0
  /\ pivot' = choose_pivot(top.first, top.last)
  /\ i' = top.first /\ j' = top.last
  /\ pc' = "up"
  /\ UNCHANGED <<input, a, stack, root, val>>

(* A faulty ScanUp that does not step over such an element.                *)
ScanUpStays ==
  /\ pc = "up"
  /\ IF less(a[i], a[pivot]) THEN pc' = pc ELSE pc' = "down"
  /\ UNCHANGED <<input, a, stack, i, j, pivot, root, val>>

(* Up over the elements that are less than the pivot.                      *)
ScanUp ==
  /\ pc = "up"
  /\ IF less(a[i], a[pivot]) THEN i' = i + 1 /\ pc' = pc
     ELSE i' = i /\ pc' = "down"
  /\ UNCHANGED <<input, a, stack, j, pivot, root, val>>

(* Down over the elements that are greater; the iterator goes first.       *)
ScanDown ==
  /\ pc = "down"
  /\ j' = j - 1
  /\ pc' = IF less(a[pivot], a[j - 1]) THEN pc ELSE "meet"
  /\ UNCHANGED <<input, a, stack, i, pivot, root, val>>

(* A faulty Exchange that loses track of the pivot.                        *)
ExchangeLosesPivot ==
  /\ pc = "meet" /\ i < j
  /\ a' = iter_swap(i, j)
  /\ i' = i + 1
  /\ pc' = "up"
  /\ UNCHANGED <<input, stack, j, pivot, root, val>>

(* The scans have not met: swap, and follow the pivot if it was moved.     *)
Exchange ==
  /\ pc = "meet" /\ i < j
  /\ a' = iter_swap(i, j)
  /\ pivot' = IF pivot = i THEN j ELSE IF pivot = j THEN i ELSE pivot
  /\ i' = i + 1
  /\ pc' = "up"
  /\ UNCHANGED <<input, stack, j, root, val>>

(* A faulty Cut that charges the depth limit to the recursive call only.   *)
CutUncharged ==
  /\ pc = "meet" /\ ~(i < j)
  /\ stack' = <<Frame(i, top.last, top.limit), Frame(top.first, i, top.limit)>>
              \o Tail(stack)
  /\ pc' = "loop"
  /\ UNCHANGED <<input, a, i, j, pivot, root, val>>

(* introsort_loop(cut, last, --depth_limit), then go on with [first, cut). *)
Cut ==
  /\ pc = "meet" /\ ~(i < j)
  /\ LET limit == top.limit - 1 IN
       stack' = <<Frame(i, top.last, limit), Frame(top.first, i, limit)>>
                \o Tail(stack)
  /\ pc' = "loop"
  /\ UNCHANGED <<input, a, i, j, pivot, root, val>>

(* final_insertion_sort begins.                                            *)
BeginInsertions ==
  /\ pc = "loop" /\ stack = <<>>
  /\ i' = 1 /\ pc' = "insert"
  /\ UNCHANGED <<input, a, stack, j, pivot, root, val>>

(* A faulty BeginInsertion that has no guarded part.                       *)
BeginUnguarded ==
  /\ pc = "insert" /\ i < n
  /\ val' = a[i]
  /\ a' = [a EXCEPT ![i] = Hole]
  /\ j' = i
  /\ pc' = "linear"
  /\ UNCHANGED <<input, stack, i, pivot, root>>

(* Take the next element out.  One of the first block (insertion_sort) is  *)
(* compared with the first element before all others; a later one          *)
(* (unguarded_insertion_sort) is not.                                      *)
BeginInsertion ==
  /\ pc = "insert" /\ i < n
  /\ val' = a[i]
  /\ a' = [a EXCEPT ![i] = Hole]
  /\ j' = i
  /\ pc' = IF i < threshold THEN "first" ELSE "linear"
  /\ UNCHANGED <<input, stack, i, pivot, root>>

(* A faulty InsertFirst that puts it behind the first element.             *)
InsertSecond ==
  /\ pc = "first"
  /\ IF less(val, a[0])
     THEN /\ a' = [x \in Elements |->
                     IF x = 1 THEN val ELSE IF x > 1 /\ x <= i THEN a[x - 1] ELSE a[x]]
          /\ val' = Hole
          /\ i' = i + 1
          /\ pc' = "insert"
     ELSE pc' = "linear" /\ UNCHANGED <<a, val, i>>
  /\ UNCHANGED <<input, stack, j, pivot, root>>

(* linear_insert: less than the first element, it goes to the front, and   *)
(* move_backward makes room for it.                                        *)
InsertFirst ==
  /\ pc = "first"
  /\ IF less(val, a[0])
     THEN /\ a' = [x \in Elements |->
                     IF x = 0 THEN val ELSE IF x <= i THEN a[x - 1] ELSE a[x]]
          /\ val' = Hole
          /\ i' = i + 1
          /\ pc' = "insert"
     ELSE pc' = "linear" /\ UNCHANGED <<a, val, i>>
  /\ UNCHANGED <<input, stack, j, pivot, root>>

(* A faulty unguarded_linear_insert that stops at elements it should pass. *)
InsertLinearKeeps ==
  /\ pc = "linear"
  /\ IF less(val, a[j - 1])
     THEN /\ a' = [a EXCEPT ![j] = a[j - 1]]
          /\ j' = j - 1
          /\ UNCHANGED <<val, i, pc>>
     ELSE /\ val' = Hole
          /\ i' = i + 1 /\ pc' = "insert"
          /\ UNCHANGED <<a, j>>
  /\ UNCHANGED <<input, stack, pivot, root>>

(* unguarded_linear_insert: elements that are greater move up by one.      *)
InsertLinear ==
  /\ pc = "linear"
  /\ IF less(val, a[j - 1])
     THEN /\ a' = [a EXCEPT ![j] = a[j - 1], ![j - 1] = Hole]
          /\ j' = j - 1
          /\ UNCHANGED <<val, i, pc>>
     ELSE /\ a' = [a EXCEPT ![j] = val]
          /\ val' = Hole
          /\ i' = i + 1 /\ pc' = "insert"
          /\ UNCHANGED j
  /\ UNCHANGED <<input, stack, pivot, root>>

Finish ==
  /\ pc = "insert" /\ i >= n
  /\ pc' = "done"
  /\ UNCHANGED <<input, a, stack, i, j, pivot, root, val>>

(* The comparison throws; an element that was held is destroyed.           *)
Throw ==
  /\ \/ pc \in {"up", "down", "order", "first", "linear"}
     \/ pc = "sift" /\ child + 1 < j
     \/ /\ pc = "loop" /\ stack # <<>>
        /\ top.last - top.first > threshold /\ top.limit # 0
  /\ pc' = "threw"
  /\ val' = Hole
  /\ UNCHANGED <<input, a, stack, i, j, pivot, root>>

Step ==
  \/ LeaveBlock \/ BeginHeap \/ SiftParent \/ PopHeap \/ HeapSorted
  \/ SiftLeaf \/ GreaterChild \/ SiftChild \/ Partition
  \/ ScanUp \/ ScanDown \/ Exchange \/ Cut
  \/ BeginInsertions \/ BeginInsertion \/ InsertFirst \/ InsertLinear
  \/ Finish

Next == Step \/ Throw

(* The caller's thread runs sort() to its end.  Nothing makes the          *)
(* comparison throw: it may never do so.                                   *)
Spec == Init /\ [][Next]_vars /\ WF_vars(Step)

-----------------------------------------------------------------------------
(* No scan leaves the block it partitions and no insertion runs out of the *)
(* range, although neither tests a bound (unguarded_partition,             *)
(* unguarded_linear_insert); no child is beyond the end of its heap; and   *)
(* no comparison sees a moved-from element.                                *)
UnguardedInBounds ==
  /\ pc = "up"     => i < top.last
  /\ pc = "down"   => top.first < j
  /\ pc = "order"  => pivot < j /\ a[pivot] # Hole
  /\ pc = "linear" => 0 < j /\ a[j - 1] # Hole
  /\ pc = "first"  => a[0] # Hole

(* No element is in the range twice, or in it and held outside of it; none *)
(* is lost but by an exception, which loses one at most: there is never    *)
(* more than one hole.                                                     *)
KeepsElements ==
  /\ \A x, y \in Elements : a[x] = a[y] => x = y
  /\ \A x \in Elements : a[x] = val => val = Hole
  /\ pc # "threw" => \A x \in Elements : x = val \/ \E k \in Elements : a[k] = x

(* When the quicksort is done, two elements that lie a block or more apart *)
(* are in order: what lets the later insertions do without a bound.        *)
BlocksInOrder ==
  pc = "insert" /\ i = 1 =>
    \A x, y \in Elements : y - x >= threshold => ~less(a[y], a[x])

(* At the end the range is sorted.                                         *)
Sorts == pc = "done" => \A x \in 1 .. n - 1 : ~less(a[x], a[x - 1])

(* The recursion is never deeper than the depth limit, whatever the input. *)
DepthBounded == Len(stack) <= limit_factor * log2(n) + 1

(* Sorting ends, if only by an exception.                                  *)
Terminates == <>(pc \in {"done", "threw"})
=============================================================================
