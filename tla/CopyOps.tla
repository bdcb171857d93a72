------------------------------- MODULE CopyOps -------------------------------
(***************************************************************************)
(* The algorithms of stl2/detail/algorithm that copy a range a of n        *)
(* elements to an output, or that hand its elements to a function: the     *)
(* output is the sequence of what was written, an element by its number.   *)
(* A predicate is the set T of the keys it holds for.                      *)
(***************************************************************************)
EXTENDS Integers, Sequences

CONSTANT comp(_, _)

at(x, y) == comp(x.key, y.key)
H == INSTANCE HeapOps WITH comp <- at, Moved <- <<>>

(* copy the elements from first on, before last.                           *)
copy(first, last) == [k \in 1 .. last - first |-> first + k - 1]

copy_if(a, n, T) ==
  LET from[i \in 0 .. n] ==
        IF i = n THEN <<>> ELSE IF a[i] \in T THEN <<i>> \o from[i + 1] ELSE from[i + 1]
  IN from[0]

remove_copy_if(a, n, T) ==
  LET from[i \in 0 .. n] ==
        IF i = n THEN <<>> ELSE IF a[i] \in T THEN from[i + 1] ELSE <<i>> \o from[i + 1]
  IN from[0]

remove_copy(a, n, v) == remove_copy_if(a, n, {v})

(* The new value is written as number n.                                   *)
replace_copy_if(a, n, T) ==
  LET from[i \in 0 .. n] ==
        IF i = n THEN <<>> ELSE <<IF a[i] \in T THEN n ELSE i>> \o from[i + 1]
  IN from[0]

replace_copy(a, n, v) == replace_copy_if(a, n, {v})

(* What a function is called with, once for each element.                  *)
for_each(n) == [k \in 1 .. n |-> k - 1]

(* An element that is written is named by the arguments of the operation.  *)
transform(n) == [k \in 1 .. n |-> k - 1]

transform_pairs(n, n2) ==
  LET from[i \in 0 .. n] == IF i = n \/ i = n2 THEN <<>> ELSE <<<<i, i>>>> \o from[i + 1] IN from[0]

reverse_copy(n) ==
  LET back[m \in 0 .. n] == IF m = 0 THEN <<>> ELSE <<m - 1>> \o back[m - 1] IN back[n]

rotate_copy(n, middle) == copy(middle, n) \o copy(0, middle)

(* ext::copy of two ranges: as many as fit.                                *)
copy_to_range(n, room) ==
  LET from[i \in 0 .. n] == IF i = n \/ i = room THEN <<>> ELSE <<i>> \o from[i + 1] IN from[0]

(* A heap of as many elements as there is room for; each lesser one that   *)
(* follows replaces its top and sinks.                                     *)
partial_sort_copy(a, n, room) ==
  LET element(i) == [key |-> a[i], id |-> i]
      len == Len(copy_to_range(n, room))
      copied == [i \in 0 .. len - 1 |-> element(i)]
      scanned[i \in len .. n] ==
        IF i = len THEN H!make_heap_n(copied, 0, len)
        ELSE LET r == scanned[i - 1] IN
             IF at(element(i - 1), r[0])
             THEN H!sift_down_n([r EXCEPT ![0] = element(i - 1)], 0, len, 0) ELSE r
      sorted == H!sort_heap_n(scanned[n], 0, len)
  IN IF room = 0 THEN <<>> ELSE [k \in 1 .. len |-> sorted[k - 1].id]

(* Where the elements of n are after a shuffle for which the distribution  *)
(* drew draws[mid], from 0 up to mid, for each mid: an exchange with the   *)
(* element that many places before.                                        *)
shuffle(n, draws) ==
  LET upto[mid \in 0 .. n - 1] ==
        IF mid = 0 THEN [i \in 0 .. n - 1 |-> i]
        ELSE IF draws[mid] = 0 THEN upto[mid - 1]
        ELSE H!iter_swap(upto[mid - 1], mid - draws[mid], mid)
  IN IF n = 0 THEN [i \in {} |-> 0] ELSE upto[n - 1]

(* All that may be drawn.                                                  *)
Draws(n) == {d \in [1 .. n - 1 -> 0 .. n - 1] : \A mid \in 1 .. n - 1 : d[mid] <= mid}
=============================================================================
