------------------------------ MODULE MergeOps -------------------------------
(***************************************************************************)
(* Merging and the sorts made of it (stl2/detail/algorithm: merge.hpp,     *)
(* inplace_merge.hpp, forward_sort.hpp, stable_sort.hpp), as operators on  *)
(* a memory m.  The range is at 0 .. buffer - 1, the temporary_buffer that *)
(* the call was granted at buffer .. buffer + size - 1.                    *)
(***************************************************************************)
EXTENDS MoveOps, BoundOps, FiniteSets, FiniteSetsExt

CONSTANTS
  buffer, size,          \* where the temporary buffer is, and its size
  category, trivial,     \* of the iterator; of the elements (see rotate)
  insertion_limit,       \* inplace_stable_sort inserts below this length (15)
  merge_sort_chunk_size  \* what merge_sort_with_buffer starts with (7)

(* Merge n1 elements from first1 and n2 from first2 to result, moving them; *)
(* step is -1 for reverse_iterators, with which the comparison is not_fn's. *)
merge(m, first1, n1, first2, n2, result, step) ==
  LET less(x, y) == IF step = 1 THEN comp(x, y) ELSE ~comp(x, y)
      merged[k \in 0 .. n1 + n2] ==
        IF k = 0 THEN [mem |-> m, taken1 |-> 0]
        ELSE LET was   == merged[k - 1]
                 at1   == first1 + step * was.taken1
                 at2   == first2 + step * (k - 1 - was.taken1)
                 left1 == was.taken1 < n1
                 left2 == k - 1 - was.taken1 < n2
                 take1 == left1 /\ (left2 => less(was.mem[at1], was.mem[at2]))
             IN [mem    |-> move1(was.mem, IF take1 THEN at1 ELSE at2, result + step * (k - 1)),
                 taken1 |-> IF take1 THEN was.taken1 + 1 ELSE was.taken1]
  IN merged[n1 + n2].mem

(* merge_adaptive_fn::impl: the shorter range goes into the buffer and is  *)
(* merged back with the other, from the end it has left free.              *)
merge_with_buffer(m, begin, middle, end) ==
  LET len1 == middle - begin
      len2 == end - middle
  IN IF len1 <= len2
     THEN merge(move(m, begin, len1, buffer, 1),
                buffer, len1, middle, len2, begin, 1)
     ELSE merge(move(m, middle, len2, buffer, 1),
                middle - 1, len1, buffer + len2 - 1, len2, end - 1, -1)

(* merge_adaptive: without enough buffer, rotate what is out of place into *)
(* the other half and merge the two halves.                                *)
RECURSIVE merge_adaptive(_, _, _, _)
merge_adaptive(m, first, middle, end) ==
  LET above == {i \in first .. middle - 1 : comp(m[middle], m[i])}
      begin == Min(above)
      len1  == middle - begin
      len2  == end - middle
      m1    == IF len1 < len2 THEN upper_bound(m, begin, len1, m[middle + len2 \div 2])
                              ELSE begin + len1 \div 2
      m2    == IF len1 < len2 THEN middle + len2 \div 2
                              ELSE lower_bound(m, middle, len2, m[m1])
      mid   == rotated(m1, middle, m2)
      r     == rotate(m, m1, middle, m2, category, trivial)
  IN IF middle = end \/ above = {} THEN m
     ELSE IF len1 <= size \/ len2 <= size THEN merge_with_buffer(m, begin, middle, end)
     ELSE IF len1 = 1 /\ len1 >= len2 THEN iter_swap(m, begin, middle)
     ELSE IF mid - begin < end - mid
          THEN merge_adaptive(merge_adaptive(r, begin, m1, mid), mid, m2, end)
          ELSE merge_adaptive(merge_adaptive(r, mid, m2, end), begin, m1, mid)

-----------------------------------------------------------------------------
(* stable_sort.hpp                                                         *)

(* A faulty linear_insert: val goes in front of the elements equivalent to it. *)
linear_insert_in_front(m, first, last) ==
  LET val == m[last]
      to  == Max({i \in first .. last - 1 : comp(m[i], val)} \cup {first - 1}) + 1
  IN [move(m, last - 1, last - to, last, -1) EXCEPT ![to] = val]

(* rsort::linear_insert: val goes behind the last element not above it.    *)
linear_insert(m, first, last) ==
  LET val == m[last]
      below == {i \in first .. last - 1 : ~comp(val, m[i])}
      to == IF comp(val, m[first]) THEN first ELSE Max(below) + 1
  IN [move(m, last - 1, last - to, last, -1) EXCEPT ![to] = val]

insertion_sort(m, first, last) ==
  LET sorted[i \in first .. last] ==
        IF i <= first + 1 THEN m ELSE linear_insert(sorted[i - 1], first, i - 1)
  IN sorted[last]

RECURSIVE inplace_stable_sort(_, _, _)
inplace_stable_sort(m, first, last) ==
  LET middle == first + (last - first) \div 2 IN
  IF last - first < insertion_limit THEN insertion_sort(m, first, last)
  ELSE merge_adaptive(
         inplace_stable_sort(inplace_stable_sort(m, first, middle), middle, last),
         first, middle, last)

(* Merge runs of step elements pairwise to result; the last may be short.  *)
RECURSIVE merge_sort_loop(_, _, _, _, _)
merge_sort_loop(m, first, last, result, step) ==
  IF last - first >= 2 * step
  THEN merge_sort_loop(
         merge(m, first, step, first + step, step, result, 1),
         first + 2 * step, last, result + 2 * step, step)
  ELSE LET n1 == Min({last - first, step})
       IN merge(m, first, n1, first + n1, last - first - n1, result, 1)

RECURSIVE chunk_insertion_sort(_, _, _)
chunk_insertion_sort(m, first, last) ==
  LET next == first + merge_sort_chunk_size IN
  IF next <= last
  THEN chunk_insertion_sort(insertion_sort(m, first, next), next, last)
  ELSE insertion_sort(m, first, last)

(* From the range to the buffer and back, with runs of twice the length    *)
(* each time: the loop ends with the elements in the range.                *)
RECURSIVE merge_back_and_forth(_, _, _, _)
merge_back_and_forth(m, first, last, step) ==
  LET len  == last - first
      out  == merge_sort_loop(m, first, last, buffer, step)
      back == merge_sort_loop(out, buffer, buffer + len, first, 2 * step)
  IN IF 4 * step >= len THEN back ELSE merge_back_and_forth(back, first, last, 4 * step)

merge_sort_with_buffer(m, first, last) ==
  LET chunks == chunk_insertion_sort(m, first, last)
  IN IF merge_sort_chunk_size >= last - first THEN chunks
     ELSE merge_back_and_forth(chunks, first, last, merge_sort_chunk_size)

RECURSIVE stable_sort_adaptive(_, _, _)
stable_sort_adaptive(m, first, last) ==
  LET len    == (last - first + 1) \div 2
      middle == first + len
      halves == IF len > size
                THEN stable_sort_adaptive(stable_sort_adaptive(m, first, middle), middle, last)
                ELSE merge_sort_with_buffer(merge_sort_with_buffer(m, first, middle), middle, last)
  IN merge_adaptive(halves, first, middle, last)

(* stable_sort for random access iterators.                                *)
stable_sort(m, first, last) ==
  IF size = 0 THEN inplace_stable_sort(m, first, last)
              ELSE stable_sort_adaptive(m, first, last)
=============================================================================
